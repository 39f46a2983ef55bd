------------------------ MODULE TranscriptHub_proofs ------------------------
(***************************************************************************)
(* Proofs about TranscriptHub, for any sets of consoles, pages and         *)
(* languages, any size of the replay buffer and any bounds.                *)
(*                                                                         *)
(* The inductive invariant has three layers. About the hub: the map holds  *)
(* the one object in use, active says whether it has a source, and the     *)
(* sweep timer is set as long as it has. About the translations: only      *)
(* segments that have their number are translated, and no two calls under  *)
(* way have the same key. About a connected page: it shows what the object *)
(* holds. The third needs the second, since a new segment is shown by      *)
(* pages without a translation, and both need the first, since an event    *)
(* reaches the pages of one object only.                                   *)
(***************************************************************************)
EXTENDS TranscriptHub, TLAPS

-----------------------------------------------------------------------------
(* The inductive invariant *)

ActiveIsTrue == \A e \in State : state[e].active = (state[e].sources # {})

SweepIsSet == sweeping = (current # 0 /\ state[current].sources # {})

HubOK == NobodyIsForgotten /\ ActiveIsTrue /\ SweepIsSet

NumbersAreGiven ==
  \A k \in Key : calls[k] > 0 \/ k \in translated => k[2] < state[k[1]].next

SameKey(j, k) == j[2] = k[2] /\ j[3] = k[3]

OneCall ==
  /\ \A k \in Key : calls[k] <= 1 /\ (calls[k] > 0 => <<k[2], k[3]>> \in inFlight)
  /\ \A j, k \in Key : calls[j] > 0 /\ calls[k] > 0 /\ SameKey(j, k) => j = k

(* The page pg of p shows the object e, which is st, and its translations.  *)
Shows(pg, p, e, st, trans) ==
  /\ pg.sourceActive = (st.sources # {})
  /\ \A n \in Buffered(st) :
       /\ pg.line[n].text # 0
       /\ <<e, n, LanguageOf[p]>> \in trans => pg.line[n].translation = e

Shown == \A e \in State : \A p \in state[e].live : Shows(page[p], p, e, state[e], translated)

IInv == TypeOK /\ HubOK /\ NumbersAreGiven /\ OneCall /\ Shown

LEMMA ShownIsBoth == Shown <=> PagesFollow /\ TranslationsShown
<1>1. Shown => PagesFollow
  BY Zenon DEF Shown, Shows, PagesFollow
<1>2. Shown => TranslationsShown
  BY Zenon DEF Shown, Shows, TranslationsShown
<1>3. ASSUME PagesFollow, TranslationsShown, NEW e \in State, NEW p \in state[e].live
      PROVE  Shows(page[p], p, e, state[e], translated)
  <2>1. /\ page[p].sourceActive = (state[e].sources # {})
        /\ \A n \in Buffered(state[e]) : page[p].line[n].text # 0
    BY <1>3, Zenon DEF PagesFollow
  <2>2. \A n \in Buffered(state[e]) :
          <<e, n, LanguageOf[p]>> \in translated => page[p].line[n].translation = e
    BY <1>3, Zenon DEF TranslationsShown
  <2>3. QED
    BY <2>1, <2>2, Zenon DEF Shows
<1>4. QED
  BY <1>1, <1>2, <1>3, Zenon DEF Shown

-----------------------------------------------------------------------------
(* The constants *)

LEMMA Bounds ==
  /\ MaxSeq \in Nat /\ MaxState \in Nat /\ ReplaySize \in Nat /\ ReplaySize >= 1
  /\ 0 \in 0 .. MaxState /\ State \subseteq Nat /\ 0 \notin State /\ Segment \subseteq Nat
  /\ \A p \in Page : LanguageOf[p] \in Language
BY BoundsArePositive, LanguageOfPages DEF State, Segment

LEMMA NewStateOK ==
  NewState \in ProgramState /\ InOrder(NewState) /\ IsIdle(NewState) /\ Buffered(NewState) = {}
BY Bounds DEF NewState, ProgramState, InOrder, IsIdle, Subscribers, Buffered, Segment

LEMMA NoLineOK == NoLine \in Line /\ NoLine.text = 0
BY Bounds DEF NoLine, Line

-----------------------------------------------------------------------------
(* The functions of one object *)

(* What a call that touches or removes a source leaves alone.               *)
SameRest(st, old) == st.live = old.live /\ st.dead = old.dead /\ st.next = old.next

Sound(st) == st \in ProgramState /\ InOrder(st) /\ st.active = (st.sources # {})

LEMMA RefreshedIsSound ==
  ASSUME NEW st \in ProgramState, InOrder(st)
  PROVE  Sound(Refreshed(st)) /\ SameRest(Refreshed(st), st)
<1>1. /\ Refreshed(st) \in ProgramState /\ SameRest(Refreshed(st), st)
      /\ Refreshed(st).sources = st.sources /\ Refreshed(st).ahead = st.ahead
      /\ Refreshed(st).active = (st.sources # {})
  BY DEF Refreshed, ProgramState, SameRest
<1>2. QED
  BY <1>1 DEF Sound, InOrder

(* touch and refreshActive put a console in the Map, behind all others, if  *)
(* it was not there.                                                       *)
LEMMA TouchedIsSound ==
  ASSUME NEW st \in ProgramState, InOrder(st), NEW c \in Console
  PROVE  /\ Sound(Refreshed(Touched(st, c)))
         /\ SameRest(Refreshed(Touched(st, c)), st)
         /\ c \in Touched(st, c).sources
<1> DEFINE t == Touched(st, c)
<1>1. t \in ProgramState /\ SameRest(t, st) /\ c \in t.sources
  BY DEF Touched, Appended, ProgramState, SameRest
<1>2. InOrder(t)
  <2>1. CASE c \in st.sources
    BY <2>1 DEF Touched
  <2>2. CASE c \notin st.sources
    <3>1. /\ t.sources = st.sources \cup {c}
          /\ t.ahead = st.ahead \cup (st.sources \X {c})
      BY <2>2 DEF Touched, Appended, ProgramState
    <3>2. t.ahead \subseteq t.sources \X t.sources
      BY <3>1 DEF InOrder
    <3>3. \A x, y \in t.sources :
             <<x, y>> \in t.ahead <=> <<x, y>> \in st.ahead \/ (x \in st.sources /\ y = c)
      BY <3>1
    <3>4. \A x : <<x, c>> \notin st.ahead /\ <<c, x>> \notin st.ahead
      BY <2>2 DEF InOrder
    <3>5. QED
      BY <2>2, <3>1, <3>2, <3>3, <3>4 DEF InOrder
  <2>3. QED
    BY <2>1, <2>2
<1>3. QED
  BY <1>1, <1>2, RefreshedIsSound DEF SameRest

(* removeSource and refreshActive take consoles out of the Map.             *)
LEMMA WithoutIsSound ==
  ASSUME NEW st \in ProgramState, InOrder(st), NEW cs
  PROVE  /\ Sound(Refreshed(Without(st, cs)))
         /\ SameRest(Refreshed(Without(st, cs)), st)
<1> DEFINE t == Without(st, cs)
<1>1. /\ t \in ProgramState /\ SameRest(t, st)
      /\ t.sources = st.sources \ cs
      /\ t.ahead = {q \in st.ahead : q[1] \notin cs /\ q[2] \notin cs}
  BY DEF Without, ProgramState, SameRest
<1>2. \A x, y \in t.sources : <<x, y>> \in t.ahead <=> <<x, y>> \in st.ahead
  BY <1>1
<1>3. t.ahead \subseteq t.sources \X t.sources
  BY <1>1 DEF InOrder
<1>4. InOrder(t)
  BY <1>1, <1>2, <1>3 DEF InOrder
<1>5. QED
  BY <1>1, <1>4, RefreshedIsSound DEF SameRest

-----------------------------------------------------------------------------
(* One object of the hub changes *)

(* The object a call works on is that of the map, or new.                   *)
Works(e) == e \in State /\ (e = current \/ (current = 0 /\ state[e] = NewState))

LEMMA OpenWorks ==
  ASSUME TypeOK, NEW e \in State, Open(e)
  PROVE  Works(e)
BY Bounds DEF TypeOK, Open, Unused, Works

(* Whoever else is idle stays so.                                           *)
LEMMA KeepsHub ==
  ASSUME IInv, NEW e, Works(e), NEW st, Sound(st), Keeps(e, st), UpdateSweep(st)
  PROVE  /\ state' \in [State -> ProgramState] /\ \A f \in State : InOrder(state[f])'
         /\ current' \in 0 .. MaxState /\ sweeping' \in BOOLEAN
         /\ HubOK'
         /\ state'[e] = st /\ \A f \in State \ {e} : state'[f] = state[f] /\ IsIdle(state[f])
<1>1. /\ e \in State /\ e # 0 /\ st \in ProgramState /\ InOrder(st) /\ st.active = (st.sources # {})
      /\ state \in [State -> ProgramState] /\ \A f \in State : InOrder(state[f])
  BY Bounds DEF IInv, TypeOK, Works, Sound
<1>2. state'[e] = st /\ \A f \in State \ {e} : state'[f] = state[f]
  BY <1>1 DEF Keeps
<1>3. \A f \in State \ {e} : IsIdle(state[f])
  BY Bounds DEF IInv, HubOK, NobodyIsForgotten, Works
<1>4. current' = IF IsIdle(st) THEN 0 ELSE e
  BY DEF Keeps
<1>5. state' \in [State -> ProgramState] /\ \A f \in State : InOrder(state'[f])
  BY <1>1, <1>2 DEF Keeps
<1>6. current' \in 0 .. MaxState /\ sweeping' \in BOOLEAN
  BY <1>1, <1>4, Bounds DEF State, UpdateSweep
<1>7. NobodyIsForgotten'
  BY <1>1, <1>2, <1>3, <1>4 DEF NobodyIsForgotten
<1>8. ActiveIsTrue'
  BY <1>1, <1>2 DEF IInv, HubOK, ActiveIsTrue
<1>9. SweepIsSet'
  BY <1>1, <1>2, <1>4 DEF SweepIsSet, UpdateSweep, IsIdle
<1>10. QED
  BY <1>2, <1>3, <1>5, <1>6, <1>7, <1>8, <1>9 DEF HubOK

-----------------------------------------------------------------------------
(* Pages *)

LEMMA PageLines ==
  ASSUME TypeOK, NEW p \in Page, NEW n \in Segment
  PROVE  page[p] \in PageState /\ page[p].line \in [Segment -> Line] /\ page[p].line[n] \in Line
BY DEF TypeOK, PageState

(* What the events do with a line.                                          *)
LEMMA LineChanges ==
  ASSUME NEW ln \in Line, NEW e \in State
  PROVE  /\ AfterSegment(ln, e) \in Line /\ AfterSegment(ln, e).text # 0
         /\ ln.text # 0 => AfterSegment(ln, e) = ln
         /\ AfterTranslation(ln, e) \in Line /\ AfterError(ln) \in Line
         /\ AfterTranslation(ln, e).text = ln.text /\ AfterError(ln).text = ln.text
         /\ ln.text # 0 => AfterTranslation(ln, e).translation = e
         /\ AfterError(ln).translation = ln.translation
<1>1. e \in 0 .. MaxState /\ e # 0
  BY Bounds DEF State
<1>2. AfterSegment(ln, e) \in Line /\ AfterSegment(ln, e).text # 0
  BY <1>1 DEF AfterSegment, Line, NoLine
<1>3. ln.text # 0 => AfterSegment(ln, e) = ln
  BY DEF AfterSegment
<1>4. /\ AfterTranslation(ln, e) \in Line /\ AfterTranslation(ln, e).text = ln.text
      /\ ln.text # 0 => AfterTranslation(ln, e).translation = e
  BY <1>1 DEF AfterTranslation, Line
<1>5. /\ AfterError(ln) \in Line /\ AfterError(ln).text = ln.text
      /\ AfterError(ln).translation = ln.translation
  BY DEF AfterError, Line
<1>6. QED
  BY <1>2, <1>3, <1>4, <1>5

(* A call that keeps the subscribers, the numbers and the translations, and *)
(* tells the pages when active changes, keeps the invariant.                *)
LEMMA ToldKeeps ==
  ASSUME IInv, NEW e, Works(e), NEW st, Sound(st), SameRest(st, state[e]),
         Keeps(e, st), UpdateSweep(st), page' = ToldSource(state[e], st),
         silent' \in SUBSET Console, UNCHANGED translationVars,
         console' \in [Console -> ConsoleState], posts' \in SUBSET Post
  PROVE  IInv'
<1>1. /\ state' \in [State -> ProgramState] /\ \A f \in State : InOrder(state[f])'
      /\ current' \in 0 .. MaxState /\ sweeping' \in BOOLEAN /\ HubOK'
      /\ state'[e] = st /\ \A f \in State \ {e} : state'[f] = state[f] /\ IsIdle(state[f])
  BY KeepsHub
<1>2. e \in State /\ st \in ProgramState /\ st.active = (st.sources # {}) /\ state[e] \in ProgramState
  BY DEF Works, Sound, IInv, TypeOK
<1>3. \A f \in State : state'[f].next = state[f].next /\ state'[f].live = state[f].live
  BY <1>1, <1>2 DEF SameRest
<1>4. page' \in [Page -> PageState]
  <2>1. \A p \in Page : page'[p] \in PageState
    BY <1>2 DEF IInv, TypeOK, ToldSource, PageState, ProgramState
  <2>2. QED
    BY <2>1 DEF ToldSource
<1>5. TypeOK'
  BY <1>1, <1>4 DEF IInv, TypeOK, translationVars
<1>6. NumbersAreGiven' /\ OneCall'
  BY <1>3 DEF IInv, NumbersAreGiven, OneCall, translationVars, Key
<1>7. ASSUME NEW f \in State, NEW p \in state'[f].live
      PROVE  Shows(page'[p], p, f, state'[f], translated')
  <2>1. f = e /\ p \in Page /\ p \in st.live /\ p \in state[e].live
    BY <1>1, <1>2, <1>3, <1>7 DEF IsIdle, Subscribers, ProgramState
  <2>2. Shows(page[p], p, e, state[e], translated)
    BY <1>2, <2>1 DEF IInv, Shown
  <2>3. page'[p] = IF st.active # state[e].active THEN [page[p] EXCEPT !.sourceActive = st.active]
                   ELSE page[p]
    BY <2>1 DEF ToldSource
  <2>4. page[p] \in PageState
    BY <2>1 DEF IInv, TypeOK
  <2>5. page'[p].line = page[p].line /\ page'[p].sourceActive = (st.sources # {})
    BY <1>2, <2>2, <2>3, <2>4 DEF PageState, IInv, HubOK, ActiveIsTrue, Shows
  <2>6. Buffered(st) = Buffered(state[e])
    BY DEF Buffered, SameRest
  <2>7. QED
    BY <1>1, <2>1, <2>2, <2>5, <2>6 DEF Shows, translationVars
<1>8. QED
  BY <1>1, <1>5, <1>6, <1>7 DEF IInv, Shown

-----------------------------------------------------------------------------
(* What leaves the hub, the translations and the pages alone *)

LEMMA QuietKeeps ==
  ASSUME IInv, UNCHANGED <<state, current, sweeping, translationVars, page>>,
         silent' \in SUBSET Console,
         console' \in [Console -> ConsoleState], posts' \in SUBSET Post
  PROVE  IInv'
<1>1. TypeOK'
  BY DEF IInv, TypeOK, translationVars
<1>2. HubOK'
  BY DEF IInv, HubOK, NobodyIsForgotten, ActiveIsTrue, SweepIsSet
<1>3. NumbersAreGiven' /\ OneCall'
  BY DEF IInv, NumbersAreGiven, OneCall, translationVars
<1>4. Shown'
  BY DEF IInv, Shown, translationVars
<1>5. QED
  BY <1>1, <1>2, <1>3, <1>4 DEF IInv

LEMMA ConsoleKeeps ==
  ASSUME IInv, NEW c \in Console, ConsoleStep(c)
  PROVE  IInv'
<1>1. UNCHANGED <<state, current, silent, sweeping, translationVars, page>>
  BY DEF ConsoleStep, ConsoleStarts, ConsoleOpens, ConsoleReports, ConsoleStops, ConsoleSaysOff,
         ConsoleVanishes, hubVars
<1>2. console' \in [Console -> ConsoleState]
  BY DEF ConsoleStep, ConsoleStarts, ConsoleOpens, ConsoleReports, ConsoleStops, ConsoleSaysOff,
         ConsoleVanishes, IInv, TypeOK, ConsoleState
<1>3. posts' \in SUBSET Post
  BY DEF ConsoleStep, ConsoleStarts, ConsoleOpens, ConsoleReports, ConsoleStops, ConsoleSaysOff,
         ConsoleVanishes, Posted, IInv, TypeOK, Post
<1>4. QED
  BY <1>1, <1>2, <1>3, QuietKeeps DEF IInv, TypeOK

LEMMA FallsSilentKeeps ==
  ASSUME IInv, NEW c \in Console, FallsSilent(c)
  PROVE  IInv'
BY QuietKeeps DEF FallsSilent, consoleVars, IInv, TypeOK

LEMMA PostLostKeeps ==
  ASSUME IInv, NEW m, PostLost(m)
  PROVE  IInv'
BY QuietKeeps DEF PostLost, hubVars, IInv, TypeOK

-----------------------------------------------------------------------------
(* Sources come and go *)

LEMMA ReceivedTypes ==
  ASSUME IInv, NEW c, NEW kind, Received(c, kind)
  PROVE  console' \in [Console -> ConsoleState] /\ posts' \in SUBSET Post
BY DEF Received, IInv, TypeOK

LEMMA SetActiveKeeps ==
  ASSUME IInv, NEW c \in Console, SetActive(c)
  PROVE  IInv'
<1>1. /\ console' \in [Console -> ConsoleState] /\ posts' \in SUBSET Post
      /\ silent' \in SUBSET Console /\ UNCHANGED translationVars
  BY ReceivedTypes DEF SetActive, IInv, TypeOK
<1> DEFINE st(e) == Refreshed(Touched(state[e], c))
<1>2. PICK e \in State : Open(e) /\ Keeps(e, st(e)) /\ UpdateSweep(st(e))
                         /\ page' = ToldSource(state[e], st(e))
  BY DEF SetActive
<1>3. Works(e)
  BY <1>2, OpenWorks DEF IInv
<1>4. Sound(st(e)) /\ SameRest(st(e), state[e])
  BY TouchedIsSound DEF IInv, TypeOK
<1> HIDE DEF st
<1>5. QED
  BY <1>1, <1>2, <1>3, <1>4, ToldKeeps

LEMMA SetInactiveKeeps ==
  ASSUME IInv, NEW c \in Console, SetInactive(c)
  PROVE  IInv'
<1>1. /\ console' \in [Console -> ConsoleState] /\ posts' \in SUBSET Post
      /\ UNCHANGED translationVars
  BY ReceivedTypes DEF SetInactive
<1>2. CASE current = 0
  <2>1. UNCHANGED <<state, current, silent, sweeping, page>>
    BY <1>2 DEF SetInactive, hubVars
  <2>2. QED
    BY <1>1, <2>1, QuietKeeps DEF IInv, TypeOK
<1>3. CASE current # 0
  <2> DEFINE st == Refreshed(Without(state[current], {c}))
  <2>1. /\ Keeps(current, st) /\ UpdateSweep(st) /\ silent' = silent \ {c}
        /\ page' = ToldSource(state[current], st)
    BY <1>3 DEF SetInactive
  <2>2. current \in State
    BY <1>3, Bounds DEF IInv, TypeOK, State
  <2>3. Sound(st) /\ SameRest(st, state[current])
    BY <2>2, WithoutIsSound DEF IInv, TypeOK
  <2>4. Works(current) /\ silent' \in SUBSET Console
    BY <2>1, <2>2 DEF Works, IInv, TypeOK
  <2> HIDE DEF st
  <2>5. QED
    BY <1>1, <2>1, <2>3, <2>4, ToldKeeps
<1>4. QED
  BY <1>2, <1>3

LEMMA ExpireStaleKeeps ==
  ASSUME IInv, ExpireStale
  PROVE  IInv'
<1> DEFINE st == Refreshed(Without(state[current], silent))
<1>1. /\ Keeps(current, st) /\ UpdateSweep(st) /\ silent' = {}
      /\ page' = ToldSource(state[current], st)
      /\ UNCHANGED translationVars /\ UNCHANGED <<console, posts>>
  BY DEF ExpireStale, consoleVars
<1>2. current # 0
  BY DEF ExpireStale, IInv, HubOK, SweepIsSet
<1>3. current \in State
  BY <1>2, Bounds DEF IInv, TypeOK, State
<1>4. Sound(st) /\ SameRest(st, state[current])
  BY <1>3, WithoutIsSound DEF IInv, TypeOK
<1>5. Works(current) /\ silent' \in SUBSET Console
      /\ console' \in [Console -> ConsoleState] /\ posts' \in SUBSET Post
  BY <1>1, <1>3 DEF Works, IInv, TypeOK
<1> HIDE DEF st
<1>6. QED
  BY <1>1, <1>4, <1>5, ToldKeeps

-----------------------------------------------------------------------------
(* Translations *)

(* Calls are made only for keys that are not in flight.                     *)
LEMMA AsksKeepOneCall ==
  ASSUME IInv, NEW e \in State, NEW ns \in SUBSET Segment, NEW ls \in SUBSET Language,
         Translate(Asks(e, ns, ls))
  PROVE  /\ calls' \in [Key -> Nat] /\ inFlight' \in SUBSET (Segment \X Language)
         /\ translated' = translated
         /\ OneCall'
         /\ \A k \in Key : calls'[k] # calls[k] =>
              /\ k[1] = e /\ k[2] \in ns /\ k[3] \in ls
              /\ \A j \in Key : SameKey(j, k) => calls[j] = 0
<1> DEFINE asks == Asks(e, ns, ls)
<1>1. /\ calls' = [k \in Key |-> IF k \in asks THEN calls[k] + 1 ELSE calls[k]]
      /\ inFlight' = inFlight \cup {<<k[2], k[3]>> : k \in asks}
      /\ translated' = translated
  BY DEF Translate
<1>2. \A k \in asks : /\ k \in Key /\ k[1] = e /\ k[2] \in ns /\ k[3] \in ls
                      /\ <<k[2], k[3]>> \notin inFlight
  BY DEF Asks, Key
<1>3. calls \in [Key -> Nat] /\ inFlight \in SUBSET (Segment \X Language) /\ OneCall
  BY DEF IInv, TypeOK
<1> HIDE DEF asks
<1>4. ASSUME NEW k \in asks, NEW j \in Key, SameKey(j, k)
      PROVE  calls[j] = 0
  <2>1. <<j[2], j[3]>> \notin inFlight
    BY <1>2, <1>4 DEF SameKey
  <2>2. calls[j] \in Nat /\ ~(calls[j] > 0)
    BY <1>3, <2>1 DEF OneCall
  <2>3. QED
    BY <2>2
<1>5. ASSUME NEW j \in asks, NEW k \in asks, SameKey(j, k)
      PROVE  j = k
  <2>1. j \in Key /\ k \in Key /\ j[1] = e /\ k[1] = e
    BY <1>2, <1>5
  <2>2. j = <<j[1], j[2], j[3]>> /\ k = <<k[1], k[2], k[3]>>
    BY <2>1 DEF Key
  <2>3. QED
    BY <1>5, <2>1, <2>2, Zenon DEF SameKey
<1>6. calls' \in [Key -> Nat] /\ inFlight' \in SUBSET (Segment \X Language)
  BY <1>1, <1>2, <1>3 DEF Key
<1>7. \A k \in Key : calls'[k] <= 1 /\ (calls'[k] > 0 => <<k[2], k[3]>> \in inFlight')
  <2>1. SUFFICES ASSUME NEW k \in Key
                 PROVE  calls'[k] <= 1 /\ (calls'[k] > 0 => <<k[2], k[3]>> \in inFlight')
    OBVIOUS
  <2>2. CASE k \in asks
    BY <1>1, <1>4, <2>2 DEF SameKey
  <2>3. CASE k \notin asks
    BY <1>1, <1>3, <2>3 DEF OneCall
  <2>4. QED
    BY <2>2, <2>3
<1>8. ASSUME NEW j \in Key, NEW k \in Key, calls'[j] > 0, calls'[k] > 0, SameKey(j, k)
      PROVE  j = k
  <2>1. CASE j \in asks /\ k \in asks
    BY <1>5, <1>8, <2>1
  <2>2. CASE j \notin asks /\ k \notin asks
    BY <1>1, <1>3, <1>8, <2>2 DEF OneCall
  <2>3. CASE j \in asks /\ k \notin asks
    BY <1>1, <1>3, <1>4, <1>8, <2>3 DEF SameKey
  <2>4. CASE j \notin asks /\ k \in asks
    BY <1>1, <1>3, <1>4, <1>8, <2>4
  <2>5. QED
    BY <2>1, <2>2, <2>3, <2>4
<1>9. OneCall'
  BY <1>7, <1>8 DEF OneCall
<1>10. \A k \in Key : calls'[k] # calls[k] => k \in asks
  BY <1>1
<1>11. QED
  BY <1>1, <1>2, <1>4, <1>6, <1>9, <1>10

(* What an answer leaves: no call with its key.                             *)
LEMMA AnsweredKeeps ==
  ASSUME IInv, NEW k \in Key, Answered(k)
  PROVE  /\ calls' \in [Key -> Nat] /\ inFlight' \in SUBSET (Segment \X Language)
         /\ OneCall'
         /\ \A j \in Key : calls'[j] > 0 => calls[j] > 0
<1>1. /\ calls \in [Key -> Nat] /\ inFlight \in SUBSET (Segment \X Language) /\ OneCall
      /\ calls[k] > 0 /\ calls' = [calls EXCEPT ![k] = @ - 1]
      /\ inFlight' = inFlight \ {<<k[2], k[3]>>}
  BY DEF Answered, IInv, TypeOK
<1>2. calls'[k] = 0 /\ \A j \in Key \ {k} : calls'[j] = calls[j]
  <2>1. calls[k] \in Nat /\ calls[k] <= 1
    BY <1>1 DEF OneCall
  <2>2. calls[k] = 1
    BY <1>1, <2>1
  <2>3. QED
    BY <1>1, <2>2
<1>3. calls' \in [Key -> Nat] /\ inFlight' \in SUBSET (Segment \X Language)
  BY <1>1, <1>2
<1>4. ASSUME NEW j \in Key, calls'[j] > 0
      PROVE  <<j[2], j[3]>> \in inFlight'
  <2>1. j # k /\ calls[j] > 0 /\ <<j[2], j[3]>> \in inFlight
    BY <1>1, <1>2, <1>4 DEF OneCall
  <2>2. ~SameKey(j, k)
    BY <1>1, <2>1 DEF OneCall
  <2>3. <<j[2], j[3]>> # <<k[2], k[3]>>
    BY <2>2 DEF SameKey
  <2>4. QED
    BY <1>1, <2>1, <2>3
<1>5. OneCall'
  <2>1. \A j \in Key : calls'[j] <= 1
    <3>1. \A j \in Key : calls[j] <= 1
      BY <1>1 DEF OneCall
    <3>2. QED
      BY <1>2, <3>1
  <2>2. ASSUME NEW i \in Key, NEW j \in Key, calls'[i] > 0, calls'[j] > 0, SameKey(i, j)
        PROVE  i = j
    BY <1>1, <1>2, <2>2 DEF OneCall
  <2>3. QED
    BY <1>4, <2>1, <2>2 DEF OneCall
<1>6. QED
  BY <1>2, <1>3, <1>5

(* An answer changes the lines of pages that follow the object, and takes   *)
(* no text and no other translation from them.                              *)
LEMMA TranslationArrivesKeeps ==
  ASSUME IInv, NEW k \in Key, TranslationArrives(k)
  PROVE  IInv'
<1> DEFINE e == k[1]
           n == k[2]
<1>1. e \in State /\ n \in Segment /\ k[3] \in Language /\ k = <<e, n, k[3]>>
  BY DEF Key
<1>2. /\ Answered(k) /\ translated' = translated \cup {k}
      /\ UNCHANGED <<state, current, silent, sweeping, console, posts>>
      /\ page' = [p \in Page |-> IF p \in Followers(e, k[3])
                                 THEN [page[p] EXCEPT !.line[n] = AfterTranslation(@, e)]
                                 ELSE page[p]]
  BY DEF TranslationArrives, hubVars, consoleVars
<1>3. ASSUME NEW p \in Page
      PROVE  /\ page'[p] \in PageState /\ page'[p].sourceActive = page[p].sourceActive
             /\ \A m \in Segment : page'[p].line[m] =
                  IF p \in Followers(e, k[3]) /\ m = n THEN AfterTranslation(page[p].line[m], e)
                  ELSE page[p].line[m]
  <2>1. page[p] \in PageState /\ page[p].line \in [Segment -> Line]
        /\ AfterTranslation(page[p].line[n], e) \in Line
    BY <1>1, PageLines, LineChanges DEF IInv
  <2>2. page'[p] = IF p \in Followers(e, k[3])
                   THEN [page[p] EXCEPT !.line[n] = AfterTranslation(@, e)] ELSE page[p]
    BY <1>2
  <2>3. QED
    BY <1>1, <2>1, <2>2 DEF PageState
<1>4. page' \in [Page -> PageState]
  BY <1>2, <1>3
<1>5. calls' \in [Key -> Nat] /\ inFlight' \in SUBSET (Segment \X Language) /\ OneCall'
      /\ \A j \in Key : calls'[j] > 0 => calls[j] > 0
  BY <1>2, AnsweredKeeps
<1>6. TypeOK'
  BY <1>2, <1>4, <1>5 DEF IInv, TypeOK
<1>7. HubOK'
  BY <1>2 DEF IInv, HubOK, NobodyIsForgotten, ActiveIsTrue, SweepIsSet
<1>8. calls[k] > 0
  BY <1>2 DEF Answered
<1>9. NumbersAreGiven'
  BY <1>2, <1>5, <1>8 DEF IInv, NumbersAreGiven
<1>10. ASSUME NEW f \in State, NEW p \in state'[f].live
       PROVE  Shows(page'[p], p, f, state'[f], translated')
  <2>1. state[f] \in ProgramState /\ p \in state[f].live /\ p \in Page
    BY <1>2, <1>10 DEF IInv, TypeOK, ProgramState
  <2>2. Shows(page[p], p, f, state[f], translated)
    BY <1>2, <1>10 DEF IInv, Shown
  <2>3. p \in Followers(e, k[3]) => e = f /\ LanguageOf[p] = k[3]
    BY <1>1, <2>1 DEF Followers, IInv, HubOK, NobodyIsForgotten, IsIdle, Subscribers
  <2>4. ASSUME NEW m \in Buffered(state[f])
        PROVE  /\ page'[p].line[m].text # 0
               /\ <<f, m, LanguageOf[p]>> \in translated' => page'[p].line[m].translation = f
    <3>1. m \in Segment /\ page[p].line[m] \in Line /\ page[p].line[m].text # 0
          /\ (<<f, m, LanguageOf[p]>> \in translated => page[p].line[m].translation = f)
      BY <2>1, <2>2, <2>4, PageLines DEF Buffered, Shows, IInv
    <3>2. CASE p \in Followers(e, k[3]) /\ m = n
      <4>1. page'[p].line[m] = AfterTranslation(page[p].line[m], e) /\ e = f
        BY <1>3, <2>1, <2>3, <3>1, <3>2
      <4>2. /\ AfterTranslation(page[p].line[m], e).text = page[p].line[m].text
            /\ AfterTranslation(page[p].line[m], e).translation = e
        BY <1>1, <3>1, LineChanges
      <4>3. QED
        BY <3>1, <4>1, <4>2
    <3>3. CASE ~(p \in Followers(e, k[3]) /\ m = n)
      <4>1. page'[p].line[m] = page[p].line[m]
        BY <1>3, <2>1, <3>1, <3>3
      <4>2. <<f, m, LanguageOf[p]>> # k
        <5>1. SUFFICES ASSUME <<f, m, LanguageOf[p]>> = k PROVE FALSE
          OBVIOUS
        <5>2. f = e /\ m = n /\ LanguageOf[p] = k[3]
          BY <5>1
        <5>3. QED
          BY <2>1, <3>3, <5>2 DEF Followers
      <4>3. QED
        BY <1>2, <3>1, <4>1, <4>2
    <3>4. QED
      BY <3>2, <3>3
  <2>5. QED
    BY <1>2, <1>3, <2>1, <2>2, <2>4 DEF Shows
<1>11. QED
  BY <1>6, <1>7, <1>5, <1>9, <1>10 DEF IInv, Shown

LEMMA TranslationFailsKeeps ==
  ASSUME IInv, NEW k \in Key, TranslationFails(k)
  PROVE  IInv'
<1> DEFINE e == k[1]
           n == k[2]
<1>1. e \in State /\ n \in Segment
  BY DEF Key
<1>2. /\ Answered(k) /\ UNCHANGED <<state, current, silent, sweeping, console, posts, translated>>
      /\ page' = [p \in Page |-> IF p \in Followers(e, k[3])
                                 THEN [page[p] EXCEPT !.line[n] = AfterError(@)]
                                 ELSE page[p]]
  BY DEF TranslationFails, hubVars, consoleVars
<1>3. ASSUME NEW p \in Page
      PROVE  /\ page'[p] \in PageState /\ page'[p].sourceActive = page[p].sourceActive
             /\ \A m \in Segment : /\ page'[p].line[m].text = page[p].line[m].text
                                   /\ page'[p].line[m].translation = page[p].line[m].translation
  <2>1. /\ page[p] \in PageState /\ page[p].line \in [Segment -> Line]
        /\ AfterError(page[p].line[n]) \in Line
        /\ AfterError(page[p].line[n]).text = page[p].line[n].text
        /\ AfterError(page[p].line[n]).translation = page[p].line[n].translation
    BY <1>1, PageLines, LineChanges DEF IInv
  <2>2. page'[p] = IF p \in Followers(e, k[3])
                   THEN [page[p] EXCEPT !.line[n] = AfterError(@)] ELSE page[p]
    BY <1>2
  <2>3. QED
    BY <1>1, <2>1, <2>2 DEF PageState
<1>4. page' \in [Page -> PageState]
  BY <1>2, <1>3
<1>5. calls' \in [Key -> Nat] /\ inFlight' \in SUBSET (Segment \X Language) /\ OneCall'
      /\ \A j \in Key : calls'[j] > 0 => calls[j] > 0
  BY <1>2, AnsweredKeeps
<1>6. TypeOK'
  BY <1>2, <1>4, <1>5 DEF IInv, TypeOK
<1>7. HubOK'
  BY <1>2 DEF IInv, HubOK, NobodyIsForgotten, ActiveIsTrue, SweepIsSet
<1>8. NumbersAreGiven'
  BY <1>2, <1>5 DEF IInv, NumbersAreGiven
<1>9. ASSUME NEW f \in State, NEW p \in state'[f].live
      PROVE  Shows(page'[p], p, f, state'[f], translated')
  <2>1. p \in Page /\ Shows(page[p], p, f, state[f], translated)
    BY <1>2, <1>9 DEF IInv, Shown, TypeOK, ProgramState
  <2>2. Buffered(state[f]) \subseteq Segment
    BY DEF Buffered
  <2>3. QED
    BY <1>2, <1>3, <2>1, <2>2 DEF Shows
<1>10. QED
  BY <1>5, <1>6, <1>7, <1>8, <1>9 DEF IInv, Shown

-----------------------------------------------------------------------------
(* A segment is published *)

(* The primary's segment is shown by every page that is connected, before   *)
(* there is a translation of it, and the buffer loses only old ones.        *)
LEMMA StoredKeeps ==
  ASSUME IInv, NEW e, Works(e), NEW st, Sound(st), SameRest(st, state[e]), st.next <= MaxSeq,
         Keeps(e, [st EXCEPT !.next = @ + 1]), UpdateSweep(st),
         page' = ToldSegment(ToldSource(state[e], st), st, e, st.next),
         Translate(Asks(e, {st.next}, {LanguageOf[p] : p \in Subscribers(st)})),
         silent' \in SUBSET Console,
         console' \in [Console -> ConsoleState], posts' \in SUBSET Post
  PROVE  IInv'
<1> DEFINE stored == [st EXCEPT !.next = @ + 1]
           n == st.next
           ls == {LanguageOf[p] : p \in Subscribers(st)}
<1>1. /\ e \in State /\ st \in ProgramState /\ st.active = (st.sources # {})
      /\ state[e] \in ProgramState /\ n \in Segment /\ n = state[e].next
  BY Bounds DEF Works, Sound, SameRest, IInv, TypeOK, ProgramState, Segment
<1>2. /\ stored \in ProgramState /\ stored.sources = st.sources /\ stored.ahead = st.ahead
      /\ stored.active = st.active /\ stored.live = st.live /\ stored.dead = st.dead
      /\ stored.next = n + 1
  BY <1>1, Bounds DEF ProgramState, Segment
<1>3. Sound(stored) /\ UpdateSweep(stored)
  BY <1>2 DEF Sound, InOrder, UpdateSweep
<1> HIDE DEF stored
<1>4. /\ state' \in [State -> ProgramState] /\ \A f \in State : InOrder(state[f])'
      /\ current' \in 0 .. MaxState /\ sweeping' \in BOOLEAN /\ HubOK'
      /\ state'[e] = stored /\ \A f \in State \ {e} : state'[f] = state[f] /\ IsIdle(state[f])
  BY <1>3, KeepsHub DEF stored
<1>5. {n} \in SUBSET Segment /\ ls \in SUBSET Language
  BY <1>1, Bounds DEF Subscribers, ProgramState
<1>6. /\ calls' \in [Key -> Nat] /\ inFlight' \in SUBSET (Segment \X Language)
      /\ translated' = translated /\ OneCall'
      /\ \A k \in Key : calls'[k] # calls[k] => k[1] = e /\ k[2] \in {n}
  <2>1. Translate(Asks(e, {n}, ls))
    OBVIOUS
  <2> HIDE DEF ls, n
  <2>2. QED
    BY <1>1, <1>5, <2>1, AsksKeepOneCall
<1>7. \A p \in Page : page'[p] = IF p \in st.live
        THEN [ToldSource(state[e], st)[p] EXCEPT !.line[n] = AfterSegment(@, e)]
        ELSE page[p]
  BY <1>1 DEF ToldSegment, ToldSource
<1>8. ASSUME NEW p \in Page
      PROVE  /\ page'[p] \in PageState
             /\ p \in st.live =>
                  /\ page'[p].sourceActive = IF st.active # state[e].active THEN st.active
                                             ELSE page[p].sourceActive
                  /\ \A m \in Segment : page'[p].line[m] =
                       IF m = n THEN AfterSegment(page[p].line[n], e) ELSE page[p].line[m]
  <2> DEFINE told == ToldSource(state[e], st)[p]
  <2>1. page[p] \in PageState /\ page[p].line \in [Segment -> Line]
        /\ AfterSegment(page[p].line[n], e) \in Line
    BY <1>1, PageLines, LineChanges DEF IInv
  <2>2. told \in PageState /\ told.line = page[p].line
        /\ (p \in st.live => told.sourceActive = IF st.active # state[e].active THEN st.active
                                                 ELSE page[p].sourceActive)
    BY <1>1, <2>1 DEF ToldSource, PageState, ProgramState
  <2>3. page'[p] = IF p \in st.live THEN [told EXCEPT !.line[n] = AfterSegment(@, e)] ELSE page[p]
    BY <1>7
  <2> HIDE DEF told
  <2>4. QED
    BY <1>1, <2>1, <2>2, <2>3 DEF PageState
<1>9. page' \in [Page -> PageState]
  BY <1>8 DEF ToldSegment
<1>10. TypeOK'
  BY <1>4, <1>6, <1>9 DEF IInv, TypeOK
<1>11. NumbersAreGiven'
  <2>1. SUFFICES ASSUME NEW k \in Key, calls'[k] > 0 \/ k \in translated'
                 PROVE  k[2] < state'[k[1]].next
    BY DEF NumbersAreGiven
  <2>2. CASE calls'[k] # calls[k]
    BY <1>1, <1>2, <1>4, <1>6, <2>2, Bounds DEF Segment
  <2>3. CASE calls'[k] = calls[k]
    <3>1. k[1] \in State /\ k[2] \in Segment /\ k[2] < state[k[1]].next
      BY <1>6, <2>1, <2>3 DEF IInv, NumbersAreGiven, Key
    <3>2. CASE k[1] = e
      BY <1>1, <1>2, <1>4, <3>1, <3>2, Bounds DEF Segment
    <3>3. CASE k[1] # e
      BY <1>4, <3>1, <3>3
    <3>4. QED
      BY <3>2, <3>3
  <2>4. QED
    BY <2>2, <2>3
<1>12. ASSUME NEW f \in State, NEW p \in state'[f].live
       PROVE  Shows(page'[p], p, f, state'[f], translated')
  <2>1. f = e /\ p \in Page /\ p \in st.live /\ p \in state[e].live
    BY <1>1, <1>2, <1>4, <1>12 DEF IsIdle, Subscribers, ProgramState, SameRest
  <2>2. Shows(page[p], p, e, state[e], translated)
    BY <1>1, <2>1 DEF IInv, Shown
  <2>3. page'[p].sourceActive = (stored.sources # {})
    BY <1>1, <1>2, <1>8, <2>1, <2>2 DEF Shows, IInv, HubOK, ActiveIsTrue
  <2>4. ASSUME NEW m \in Buffered(stored)
        PROVE  /\ page'[p].line[m].text # 0
               /\ <<e, m, LanguageOf[p]>> \in translated => page'[p].line[m].translation = e
    <3>1. CASE m = n
      <4>1. <<e, n, LanguageOf[p]>> \in Key /\ <<e, n, LanguageOf[p]>> \notin translated
        BY <1>1, <2>1, Bounds DEF Key, IInv, NumbersAreGiven, Segment
      <4>2. page'[p].line[m].text # 0
        <5>1. page[p].line[n] \in Line
          BY <1>1, <2>1, PageLines DEF IInv
        <5>2. page'[p].line[m] = AfterSegment(page[p].line[n], e)
          BY <1>1, <1>8, <2>1, <3>1
        <5>3. AfterSegment(page[p].line[n], e).text # 0
          BY <1>1, <5>1, LineChanges
        <5>4. QED
          BY <5>2, <5>3
      <4>3. QED
        BY <3>1, <4>1, <4>2
    <3>2. CASE m # n
      <4>1. m \in Buffered(state[e])
        BY <1>1, <1>2, <2>4, <3>2, Bounds DEF Buffered
      <4>2. page'[p].line[m] = page[p].line[m]
        BY <1>8, <2>1, <3>2, <4>1 DEF Buffered
      <4>3. QED
        BY <2>2, <4>1, <4>2 DEF Shows
    <3>3. QED
      BY <3>1, <3>2
  <2>5. QED
    BY <1>4, <1>6, <2>1, <2>3, <2>4 DEF Shows
<1>13. QED
  BY <1>4, <1>6, <1>10, <1>11, <1>12 DEF IInv, Shown

LEMMA PublishSegmentKeeps ==
  ASSUME IInv, NEW c \in Console, PublishSegment(c)
  PROVE  IInv'
<1> DEFINE st(e) == Refreshed(Touched(state[e], c))
<1>1. PICK e \in State :
        /\ Open(e) /\ UpdateSweep(st(e))
        /\ IF IsPrimary(st(e), c)
           THEN /\ st(e).next <= MaxSeq
                /\ Keeps(e, [st(e) EXCEPT !.next = @ + 1])
                /\ page' = ToldSegment(ToldSource(state[e], st(e)), st(e), e, st(e).next)
                /\ Translate(Asks(e, {st(e).next}, {LanguageOf[p] : p \in Subscribers(st(e))}))
           ELSE /\ Keeps(e, st(e))
                /\ page' = ToldSource(state[e], st(e))
                /\ UNCHANGED translationVars
  BY DEF PublishSegment
<1>2. /\ console' \in [Console -> ConsoleState] /\ posts' \in SUBSET Post
      /\ silent' \in SUBSET Console
  BY ReceivedTypes DEF PublishSegment, IInv, TypeOK
<1>3. Works(e)
  BY <1>1, OpenWorks DEF IInv
<1>4. Sound(st(e)) /\ SameRest(st(e), state[e])
  BY TouchedIsSound DEF IInv, TypeOK
<1> HIDE DEF st
<1>5. CASE IsPrimary(st(e), c)
  BY <1>1, <1>2, <1>3, <1>4, <1>5, StoredKeeps
<1>6. CASE ~IsPrimary(st(e), c)
  BY <1>1, <1>2, <1>3, <1>4, <1>6, ToldKeeps
<1>7. QED
  BY <1>5, <1>6

-----------------------------------------------------------------------------
(* Pages come and go *)

(* The page that joins is sent what the object holds; what it lacks of      *)
(* translations is of segments that have their number.                      *)
LEMMA SubscribeKeeps ==
  ASSUME IInv, NEW p \in Page, Subscribe(p)
  PROVE  IInv'
<1>1. PICK e \in State :
        /\ Open(e)
        /\ Keeps(e, [state[e] EXCEPT !.live = @ \cup {p}])
        /\ page' = [page EXCEPT ![p] = Replayed(e, p)]
        /\ LET missing == {n \in Buffered(state[e]) : <<e, n, LanguageOf[p]>> \notin translated}
           IN  Translate(Asks(e, missing, {LanguageOf[p]}))
  BY DEF Subscribe
<1> DEFINE st == [state[e] EXCEPT !.live = @ \cup {p}]
           missing == {n \in Buffered(state[e]) : <<e, n, LanguageOf[p]>> \notin translated}
<1>2. ~IsConnected(p) /\ UNCHANGED <<silent, sweeping, console, posts>>
  BY DEF Subscribe, consoleVars
<1>3. Works(e) /\ state[e] \in ProgramState /\ InOrder(state[e])
      /\ state[e].active = (state[e].sources # {})
  BY <1>1, OpenWorks DEF IInv, TypeOK, HubOK, ActiveIsTrue
<1>4. /\ st \in ProgramState /\ st.sources = state[e].sources /\ st.ahead = state[e].ahead
      /\ st.active = state[e].active /\ st.next = state[e].next
      /\ st.live = state[e].live \cup {p}
  BY <1>3 DEF ProgramState
<1> HIDE DEF st
<1>5. Sound(st)
  BY <1>3, <1>4 DEF Sound, InOrder
<1>6. UpdateSweep(st)
  <2>1. CASE current = e
    BY <1>2, <1>4, <2>1, Bounds DEF UpdateSweep, IInv, HubOK, SweepIsSet
  <2>2. CASE current = 0 /\ state[e] = NewState
    BY <1>2, <1>4, <2>2 DEF UpdateSweep, IInv, HubOK, SweepIsSet, NewState
  <2>3. QED
    BY <1>3, <2>1, <2>2 DEF Works
<1>7. /\ state' \in [State -> ProgramState] /\ \A f \in State : InOrder(state[f])'
      /\ current' \in 0 .. MaxState /\ sweeping' \in BOOLEAN /\ HubOK'
      /\ state'[e] = st /\ \A f \in State \ {e} : state'[f] = state[f] /\ IsIdle(state[f])
  BY <1>1, <1>3, <1>5, <1>6, KeepsHub DEF st
<1> DEFINE wanted == {LanguageOf[p]}
<1>8. missing \in SUBSET Segment /\ wanted \in SUBSET Language
      /\ Translate(Asks(e, missing, wanted))
  BY <1>1, Bounds DEF Buffered
<1>9. \A n \in missing : n < state[e].next
  BY DEF Buffered
<1> HIDE DEF missing, wanted
<1>10. /\ calls' \in [Key -> Nat] /\ inFlight' \in SUBSET (Segment \X Language)
       /\ translated' = translated /\ OneCall'
       /\ \A k \in Key : calls'[k] # calls[k] => k[1] = e /\ k[2] \in missing
  BY <1>8, AsksKeepOneCall
<1>11. /\ Replayed(e, p) \in PageState /\ Replayed(e, p).sourceActive = state[e].active
       /\ \A n \in Buffered(state[e]) :
            /\ Replayed(e, p).line[n].text # 0
            /\ <<e, n, LanguageOf[p]>> \in translated => Replayed(e, p).line[n].translation = e
  <2> DEFINE replay(n) ==
        IF n \notin Buffered(state[e]) THEN page[p].line[n]
        ELSE IF <<e, n, LanguageOf[p]>> \in translated
             THEN AfterTranslation(AfterSegment(page[p].line[n], e), e)
             ELSE AfterSegment(page[p].line[n], e)
  <2>1. ASSUME NEW n \in Segment
        PROVE  /\ replay(n) \in Line
               /\ n \in Buffered(state[e]) =>
                    /\ replay(n).text # 0
                    /\ <<e, n, LanguageOf[p]>> \in translated => replay(n).translation = e
    <3>1. page[p].line[n] \in Line
      BY <2>1, PageLines DEF IInv
    <3>2. AfterSegment(page[p].line[n], e) \in Line /\ AfterSegment(page[p].line[n], e).text # 0
      BY <3>1, LineChanges
    <3>3. /\ AfterTranslation(AfterSegment(page[p].line[n], e), e) \in Line
          /\ AfterTranslation(AfterSegment(page[p].line[n], e), e).text # 0
          /\ AfterTranslation(AfterSegment(page[p].line[n], e), e).translation = e
      BY <3>2, LineChanges
    <3>4. QED
      BY <3>1, <3>2, <3>3
  <2>2. page[p] \in PageState
    BY DEF IInv, TypeOK
  <2>3. /\ Replayed(e, p).sourceActive = state[e].active
        /\ Replayed(e, p).line = [n \in Segment |-> replay(n)]
        /\ Replayed(e, p) \in [sourceActive: {state[e].active}, line: {[n \in Segment |-> replay(n)]}]
    BY <2>2 DEF Replayed, PageState
  <2> HIDE DEF replay
  <2>4. \A n \in Segment : Replayed(e, p).line[n] = replay(n)
    BY <2>3
  <2>5. [n \in Segment |-> replay(n)] \in [Segment -> Line] /\ state[e].active \in BOOLEAN
    BY <1>3, <2>1 DEF ProgramState
  <2>6. Replayed(e, p) \in PageState
    BY <2>3, <2>5 DEF PageState
  <2>7. QED
    BY <2>1, <2>3, <2>4, <2>6 DEF Buffered
<1>12. page' \in [Page -> PageState]
  BY <1>1, <1>11 DEF IInv, TypeOK
<1>13. TypeOK'
  BY <1>2, <1>7, <1>10, <1>12 DEF IInv, TypeOK
<1>14. \A f \in State : state'[f].next = state[f].next
  BY <1>4, <1>7
<1>15. NumbersAreGiven'
  BY <1>9, <1>10, <1>14 DEF IInv, NumbersAreGiven, Key
<1>16. ASSUME NEW f \in State, NEW q \in state'[f].live
       PROVE  Shows(page'[q], q, f, state'[f], translated')
  <2>1. f = e /\ q \in Page /\ q \in state[e].live \cup {p}
    BY <1>3, <1>4, <1>7, <1>16 DEF IsIdle, Subscribers, ProgramState
  <2>2. Buffered(st) = Buffered(state[e])
    BY <1>4 DEF Buffered
  <2>3. CASE q = p
    <3>1. page'[q] = Replayed(e, p)
      BY <1>1, <2>1, <2>3 DEF IInv, TypeOK
    <3>2. QED
      BY <1>3, <1>4, <1>7, <1>10, <1>11, <2>1, <2>2, <2>3, <3>1 DEF Shows
  <2>4. CASE q # p
    <3>1. page'[q] = page[q] /\ Shows(page[q], q, e, state[e], translated)
      BY <1>1, <1>3, <2>1, <2>4 DEF IInv, TypeOK, Shown, Works
    <3>2. QED
      BY <1>4, <1>7, <1>10, <2>1, <2>2, <3>1 DEF Shows
  <2>5. QED
    BY <2>3, <2>4
<1>17. QED
  BY <1>7, <1>10, <1>13, <1>15, <1>16 DEF IInv, Shown

(* A connection that ends, for the page or for the server, leaves the        *)
(* others theirs.                                                          *)
LEMMA FewerLiveKeeps ==
  ASSUME IInv, NEW e, Works(e), NEW st, Sound(st), Keeps(e, st),
         st.sources = state[e].sources, st.next = state[e].next, st.live \subseteq state[e].live,
         current = e, UNCHANGED <<silent, sweeping, translationVars, consoleVars, page>>
  PROVE  IInv'
<1>1. UpdateSweep(st)
  BY Bounds DEF UpdateSweep, IInv, HubOK, SweepIsSet, Works
<1>2. /\ state' \in [State -> ProgramState] /\ \A f \in State : InOrder(state[f])'
      /\ current' \in 0 .. MaxState /\ sweeping' \in BOOLEAN /\ HubOK'
      /\ state'[e] = st /\ \A f \in State \ {e} : state'[f] = state[f] /\ IsIdle(state[f])
  BY <1>1, KeepsHub
<1>3. TypeOK'
  BY <1>2 DEF IInv, TypeOK, translationVars, consoleVars
<1>4. \A f \in State : /\ state'[f].next = state[f].next /\ state'[f].sources = state[f].sources
                       /\ state'[f].live \subseteq state[f].live
  BY <1>2
<1>5. NumbersAreGiven' /\ OneCall'
  BY <1>4 DEF IInv, NumbersAreGiven, OneCall, translationVars, Key
<1>6. Shown'
  BY <1>4 DEF IInv, Shown, Shows, Buffered, translationVars
<1>7. QED
  BY <1>2, <1>3, <1>5, <1>6 DEF IInv

(* An object with a subscriber is in use, so it is that of the map.          *)
LEMMA SubscribedWorks ==
  ASSUME IInv, NEW e \in State, Subscribers(state[e]) # {}
  PROVE  /\ Works(e) /\ current = e
         /\ state[e] \in ProgramState /\ Sound(state[e])
BY DEF IInv, TypeOK, HubOK, NobodyIsForgotten, ActiveIsTrue, IsIdle, Works, Sound

LEMMA ConnectionBreaksKeeps ==
  ASSUME IInv, NEW p \in Page, ConnectionBreaks(p)
  PROVE  IInv'
<1>1. PICK e \in State :
        /\ p \in state[e].live
        /\ state' = [state EXCEPT ![e].live = @ \ {p}, ![e].dead = @ \cup {p}]
        /\ current' = current
        /\ UNCHANGED <<silent, sweeping, translationVars, consoleVars, page>>
  BY DEF ConnectionBreaks
<1>2. Works(e) /\ current = e /\ state[e] \in ProgramState /\ Sound(state[e])
  BY <1>1, SubscribedWorks DEF Subscribers
<1> DEFINE st == [state[e] EXCEPT !.live = @ \ {p}, !.dead = @ \cup {p}]
<1>3. /\ st \in ProgramState /\ st.sources = state[e].sources /\ st.ahead = state[e].ahead
      /\ st.active = state[e].active /\ st.next = state[e].next
      /\ st.live \subseteq state[e].live /\ p \in st.dead
  BY <1>2 DEF ProgramState
<1>4. state' = [state EXCEPT ![e] = st]
  BY <1>1, <1>2 DEF IInv, TypeOK
<1> HIDE DEF st
<1>5. Sound(st)
  BY <1>2, <1>3 DEF Sound, InOrder
<1>6. Keeps(e, st)
  BY <1>1, <1>2, <1>3, <1>4 DEF Keeps, IsIdle, Subscribers
<1>7. QED
  BY <1>1, <1>2, <1>3, <1>5, <1>6, FewerLiveKeeps

LEMMA UnsubscribeKeeps ==
  ASSUME IInv, NEW p \in Page, Unsubscribe(p)
  PROVE  IInv'
<1>1. PICK e \in State :
        /\ p \in state[e].dead
        /\ state' = [state EXCEPT ![e].dead = @ \ {p}]
        /\ current' = IF IsIdle(state'[e]) THEN 0 ELSE current
        /\ UNCHANGED <<silent, sweeping, translationVars, consoleVars, page>>
  BY DEF Unsubscribe
<1>2. Works(e) /\ current = e /\ state[e] \in ProgramState /\ Sound(state[e])
  BY <1>1, SubscribedWorks DEF Subscribers
<1> DEFINE st == [state[e] EXCEPT !.dead = @ \ {p}]
<1>3. /\ st \in ProgramState /\ st.sources = state[e].sources /\ st.ahead = state[e].ahead
      /\ st.active = state[e].active /\ st.next = state[e].next
      /\ st.live \subseteq state[e].live
  BY <1>2 DEF ProgramState
<1>4. state' = [state EXCEPT ![e] = st] /\ state'[e] = st
  BY <1>1 DEF IInv, TypeOK
<1> HIDE DEF st
<1>5. Sound(st)
  BY <1>2, <1>3 DEF Sound, InOrder
<1>6. Keeps(e, st)
  BY <1>1, <1>2, <1>4 DEF Keeps
<1>7. QED
  BY <1>1, <1>2, <1>3, <1>5, <1>6, FewerLiveKeeps

LEMMA PageResetKeeps ==
  ASSUME IInv, NEW p \in Page, PageReset(p)
  PROVE  IInv'
<1> DEFINE fresh == [sourceActive |-> FALSE, line |-> [n \in Segment |-> NoLine]]
<1>1. /\ page' = [page EXCEPT ![p] = fresh] /\ ~IsConnected(p)
      /\ UNCHANGED <<state, current, silent, sweeping, translationVars, console, posts>>
  BY DEF PageReset, hubVars, consoleVars
<1>2. fresh \in PageState
  BY NoLineOK DEF PageState
<1> HIDE DEF fresh
<1>3. TypeOK'
  BY <1>1, <1>2 DEF IInv, TypeOK, translationVars
<1>4. HubOK'
  BY <1>1 DEF IInv, HubOK, NobodyIsForgotten, ActiveIsTrue, SweepIsSet
<1>5. NumbersAreGiven' /\ OneCall'
  BY <1>1 DEF IInv, NumbersAreGiven, OneCall, translationVars
<1>6. ASSUME NEW f \in State, NEW q \in state'[f].live
      PROVE  Shows(page'[q], q, f, state'[f], translated')
  <2>1. q # p /\ q \in Page /\ q \in state[f].live
    BY <1>1, <1>6 DEF IsConnected, IInv, TypeOK, ProgramState
  <2>2. page'[q] = page[q]
    BY <1>1, <2>1 DEF IInv, TypeOK
  <2>3. QED
    BY <1>1, <1>6, <2>1, <2>2 DEF IInv, Shown, translationVars
<1>7. QED
  BY <1>3, <1>4, <1>5, <1>6 DEF IInv, Shown

(* The process forgets the object, the calls and who listens.               *)
LEMMA RestartKeeps ==
  ASSUME IInv, Restart
  PROVE  IInv'
<1>1. /\ state' = [e \in State |-> IF e = current THEN [NewState EXCEPT !.next = state[e].next]
                                   ELSE state[e]]
      /\ current' = 0 /\ silent' = {} /\ sweeping' = FALSE
      /\ calls' = [k \in Key |-> 0] /\ inFlight' = {}
      /\ UNCHANGED <<translated, console, posts, page>>
  BY DEF Restart, consoleVars
<1>2. ASSUME NEW e \in State
      PROVE  /\ state'[e] \in ProgramState /\ InOrder(state'[e]) /\ IsIdle(state'[e])
             /\ state'[e].next = state[e].next /\ state'[e].active = (state'[e].sources # {})
  <2>1. state[e] \in ProgramState /\ InOrder(state[e]) /\ state[e].active = (state[e].sources # {})
    BY DEF IInv, TypeOK, HubOK, ActiveIsTrue
  <2>2. CASE e = current
    <3> DEFINE st == [NewState EXCEPT !.next = state[e].next]
    <3>1. /\ st.sources = {} /\ st.ahead = {} /\ st.active = FALSE /\ st.live = {} /\ st.dead = {}
          /\ st.next = state[e].next /\ st \in ProgramState
      BY <2>1 DEF NewState, ProgramState
    <3>2. state'[e] = st
      BY <1>1, <2>2
    <3> HIDE DEF st
    <3>3. QED
      BY <3>1, <3>2 DEF InOrder, IsIdle, Subscribers
  <2>3. CASE e # current
    <3>1. state'[e] = state[e] /\ IsIdle(state[e])
      BY <1>1, <2>3 DEF IInv, HubOK, NobodyIsForgotten
    <3>2. QED
      BY <2>1, <3>1
  <2>4. QED
    BY <2>2, <2>3
<1>3. state' \in [State -> ProgramState]
  <2>1. state' = [e \in State |-> state'[e]]
    BY <1>1
  <2>2. QED
    BY <1>2, <2>1
<1>4. TypeOK'
  <2>1. calls' \in [Key -> Nat] /\ inFlight' \in SUBSET (Segment \X Language)
    BY <1>1
  <2>2. current' \in 0 .. MaxState /\ silent' \in SUBSET Console /\ sweeping' \in BOOLEAN
    <3>1. {} \in SUBSET Console /\ FALSE \in BOOLEAN
      OBVIOUS
    <3>2. QED
      BY <1>1, <3>1, Bounds
  <2>3. QED
    BY <1>1, <1>2, <1>3, <2>1, <2>2 DEF IInv, TypeOK
<1>5. HubOK'
  BY <1>1, <1>2 DEF HubOK, NobodyIsForgotten, ActiveIsTrue, SweepIsSet
<1>6. NumbersAreGiven' /\ OneCall'
  BY <1>1, <1>2 DEF IInv, NumbersAreGiven, OneCall, Key
<1>7. Shown'
  BY <1>2 DEF Shown, IsIdle, Subscribers
<1>8. QED
  BY <1>4, <1>5, <1>6, <1>7 DEF IInv

-----------------------------------------------------------------------------
(* The specification *)

LEMMA InitSound == Init => IInv
<1> SUFFICES ASSUME Init PROVE IInv
  OBVIOUS
<1>1. TypeOK
  <2>1. [sourceActive |-> FALSE, line |-> [n \in Segment |-> NoLine]] \in PageState
    BY NoLineOK DEF PageState
  <2>2. /\ state \in [State -> ProgramState] /\ \A e \in State : InOrder(state[e])
        /\ current \in 0 .. MaxState /\ silent \in SUBSET Console /\ sweeping \in BOOLEAN
    <3>1. state \in [State -> ProgramState] /\ \A e \in State : InOrder(state[e])
      BY NewStateOK DEF Init
    <3>2. current \in 0 .. MaxState /\ silent \in SUBSET Console /\ sweeping \in BOOLEAN
      BY Bounds DEF Init
    <3>3. QED
      BY <3>1, <3>2
  <2>3. /\ calls \in [Key -> Nat] /\ inFlight \in SUBSET (Segment \X Language)
        /\ translated \in SUBSET Key
    BY DEF Init
  <2>4. /\ console \in [Console -> ConsoleState] /\ posts \in SUBSET Post
        /\ page \in [Page -> PageState]
    BY <2>1 DEF Init, ConsoleState
  <2>5. QED
    BY <2>2, <2>3, <2>4 DEF TypeOK
<1>2. HubOK
  BY NewStateOK DEF Init, HubOK, NobodyIsForgotten, ActiveIsTrue, SweepIsSet, NewState
<1>3. NumbersAreGiven /\ OneCall
  BY DEF Init, NumbersAreGiven, OneCall
<1>4. Shown
  BY DEF Init, Shown, NewState
<1>5. QED
  BY <1>1, <1>2, <1>3, <1>4 DEF IInv

LEMMA NextSound == IInv /\ [Next]_vars => IInv'
<1> SUFFICES ASSUME IInv, [Next]_vars PROVE IInv'
  OBVIOUS
<1>1. CASE UNCHANGED vars
  BY <1>1, QuietKeeps DEF vars, hubVars, consoleVars, IInv, TypeOK
<1>2. ASSUME NEW c \in Console, ConsoleStep(c) PROVE IInv'
  BY <1>2, ConsoleKeeps
<1>3. ASSUME NEW c \in Console, HubStep(c) PROVE IInv'
  BY <1>3, SetActiveKeeps, SetInactiveKeeps, PublishSegmentKeeps, FallsSilentKeeps DEF HubStep
<1>4. ASSUME NEW p \in Page, PageStep(p) PROVE IInv'
  BY <1>4, SubscribeKeeps, ConnectionBreaksKeeps, UnsubscribeKeeps, PageResetKeeps DEF PageStep
<1>5. ASSUME NEW m \in posts, PostLost(m) PROVE IInv'
  BY <1>5, PostLostKeeps
<1>6. ASSUME NEW k \in Key, TranslationArrives(k) \/ TranslationFails(k) PROVE IInv'
  BY <1>6, TranslationArrivesKeeps, TranslationFailsKeeps
<1>7. CASE ExpireStale
  BY <1>7, ExpireStaleKeeps
<1>8. CASE Restart
  BY <1>8, RestartKeeps
<1>9. QED
  BY <1>1, <1>2, <1>3, <1>4, <1>5, <1>6, <1>7, <1>8 DEF Next

THEOREM HubInvariant == Spec => []IInv
BY InitSound, NextSound, PTL DEF Spec

(* Every variable keeps its type, and the Map of the consoles its order.     *)
THEOREM TypeCorrect == Spec => []TypeOK
<1>1. IInv => TypeOK
  BY DEF IInv
<1>2. QED
  BY <1>1, HubInvariant, PTL

(* dropIfIdle never forgets an object that somebody reports to or watches.   *)
THEOREM UsedIsKept == Spec => []NobodyIsForgotten
<1>1. IInv => NobodyIsForgotten
  BY DEF IInv, HubOK
<1>2. QED
  BY <1>1, HubInvariant, PTL

(* A connected page shows the source as it is and every buffered segment.    *)
THEOREM PagesAgree == Spec => []PagesFollow
<1>1. IInv => PagesFollow
  BY ShownIsBoth DEF IInv
<1>2. QED
  BY <1>1, HubInvariant, PTL

(* And every translation of its language that these segments have.           *)
THEOREM TranslationsReachAll == Spec => []TranslationsShown
<1>1. IInv => TranslationsShown
  BY ShownIsBoth DEF IInv
<1>2. QED
  BY <1>1, HubInvariant, PTL

-----------------------------------------------------------------------------
(* Nothing is translated twice *)

LEMMA OneMoreCall ==
  ASSUME IInv, [Next]_vars, NEW k \in Key, calls'[k] > calls[k]
  PROVE  k \notin translated /\ \A j \in Key : SameKey(j, k) => calls[j] = 0
<1>1. calls' # calls /\ calls \in [Key -> Nat] /\ calls[k] \in Nat /\ calls'[k] # calls[k]
  <2>1. calls \in [Key -> Nat] /\ calls[k] \in Nat
    BY DEF IInv, TypeOK
  <2>2. calls'[k] # calls[k]
    BY <2>1
  <2>3. QED
    BY <2>1, <2>2
<1>2. ASSUME NEW c \in Console, PublishSegment(c)
      PROVE  k \notin translated /\ \A j \in Key : SameKey(j, k) => calls[j] = 0
  <2> DEFINE touched(e) == Refreshed(Touched(state[e], c))
  <2>1. PICK e \in State :
          /\ touched(e).next <= MaxSeq
          /\ Translate(Asks(e, {touched(e).next}, {LanguageOf[p] : p \in Subscribers(touched(e))}))
    BY <1>1, <1>2 DEF PublishSegment, translationVars
  <2> DEFINE ns == {touched(e).next}
             ls == {LanguageOf[p] : p \in Subscribers(touched(e))}
  <2>2. /\ touched(e) \in ProgramState /\ touched(e).next = state[e].next
        /\ state[e] \in ProgramState
    BY TouchedIsSound DEF IInv, TypeOK, Sound, SameRest
  <2> HIDE DEF touched
  <2>3. /\ ns \in SUBSET Segment /\ ls \in SUBSET Language /\ Translate(Asks(e, ns, ls))
        /\ ns = {state[e].next}
    BY <2>1, <2>2, Bounds DEF Subscribers, ProgramState, Segment
  <2> HIDE DEF ns, ls
  <2>4. /\ k[1] = e /\ k[2] \in ns
        /\ \A j \in Key : SameKey(j, k) => calls[j] = 0
    BY <1>1, <2>3, AsksKeepOneCall
  <2>5. k[2] = state[k[1]].next /\ k[2] \in Segment
    BY <2>3, <2>4
  <2>6. ~(k[2] < state[k[1]].next)
    <3>1. k[2] \in Nat
      BY <2>5, Bounds
    <3>2. ~(k[2] < k[2])
      BY <3>1
    <3>3. QED
      BY <2>5, <3>2
  <2>7. QED
    BY <2>4, <2>6 DEF IInv, NumbersAreGiven
<1>3. ASSUME NEW p \in Page, Subscribe(p)
      PROVE  k \notin translated /\ \A j \in Key : SameKey(j, k) => calls[j] = 0
  <2> DEFINE missing(e) == {n \in Buffered(state[e]) : <<e, n, LanguageOf[p]>> \notin translated}
             wanted == {LanguageOf[p]}
  <2>1. PICK e \in State : Translate(Asks(e, missing(e), wanted))
    BY <1>3 DEF Subscribe
  <2>2. missing(e) \in SUBSET Segment /\ wanted \in SUBSET Language
    BY Bounds DEF Buffered
  <2> HIDE DEF missing, wanted
  <2>3. /\ k[1] = e /\ k[2] \in missing(e) /\ k[3] \in wanted
        /\ \A j \in Key : SameKey(j, k) => calls[j] = 0
    BY <1>1, <2>1, <2>2, AsksKeepOneCall
  <2>4. <<e, k[2], k[3]>> \notin translated
    BY <2>3 DEF missing, wanted
  <2>5. k = <<e, k[2], k[3]>>
    BY <2>3 DEF Key
  <2>6. QED
    BY <2>3, <2>4, <2>5
<1>4. ASSUME NEW j \in Key, Answered(j)
      PROVE  FALSE
  <2>1. calls' = [calls EXCEPT ![j] = @ - 1] /\ calls[j] \in Nat /\ calls[k] \in Nat
    BY <1>1, <1>4 DEF Answered
  <2>2. calls'[k] = calls[k] \/ calls'[k] = calls[k] - 1
    BY <1>1, <2>1
  <2>3. QED
    BY <2>1, <2>2
<1>5. CASE Restart
  BY <1>1, <1>5 DEF Restart
<1>6. CASE UNCHANGED calls
  BY <1>1, <1>6
<1>7. QED
  <2>1. CASE UNCHANGED vars
    BY <1>6, <2>1 DEF vars, translationVars
  <2>2. ASSUME NEW c \in Console, ConsoleStep(c) PROVE UNCHANGED calls
    BY <2>2 DEF ConsoleStep, ConsoleStarts, ConsoleOpens, ConsoleReports, ConsoleStops,
                ConsoleSaysOff, ConsoleVanishes, translationVars
  <2>3. ASSUME NEW c \in Console, SetActive(c) \/ SetInactive(c) \/ FallsSilent(c)
        PROVE  UNCHANGED calls
    BY <2>3 DEF SetActive, SetInactive, FallsSilent, translationVars
  <2>4. ASSUME NEW p \in Page, ConnectionBreaks(p) \/ Unsubscribe(p) \/ PageReset(p)
        PROVE  UNCHANGED calls
    BY <2>4 DEF ConnectionBreaks, Unsubscribe, PageReset, translationVars
  <2>5. ASSUME NEW m \in posts, PostLost(m) PROVE UNCHANGED calls
    BY <2>5 DEF PostLost, translationVars
  <2>6. ASSUME NEW j \in Key, TranslationArrives(j) \/ TranslationFails(j) PROVE Answered(j)
    BY <2>6 DEF TranslationArrives, TranslationFails
  <2>7. CASE ExpireStale
    BY <1>6, <2>7 DEF ExpireStale, translationVars
  <2>8. QED
    BY <1>2, <1>3, <1>4, <1>5, <1>6, <2>1, <2>2, <2>3, <2>4, <2>5, <2>6, <2>7
       DEF Next, HubStep, PageStep

(* A segment is sent to be translated into a language once, whoever joins.   *)
THEOREM NothingTwice == Spec => TranslatedOnce
<1> DEFINE Step == \A k \in Key : calls'[k] > calls[k] =>
                     /\ k \notin translated
                     /\ \A j \in Key : <<j[2], j[3]>> = <<k[2], k[3]>> => calls[j] = 0
<1>1. IInv /\ [Next]_vars => [Step]_vars
  <2>1. ASSUME IInv, [Next]_vars, NEW k \in Key, calls'[k] > calls[k],
               NEW j \in Key, <<j[2], j[3]>> = <<k[2], k[3]>>
        PROVE  calls[j] = 0
    <3>1. SameKey(j, k)
      BY <2>1 DEF SameKey
    <3>2. QED
      BY <2>1, <3>1, OneMoreCall
  <2>2. ASSUME IInv, [Next]_vars, NEW k \in Key, calls'[k] > calls[k]
        PROVE  k \notin translated
    BY <2>2, OneMoreCall
  <2>3. QED
    BY <2>1, <2>2
<1>2. QED
  BY <1>1, HubInvariant, PTL DEF Spec, TranslatedOnce

-----------------------------------------------------------------------------
(* The relaying console stays the relaying one *)

KeepsFirst(old, st) ==
  \A c \in Console : IsPrimary(old, c) /\ c \in st.sources => IsPrimary(st, c)

LEMMA SameSourcesKeepFirst ==
  ASSUME NEW old, NEW st, st.sources = old.sources, st.ahead = old.ahead
  PROVE  KeepsFirst(old, st)
BY DEF KeepsFirst, IsPrimary

LEMMA TouchedKeepsFirst ==
  ASSUME NEW old \in ProgramState, NEW d \in Console
  PROVE  KeepsFirst(old, Refreshed(Touched(old, d)))
<1> DEFINE st == Refreshed(Touched(old, d))
<1>1. \/ st.sources = old.sources /\ st.ahead = old.ahead
      \/ st.sources = old.sources \cup {d} /\ st.ahead = old.ahead \cup (old.sources \X {d})
  BY DEF Refreshed, Touched, Appended, ProgramState
<1> HIDE DEF st
<1>2. KeepsFirst(old, st)
  BY <1>1 DEF KeepsFirst, IsPrimary
<1>3. QED
  BY <1>2 DEF st

LEMMA WithoutKeepsFirst ==
  ASSUME NEW old \in ProgramState, NEW cs
  PROVE  KeepsFirst(old, Refreshed(Without(old, cs)))
<1> DEFINE st == Refreshed(Without(old, cs))
<1>1. /\ st.sources = old.sources \ cs
      /\ st.ahead = {q \in old.ahead : q[1] \notin cs /\ q[2] \notin cs}
  BY DEF Refreshed, Without, ProgramState
<1> HIDE DEF st
<1>2. KeepsFirst(old, st)
  BY <1>1 DEF KeepsFirst, IsPrimary
<1>3. QED
  BY <1>2 DEF st

LEMMA OneObjectKeepsFirst ==
  ASSUME IInv, NEW e \in State, NEW st, state' = [state EXCEPT ![e] = st],
         KeepsFirst(state[e], st), NEW f \in State
  PROVE  KeepsFirst(state[f], state'[f])
<1>1. state'[f] = IF f = e THEN st ELSE state[f]
  BY DEF IInv, TypeOK
<1>2. QED
  BY <1>1, SameSourcesKeepFirst

LEMMA StepKeepsFirst ==
  ASSUME IInv, [Next]_vars, NEW f \in State
  PROVE  KeepsFirst(state[f], state'[f])
<1>1. \A e \in State : state[e] \in ProgramState
  BY DEF IInv, TypeOK
<1>2. CASE UNCHANGED state
  BY <1>2, SameSourcesKeepFirst
<1>3. ASSUME NEW c \in Console, SetActive(c)
      PROVE  KeepsFirst(state[f], state'[f])
  <2>1. PICK e \in State : Keeps(e, Refreshed(Touched(state[e], c)))
    BY <1>3 DEF SetActive
  <2>2. QED
    BY <1>1, <2>1, TouchedKeepsFirst, OneObjectKeepsFirst DEF Keeps
<1>4. ASSUME NEW c \in Console, SetInactive(c)
      PROVE  KeepsFirst(state[f], state'[f])
  <2>1. CASE current = 0
    BY <1>2, <1>4, <2>1 DEF SetInactive, hubVars
  <2>2. CASE current # 0
    <3>1. current \in State
      BY <2>2, Bounds DEF IInv, TypeOK, State
    <3>2. Keeps(current, Refreshed(Without(state[current], {c})))
      BY <1>4, <2>2 DEF SetInactive
    <3>3. QED
      BY <1>1, <3>1, <3>2, WithoutKeepsFirst, OneObjectKeepsFirst DEF Keeps
  <2>3. QED
    BY <2>1, <2>2
<1>5. ASSUME NEW c \in Console, PublishSegment(c)
      PROVE  KeepsFirst(state[f], state'[f])
  <2> DEFINE st(e) == Refreshed(Touched(state[e], c))
  <2>1. PICK e \in State : Keeps(e, st(e)) \/ Keeps(e, [st(e) EXCEPT !.next = @ + 1])
    BY <1>5 DEF PublishSegment
  <2>2. KeepsFirst(state[e], st(e)) /\ st(e) \in ProgramState
    BY <1>1, TouchedKeepsFirst, TouchedIsSound DEF IInv, TypeOK, Sound
  <2> HIDE DEF st
  <2>3. KeepsFirst(state[e], [st(e) EXCEPT !.next = @ + 1])
    <3> DEFINE more == [st(e) EXCEPT !.next = @ + 1]
    <3>1. more.sources = st(e).sources /\ more.ahead = st(e).ahead
      BY <2>2 DEF ProgramState
    <3> HIDE DEF more
    <3>2. KeepsFirst(state[e], more)
      BY <2>2, <3>1 DEF KeepsFirst, IsPrimary
    <3>3. QED
      BY <3>2 DEF more
  <2>4. QED
    BY <2>1, <2>2, <2>3, OneObjectKeepsFirst DEF Keeps
<1>6. ASSUME NEW p \in Page, Subscribe(p)
      PROVE  KeepsFirst(state[f], state'[f])
  <2>1. PICK e \in State : Keeps(e, [state[e] EXCEPT !.live = @ \cup {p}])
    BY <1>6 DEF Subscribe
  <2> DEFINE st == [state[e] EXCEPT !.live = @ \cup {p}]
  <2>2. st.sources = state[e].sources /\ st.ahead = state[e].ahead
    BY <1>1 DEF ProgramState
  <2>3. state' = [state EXCEPT ![e] = st]
    BY <2>1 DEF Keeps
  <2> HIDE DEF st
  <2>4. QED
    BY <2>2, <2>3, SameSourcesKeepFirst, OneObjectKeepsFirst
<1>7. ASSUME NEW p \in Page, ConnectionBreaks(p) \/ Unsubscribe(p)
      PROVE  KeepsFirst(state[f], state'[f])
  <2>1. PICK e \in State :
          \/ state' = [state EXCEPT ![e].live = @ \ {p}, ![e].dead = @ \cup {p}]
          \/ state' = [state EXCEPT ![e].dead = @ \ {p}]
    BY <1>7 DEF ConnectionBreaks, Unsubscribe
  <2>2. state'[f].sources = state[f].sources /\ state'[f].ahead = state[f].ahead
    BY <1>1, <2>1 DEF ProgramState, IInv, TypeOK
  <2>3. QED
    BY <2>2, SameSourcesKeepFirst
<1>8. CASE ExpireStale
  <2>1. current \in State
    <3>1. current # 0
      BY <1>8 DEF ExpireStale, IInv, HubOK, SweepIsSet
    <3>2. QED
      BY <3>1, Bounds DEF IInv, TypeOK, State
  <2>2. Keeps(current, Refreshed(Without(state[current], silent)))
    BY <1>8 DEF ExpireStale
  <2>3. QED
    BY <1>1, <2>1, <2>2, WithoutKeepsFirst, OneObjectKeepsFirst DEF Keeps
<1>9. CASE Restart
  <2>1. state'[f] = IF f = current THEN [NewState EXCEPT !.next = state[f].next] ELSE state[f]
    BY <1>9 DEF Restart
  <2>2. CASE f = current
    <3>1. state'[f].sources = {}
      BY <2>1, <2>2 DEF NewState
    <3>2. QED
      BY <3>1 DEF KeepsFirst
  <2>3. CASE f # current
    BY <2>1, <2>3, SameSourcesKeepFirst
  <2>4. QED
    BY <2>2, <2>3
<1>10. QED
  <2>1. CASE UNCHANGED vars
    BY <1>2, <2>1 DEF vars, hubVars
  <2>2. ASSUME NEW c \in Console, ConsoleStep(c) PROVE UNCHANGED state
    BY <2>2 DEF ConsoleStep, ConsoleStarts, ConsoleOpens, ConsoleReports, ConsoleStops,
                ConsoleSaysOff, ConsoleVanishes, hubVars
  <2>3. ASSUME NEW c \in Console, FallsSilent(c) PROVE UNCHANGED state
    BY <2>3 DEF FallsSilent
  <2>4. ASSUME NEW p \in Page, PageReset(p) PROVE UNCHANGED state
    BY <2>4 DEF PageReset, hubVars
  <2>5. ASSUME NEW m \in posts, PostLost(m) PROVE UNCHANGED state
    BY <2>5 DEF PostLost, hubVars
  <2>6. ASSUME NEW k \in Key, TranslationArrives(k) \/ TranslationFails(k) PROVE UNCHANGED state
    BY <2>6 DEF TranslationArrives, TranslationFails, hubVars
  <2>7. QED
    BY <1>2, <1>3, <1>4, <1>5, <1>6, <1>7, <1>8, <1>9, <2>1, <2>2, <2>3, <2>4, <2>5, <2>6
       DEF Next, HubStep, PageStep

(* No standby overtakes the console that relays while that is registered.    *)
THEOREM RelayIsKept == Spec => PrimaryKeepsRelaying
<1> DEFINE Step == \A e \in State, c \in Console :
                     /\ IsPrimary(state[e], c)
                     /\ c \in state'[e].sources
                     => IsPrimary(state'[e], c)
<1>1. IInv /\ [Next]_vars => [Step]_vars
  BY StepKeepsFirst DEF KeepsFirst
<1>2. QED
  BY <1>1, HubInvariant, PTL DEF Spec, PrimaryKeepsRelaying
=============================================================================
