--------------------------- MODULE TranscriptHub ---------------------------
(***************************************************************************)
(* The live transcript of one program: the source consoles that post what  *)
(* the hall feed says, the in-memory TranscriptHub that numbers, stores,   *)
(* translates and fans it out, and the translators' pages that follow it   *)
(* over an event stream.                                                   *)
(*                                                                         *)
(* The hub keeps nothing across programs but the keys of translations in   *)
(* flight, which name the program, so one program is enough. It runs       *)
(* between two waits of one JavaScript process: every call of it is a step. *)
(*                                                                         *)
(* A ProgramState is forgotten when it is idle and made anew later, and     *)
(* what is still waiting for a translation keeps the old one. State numbers *)
(* the objects. The text of a segment is not modelled: the segment n of    *)
(* the object e is <<e, n>>.                                               *)
(***************************************************************************)
EXTENDS Integers, FiniteSets

CONSTANTS
  Console,        \* source consoles, by sourceId
  Page,           \* translators' pages
  Language,       \* language codes
  English,        \* the language that needs no translation
  LanguageOf,     \* [Page -> Language], of the stream a page follows
  ReplaySize,     \* segments kept for pages that join late
  MaxState,       \* bound: ProgramState objects
  MaxSeq,         \* bound: segments of one object
  MaxPosts        \* bound: posts of consoles on their way at once

ASSUME EnglishIsALanguage == English \in Language
ASSUME LanguageOfPages == LanguageOf \in [Page -> Language]
ASSUME BoundsArePositive ==
  /\ ReplaySize \in Nat \ {0}
  /\ MaxState \in Nat \ {0}
  /\ MaxSeq \in Nat
  /\ MaxPosts \in Nat

VARIABLES
  state,       \* [State -> ProgramState], objects in the map or only in use
  current,     \* the object in the map programs, or 0
  silent,      \* sources that have not reported for the silence limit
  sweeping,    \* the sweep timer is set
  calls,       \* [Key -> Nat], translations asked and not yet answered
  inFlight,    \* the set of that name: numbers and languages
  translated,  \* the translations that segments hold
  console,     \* [Console -> ConsoleState], what a console's page is doing
  posts,       \* posts of consoles on their way
  page         \* [Page -> PageState], what a translator sees

hubVars == <<state, current, silent, sweeping>>
translationVars == <<calls, inFlight, translated>>
consoleVars == <<console, posts>>
vars == <<hubVars, translationVars, consoleVars, page>>

-----------------------------------------------------------------------------
(* Types *)

State == 1 .. MaxState
Segment == 1 .. MaxSeq

(* A translation: of a segment of an object, into a language.               *)
Key == State \X Segment \X Language

(* sources are the keys of the Map of consoles and ahead its insertion       *)
(* order: <<c, d>> says that c was put in before d. live are the pages       *)
(* whose event stream works, dead those whose broken stream has not been    *)
(* cleaned up; a page may have one of each. The replay buffer holds the     *)
(* last segments before next.                                              *)
ProgramState ==
  [sources: SUBSET Console, ahead: SUBSET (Console \X Console), active: BOOLEAN,
   next: 1 .. MaxSeq + 1, live: SUBSET Page, dead: SUBSET Page]

ConsoleState == {"off", "starting", "live", "stopping"}

Post == Console \X {"active", "inactive", "partial", "segment"}

(* text and translation are the objects whose segment they were made from,  *)
(* 0 if there is none.                                                     *)
Line == [text: 0 .. MaxState, translation: 0 .. MaxState, failed: BOOLEAN]

PageState == [sourceActive: BOOLEAN, line: [Segment -> Line]]

(* Of two keys of a Map one is ahead, and who is ahead of it is ahead of the other. *)
InOrder(st) ==
  /\ st.ahead \subseteq st.sources \X st.sources
  /\ \A c, d \in st.sources : <<c, d>> \in st.ahead \/ <<d, c>> \in st.ahead \/ c = d
  /\ \A c, d \in st.sources : <<c, d>> \in st.ahead => <<d, c>> \notin st.ahead
  /\ \A b, c, d \in st.sources : <<b, c>> \in st.ahead /\ <<c, d>> \in st.ahead => <<b, d>> \in st.ahead

TypeOK ==
  /\ state \in [State -> ProgramState] /\ \A e \in State : InOrder(state[e])
  /\ current \in 0 .. MaxState
  /\ silent \in SUBSET Console
  /\ sweeping \in BOOLEAN
  /\ calls \in [Key -> Nat]
  /\ inFlight \in SUBSET (Segment \X Language)
  /\ translated \in SUBSET Key
  /\ console \in [Console -> ConsoleState]
  /\ posts \in SUBSET Post
  /\ page \in [Page -> PageState]

-----------------------------------------------------------------------------
(* The hub, as functions of one ProgramState st *)

NewState ==
  [sources |-> {}, ahead |-> {}, active |-> FALSE, next |-> 1, live |-> {}, dead |-> {}]

NoLine == [text |-> 0, translation |-> 0, failed |-> FALSE]

Subscribers(st) == st.live \cup st.dead

Buffered(st) == {n \in Segment : n < st.next /\ n >= st.next - ReplaySize}

(* The first key of the Map. *)
IsPrimary(st, c) ==
  c \in st.sources /\ \A d \in st.sources \ {c} : <<c, d>> \in st.ahead

Without(st, cs) ==
  [st EXCEPT !.sources = @ \ cs, !.ahead = {p \in @ : p[1] \notin cs /\ p[2] \notin cs}]

(* The Map with c put in behind all others. *)
Appended(st, c) ==
  [st EXCEPT !.sources = @ \cup {c}, !.ahead = @ \cup (st.sources \X {c})]

(* Mutant: a console that reports in moves to the end of the Map.            *)
Touched_Reinserted(st, c) ==
  Appended(Without(st, {c}), c)

(* Mutant: a console that reports in is registered again.                    *)
Touched_Again(st, c) == Appended(st, c)

Touched(st, c) == IF c \in st.sources THEN st ELSE Appended(st, c)

Refreshed(st) == [st EXCEPT !.active = st.sources # {}]

(* Mutant: a program nobody reports to is forgotten, watched or not.         *)
IsIdle_SourcesOnly(st) == st.sources = {}

IsIdle(st) == st.sources = {} /\ Subscribers(st) = {}

(* The object a call works on: that of the map, or a new one. An object     *)
(* that was dropped before it stored a segment left nothing behind and is   *)
(* new again.                                                              *)
Unused == {e \in State : state[e] = NewState}

Open(e) ==
  IF current # 0
  THEN e = current
  ELSE e \in Unused /\ \A f \in Unused : e <= f

(* The call leaves the object e, which the map is to hold, as st;           *)
(* dropIfIdle empties the entry of the map.                                *)
Keeps(e, st) ==
  /\ state' = [state EXCEPT ![e] = st]
  /\ current' = IF IsIdle(st) THEN 0 ELSE e

(* Mutant: the timer is cleared but never set again.                         *)
UpdateSweep_OnlyClears(st) == sweeping' = (sweeping /\ st.sources # {})

UpdateSweep(st) == sweeping' = (st.sources # {})

-----------------------------------------------------------------------------
(* What an event changes on a page (transcriptReducer) *)

AfterSegment(ln, e) == IF ln.text # 0 THEN ln ELSE [NoLine EXCEPT !.text = e]

AfterTranslation(ln, e) ==
  IF ln.text = 0 THEN ln ELSE [ln EXCEPT !.translation = e, !.failed = FALSE]

AfterError(ln) ==
  IF ln.text = 0 \/ ln.translation # 0 THEN ln ELSE [ln EXCEPT !.failed = TRUE]

(* Mutant: only a start is broadcast.                                        *)
ToldSource_OnlyStart(old, st) ==
  [p \in Page |-> IF p \in st.live /\ st.active /\ ~old.active
                  THEN [page[p] EXCEPT !.sourceActive = TRUE]
                  ELSE page[p]]

(* source_state is broadcast when active has changed.                       *)
ToldSource(old, st) ==
  [p \in Page |-> IF p \in st.live /\ st.active # old.active
                  THEN [page[p] EXCEPT !.sourceActive = st.active]
                  ELSE page[p]]

ToldSegment(pages, st, e, n) ==
  [p \in Page |-> IF p \in st.live
                  THEN [pages[p] EXCEPT !.line[n] = AfterSegment(@, e)] ELSE pages[p]]

-----------------------------------------------------------------------------
(* Translation *)

(* Mutant: nobody looks whether the translation is already in flight.        *)
Asks_Always(e, ns, ls) == {e} \X ns \X (ls \ {English})

(* The calls translate makes for the segments ns and the languages ls. The  *)
(* key of a call in flight names the number of the segment, not the object. *)
Asks(e, ns, ls) == {k \in {e} \X ns \X (ls \ {English}) : <<k[2], k[3]>> \notin inFlight}

Translate(asks) ==
  /\ calls' = [k \in Key |-> IF k \in asks THEN calls[k] + 1 ELSE calls[k]]
  /\ inFlight' = inFlight \cup {<<k[2], k[3]>> : k \in asks}
  /\ UNCHANGED translated

Answered(k) ==
  /\ calls[k] > 0
  /\ calls' = [calls EXCEPT ![k] = @ - 1]
  /\ inFlight' = inFlight \ {<<k[2], k[3]>>}

Followers(e, l) == {p \in state[e].live : LanguageOf[p] = l}

TranslationArrives(k) ==
  /\ Answered(k)
  /\ translated' = translated \cup {k}
  /\ page' = [p \in Page |->
                IF p \in Followers(k[1], k[3])
                THEN [page[p] EXCEPT !.line[k[2]] = AfterTranslation(@, k[1])]
                ELSE page[p]]
  /\ UNCHANGED <<hubVars, consoleVars>>

(* The provider refuses, or has not answered within the request timeout.    *)
TranslationFails(k) ==
  /\ Answered(k)
  /\ page' = [p \in Page |->
                IF p \in Followers(k[1], k[3])
                THEN [page[p] EXCEPT !.line[k[2]] = AfterError(@)]
                ELSE page[p]]
  /\ UNCHANGED <<hubVars, translated, consoleVars>>

-----------------------------------------------------------------------------
(* Source consoles (SourceRelay) *)

Posted(c, kind) ==
  /\ posts' = posts \cup {<<c, kind>>}
  /\ Cardinality(posts') <= MaxPosts

(* The Start button first posts that the console is off, and waits.         *)
ConsoleStarts(c) ==
  /\ console[c] = "off"
  /\ console' = [console EXCEPT ![c] = "starting"]
  /\ Posted(c, "inactive")
  /\ UNCHANGED <<hubVars, translationVars, page>>

(* The transcription service is connected, or something failed on the way.  *)
ConsoleOpens(c) ==
  /\ console[c] = "starting"
  /\ <<c, "inactive">> \notin posts
  /\ \/ console' = [console EXCEPT ![c] = "live"] /\ Posted(c, "active")
     \/ console' = [console EXCEPT ![c] = "off"] /\ UNCHANGED posts
  /\ UNCHANGED <<hubVars, translationVars, page>>

(* A keep-alive, a partial, or a finished segment; segments wait for one    *)
(* another.                                                                *)
ConsoleReports(c) ==
  /\ console[c] = "live"
  /\ \E kind \in {"active", "partial", "segment"} :
       /\ <<c, kind>> \notin posts
       /\ Posted(c, kind)
  /\ UNCHANGED <<hubVars, translationVars, console, page>>

(* stop, which first flushes a pending partial.                             *)
ConsoleStops(c) ==
  /\ console[c] \in {"starting", "live"}
  /\ console' = [console EXCEPT ![c] = "stopping"]
  /\ Posted(c, "partial") \/ UNCHANGED posts
  /\ UNCHANGED <<hubVars, translationVars, page>>

(* The rest of stop, once the queue of segments is empty.                   *)
ConsoleSaysOff(c) ==
  /\ console[c] = "stopping"
  /\ <<c, "segment">> \notin posts
  /\ console' = [console EXCEPT ![c] = "off"]
  /\ Posted(c, "inactive")
  /\ UNCHANGED <<hubVars, translationVars, page>>

(* The console's tab is gone.                                               *)
ConsoleVanishes(c) ==
  /\ console[c] # "off"
  /\ console' = [console EXCEPT ![c] = "off"]
  /\ UNCHANGED <<hubVars, translationVars, posts, page>>

PostLost(m) ==
  /\ posts' = posts \ {m}
  /\ UNCHANGED <<hubVars, translationVars, console, page>>

-----------------------------------------------------------------------------
(* Calls of the hub by POST /api/admin/transcript/:slug/events *)

Received(c, kind) ==
  /\ <<c, kind>> \in posts
  /\ posts' = posts \ {<<c, kind>>}
  /\ UNCHANGED console

(* setActive(.., true) and publishPartial: touch, refreshActive and         *)
(* updateSweep. The text of a partial is not kept.                          *)
SetActive(c) ==
  /\ Received(c, "active") \/ Received(c, "partial")
  /\ \E e \in State :
       /\ Open(e)
       /\ LET st == Refreshed(Touched(state[e], c))
          IN /\ Keeps(e, st)
             /\ UpdateSweep(st)
             /\ page' = ToldSource(state[e], st)
  /\ silent' = silent \ {c}
  /\ UNCHANGED translationVars

(* setActive(.., false). An object made for it is dropped again at once.    *)
SetInactive(c) ==
  /\ Received(c, "inactive")
  /\ IF current = 0
     THEN UNCHANGED <<hubVars, page>>
     ELSE LET st == Refreshed(Without(state[current], {c}))
          IN /\ Keeps(current, st)
             /\ UpdateSweep(st)
             /\ silent' = silent \ {c}
             /\ page' = ToldSource(state[current], st)
  /\ UNCHANGED translationVars

(* publishSegment: a standby is only touched; the primary's segment gets    *)
(* the next number, and is translated for every language that is watched.   *)
PublishSegment(c) ==
  /\ Received(c, "segment")
  /\ \E e \in State :
       /\ Open(e)
       /\ LET st == Refreshed(Touched(state[e], c))
              stored == [st EXCEPT !.next = @ + 1]
              told == ToldSource(state[e], st)
          IN /\ UpdateSweep(st)
             /\ IF IsPrimary(st, c)
                THEN /\ st.next <= MaxSeq
                     /\ Keeps(e, stored)
                     /\ page' = ToldSegment(told, st, e, st.next)
                     /\ Translate(Asks(e, {st.next}, {LanguageOf[p] : p \in Subscribers(st)}))
                ELSE /\ Keeps(e, st)
                     /\ page' = told
                     /\ UNCHANGED translationVars
  /\ silent' = silent \ {c}

(* The silence limit passes for a source.                                   *)
FallsSilent(c) ==
  /\ current # 0
  /\ c \in state[current].sources \ silent
  /\ silent' = silent \cup {c}
  /\ UNCHANGED <<state, current, sweeping, translationVars, consoleVars, page>>

ExpireStale ==
  /\ sweeping
  /\ silent # {}
  /\ LET st == Refreshed(Without(state[current], silent))
     IN /\ Keeps(current, st)
        /\ UpdateSweep(st)
        /\ page' = ToldSource(state[current], st)
  /\ silent' = {}
  /\ UNCHANGED <<translationVars, consoleVars>>

-----------------------------------------------------------------------------
(* Translators' pages *)

IsConnected(p) == \E e \in State : p \in state[e].live

(* Mutant: the replay sends no cached translation.                           *)
Replayed_TextOnly(e, p) ==
  [page[p] EXCEPT !.sourceActive = state[e].active,
                  !.line = [n \in Segment |->
                     IF n \in Buffered(state[e]) THEN AfterSegment(@[n], e) ELSE @[n]]]

(* What the events of subscribe leave on the page.                          *)
Replayed(e, p) ==
  [page[p] EXCEPT
     !.sourceActive = state[e].active,
     !.line = [n \in Segment |->
                 IF n \notin Buffered(state[e])
                 THEN @[n]
                 ELSE IF <<e, n, LanguageOf[p]>> \in translated
                      THEN AfterTranslation(AfterSegment(@[n], e), e)
                      ELSE AfterSegment(@[n], e)]]

(* GET /api/translator/transcript/stream: also when EventSource reconnects.  *)
(* Segments the language has no translation of are sent to be translated.   *)
Subscribe(p) ==
  /\ ~IsConnected(p)
  /\ \E e \in State :
       /\ Open(e)
       /\ Keeps(e, [state[e] EXCEPT !.live = @ \cup {p}])
       /\ page' = [page EXCEPT ![p] = Replayed(e, p)]
       /\ LET missing == {n \in Buffered(state[e]) :
                            <<e, n, LanguageOf[p]>> \notin translated}
          IN Translate(Asks(e, missing, {LanguageOf[p]}))
  /\ UNCHANGED <<silent, sweeping, consoleVars>>

(* The connection breaks, or the page closes it; the server does not know.   *)
ConnectionBreaks(p) ==
  /\ \E e \in State :
       /\ p \in state[e].live
       /\ state' = [state EXCEPT ![e].live = @ \ {p}, ![e].dead = @ \cup {p}]
  /\ UNCHANGED <<current, silent, sweeping, translationVars, consoleVars, page>>

(* The server notices: the function subscribe returned is called.           *)
Unsubscribe(p) ==
  /\ \E e \in State :
       /\ p \in state[e].dead
       /\ state' = [state EXCEPT ![e].dead = @ \ {p}]
       /\ current' = IF IsIdle(state'[e]) THEN 0 ELSE current
  /\ UNCHANGED <<silent, sweeping, translationVars, consoleVars, page>>

(* A page that is not connected is loaded anew.                             *)
PageReset(p) ==
  /\ ~IsConnected(p)
  /\ page' = [page EXCEPT ![p] = [sourceActive |-> FALSE,
                                  line |-> [n \in Segment |-> NoLine]]]
  /\ UNCHANGED <<hubVars, translationVars, consoleVars>>

(* The API process restarts: the hub is in memory and every connection is   *)
(* gone. The pages and the consoles stay.                                   *)
Restart ==
  /\ state' = [e \in State |->
                 IF e = current
                 THEN [NewState EXCEPT !.next = state[e].next]
                 ELSE state[e]]
  /\ current' = 0
  /\ silent' = {}
  /\ sweeping' = FALSE
  /\ calls' = [k \in Key |-> 0]
  /\ inFlight' = {}
  /\ UNCHANGED <<translated, consoleVars, page>>

-----------------------------------------------------------------------------

Init ==
  /\ state = [e \in State |-> NewState]
  /\ current = 0
  /\ silent = {}
  /\ sweeping = FALSE
  /\ calls = [k \in Key |-> 0]
  /\ inFlight = {}
  /\ translated = {}
  /\ console = [c \in Console |-> "off"]
  /\ posts = {}
  /\ page = [p \in Page |-> [sourceActive |-> FALSE, line |-> [n \in Segment |-> NoLine]]]

ConsoleStep(c) ==
  \/ ConsoleStarts(c)
  \/ ConsoleOpens(c)
  \/ ConsoleReports(c)
  \/ ConsoleStops(c)
  \/ ConsoleSaysOff(c)
  \/ ConsoleVanishes(c)

HubStep(c) ==
  \/ SetActive(c)
  \/ SetInactive(c)
  \/ PublishSegment(c)
  \/ FallsSilent(c)

PageStep(p) ==
  \/ Subscribe(p)
  \/ ConnectionBreaks(p)
  \/ Unsubscribe(p)
  \/ PageReset(p)

Next ==
  \/ \E c \in Console : ConsoleStep(c) \/ HubStep(c)
  \/ \E p \in Page : PageStep(p)
  \/ \E m \in posts : PostLost(m)
  \/ \E k \in Key : TranslationArrives(k) \/ TranslationFails(k)
  \/ ExpireStale
  \/ Restart

Spec == Init /\ [][Next]_vars

-----------------------------------------------------------------------------
(* Safety *)

(* Whoever reports to or watches the program does so through the object in   *)
(* the map: dropIfIdle never forgets an object in use, so no page is left    *)
(* listening to an object that nobody publishes to.                         *)
NobodyIsForgotten ==
  \A e \in State : ~IsIdle(state[e]) => e = current

(* A connected page agrees with the hub: it shows the source on or off as    *)
(* it is, and a line for every segment of the replay buffer, whether it      *)
(* joined before or after the segment, or came back.                        *)
PagesFollow ==
  \A e \in State : \A p \in state[e].live :
    /\ page[p].sourceActive = (state[e].sources # {})
    /\ \A n \in Buffered(state[e]) : page[p].line[n].text # 0

(* Every translation a buffered segment holds is shown by every connected    *)
(* page of that language: the late joiner and the one that came back get it  *)
(* with the replay, the others when it arrives.                             *)
TranslationsShown ==
  \A e \in State : \A p \in state[e].live, n \in Buffered(state[e]) :
    <<e, n, LanguageOf[p]>> \in translated => page[p].line[n].translation = e

(* A segment is sent to be translated into a language once: never again      *)
(* while the first answer is awaited, whoever joins, nor after it came.      *)
TranslatedOnce ==
  [][\A k \in Key : calls'[k] > calls[k] =>
       /\ k \notin translated
       /\ \A j \in Key : <<j[2], j[3]>> = <<k[2], k[3]>> => calls[j] = 0]_vars

(* A console that relays goes on relaying for as long as it is registered:   *)
(* no standby overtakes it by reporting more often.                         *)
PrimaryKeepsRelaying ==
  [][\A e \in State, c \in Console :
       /\ IsPrimary(state[e], c)
       /\ c \in state'[e].sources
       => IsPrimary(state'[e], c)]_vars

-----------------------------------------------------------------------------
(* Liveness *)

(* The console runs no more and nothing of it is on its way.                *)
Gone(c) == console[c] = "off" /\ \A m \in posts : m[1] # c

IsSource(c) == current # 0 /\ c \in state[current].sources

(* Time passes for a console that is gone, and the sweep timer fires while   *)
(* it is set.                                                              *)
FairSpec ==
  /\ Spec
  /\ \A c \in Console : WF_vars(Gone(c) /\ FallsSilent(c))
  /\ WF_vars(ExpireStale)

(* A console that is gone does not stay registered: a dead one is not shown   *)
(* as live for ever, and a standby behind it takes over.                    *)
GoneConsoleIsDropped ==
  \A c \in Console : Gone(c) ~> (~IsSource(c) \/ ~Gone(c))
=============================================================================
