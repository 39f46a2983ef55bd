------------------------- MODULE OfficeConsole_proofs -------------------------
(***************************************************************************)
(* Proofs about two parts of the office, for any values of its constants:  *)
(* the managers' console, and the chart of its reports.                    *)
(***************************************************************************)
EXTENDS Office, FiniteSetTheorems, FunctionTheorems, SequenceTheorems, WellFoundedInduction, TLAPS

-----------------------------------------------------------------------------
(* The console.  What its flags say holds because every request has a number *)
(* no other has, and at most one request of a kind is the newest; its list   *)
(* is current because whoever changes the programs on the server asks for    *)
(* the list when it is answered, and what was asked before is overtaken.     *)

\* Requests about the list, about the user and about no program.
Bare == {"list", "users", "login", "logout"}

\* Requests that read or change the list of programs.
OfList == {"list", "users", "create", "delete"}

ConsoleCall ==
    [n : Nat, kind : Pages!Kinds, prog : Program \cup {None}, section : Pages!Sections \cup {"programs"},
     fresh : BOOLEAN, answer : {"none", "ok", "auth", "error"}, listed : SUBSET Program]

RequestOK(c) == c \in ConsoleCall /\ (c.kind \notin Bare => c.prog \in Program)

RequestsOK(cs) ==
    /\ IsFiniteSet(cs) /\ (\A c \in cs : RequestOK(c))
    /\ \A c, d \in cs : c.n = d.n => c = d

ConsoleRow ==
    [load : {"checking", "login", "ready", "error"}, url : Pages!Urls, listed : SUBSET Program,
     selected : Program \cup {None}, detail : Program \cup {None}, status : Program \cup {None},
     summary : SUBSET Program, section : Pages!Sections \cup {"programs"}, identity : BOOLEAN,
     loading : Pages!Urls, suppress : BOOLEAN, cursor : BOOLEAN, fetching : BOOLEAN, inFlight : Nat,
     statusBusy : BOOLEAN]

Among(cs, kinds) == {c \in cs : c.kind \in kinds}
Numbers(cs) == {c.n : c \in cs}

ReportFlags(pg, cs) ==
    /\ pg.fetching <=> \E c \in Among(cs, Pages!Reporting) : c.fresh
    /\ \A c, d \in Among(cs, Pages!Reporting) : c.fresh /\ d.fresh => c = d
    /\ pg.inFlight <= Cardinality(Numbers(Among(cs, Pages!Reporting)))

StatusFlags(pg, cs) ==
    /\ pg.statusBusy <=> Among(cs, {"status"}) # {}
    /\ \A c, d \in Among(cs, {"status"}) : c = d

\* The programs were changed, and the page does not know yet.
Dirty(cs) == \E c \in cs : c.kind \in {"create", "delete"} /\ c.answer = "ok"

NoneFresh(cs) == \A c \in cs : c.kind = "list" => ~c.fresh

\* "miss" says that the answer to a change was lost, and the list not asked for since.
ListOK(pg, cs, progs, miss) ==
    /\ pg.load = "ready" /\ ~miss /\ ~Dirty(cs) /\ NoneFresh(cs) => pg.listed = progs
    /\ ~miss /\ ~Dirty(cs) => \A c \in cs : c.kind = "list" /\ c.fresh /\ c.answer = "ok" => c.listed = progs

NoUsers(cs) == \A c \in cs : c.kind # "users"

\* The users are listed for an admin alone.
ConsoleBase(pg, cs, progs) ==
    /\ RequestsOK(cs) /\ pg \in ConsoleRow /\ progs \subseteq Program
    /\ ReportFlags(pg, cs) /\ StatusFlags(pg, cs)
    /\ ~RoleAdmin => NoUsers(cs)

ConsoleState(pg, cs, progs, miss) ==
    ConsoleBase(pg, cs, progs) /\ (~RoleAdmin => ListOK(pg, Among(cs, OfList), progs, miss))

PanelTyped(pn) ==
    /\ pn \in [prog : Program \cup {None}, access : Program \cup {None},
               shown : Program \cup {None}, pending : BOOLEAN]
    /\ pn.shown \in {None, pn.prog}

ConsoleCore ==
    /\ ConsoleState(consolePage, requests, programs, unheard)
    /\ PanelTyped(panel) /\ panel.prog = consolePage.detail

ConsoleInv == ConsoleCore /\ unheard \in BOOLEAN

-----------------------------------------------------------------------------
LEMMA ConsoleSizes ==
    \A S : Pages!IsFiniteSet(S) = IsFiniteSet(S) /\ Pages!Cardinality(S) = Cardinality(S)
  BY DEF Pages!IsFiniteSet, Pages!Cardinality, IsFiniteSet, Cardinality

\* A set of numbers up to a bound has a least one.
LEMMA LeastIs ==
    ASSUME NEW n \in Nat, NEW S \in SUBSET (1 .. n), S # {}
    PROVE  Pages!Min(S) \in S
  <1> DEFINE T == {1 .. i : i \in S}
  <1>1. T \subseteq FiniteSubsetsOf(1 .. n) /\ T # {}
    <2>1. \A i \in S : 1 .. i \in SUBSET (1 .. n) /\ IsFiniteSet(1 .. i)
      BY FS_Interval
    <2> QED BY <2>1 DEF FiniteSubsetsOf
  <1>2. IsWellFoundedOn(StrictSubsetOrdering(1 .. n), FiniteSubsetsOf(1 .. n))
    BY FS_StrictSubsetOrderingWellFounded
  <1>3. PICK x \in T : \A y \in T : ~ (<<y, x>> \in StrictSubsetOrdering(1 .. n))
    BY <1>1, <1>2, WFMin
  <1>4. PICK i \in S : x = 1 .. i
    OBVIOUS
  <1>5. ASSUME NEW j \in S, j < i
        PROVE  FALSE
    <2>1. 1 .. j \subseteq 1 .. i /\ 1 .. j # 1 .. i /\ 1 .. i \subseteq 1 .. n /\ 1 .. j \in T
      BY <1>5
    <2> QED BY <1>3, <1>4, <2>1 DEF StrictSubsetOrdering
  <1>6. \A j \in S : i <= j
    BY <1>5
  <1> QED BY <1>6 DEF Pages!Min

\* There is a number that no request has.
LEMMA NumberIsFree ==
    ASSUME NEW cs, IsFiniteSet(cs), \A c \in cs : c.n \in Nat
    PROVE  LET m == Pages!Min({i \in 1 .. (Pages!Cardinality(cs) + 1) : \A d \in cs : d.n # i})
           IN  m \in Nat /\ \A d \in cs : d.n # m
  <1> DEFINE k == Cardinality(cs)
             S == {i \in 1 .. (k + 1) : \A d \in cs : d.n # i}
  <1>1. k \in Nat /\ Pages!Cardinality(cs) = k
    BY FS_CardinalityType, ConsoleSizes
  <1>2. S # {}
    <2> SUFFICES ASSUME S = {} PROVE FALSE
      OBVIOUS
    <2>1. \A i \in 1 .. (k + 1) : \E d \in cs : d.n = i
      OBVIOUS
    <2> DEFINE f == [i \in 1 .. (k + 1) |-> CHOOSE d \in cs : d.n = i]
    <2>2. \A i \in 1 .. (k + 1) : f[i] \in cs /\ f[i].n = i
      BY <2>1
    <2>3. f \in [1 .. (k + 1) -> cs]
      BY <2>2
    <2>4. IsFiniteSet(1 .. (k + 1)) /\ Cardinality(1 .. (k + 1)) = k + 1
      BY <1>1, FS_Interval
    <2> HIDE DEF f
    <2>5. Cardinality(cs) < Cardinality(1 .. (k + 1))
      BY <1>1, <2>4
    <2>6. \E x, y \in 1 .. (k + 1) : x # y /\ f[x] = f[y]
      <3>1. PICK r : r = 1 .. (k + 1)
        OBVIOUS
      <3>2. IsFiniteSet(r) /\ Cardinality(cs) < Cardinality(r) /\ f \in [r -> cs]
        BY <2>3, <2>4, <2>5, <3>1
      <3> HIDE DEF k
      <3>3. \E x, y \in r : x # y /\ f[x] = f[y]
        BY <3>2, FS_PigeonHole
      <3> QED BY <3>1, <3>3
    <2> QED BY <2>2, <2>6
  <1>3. Pages!Min(S) \in S
    <2>1. PICK n \in Nat : n = k + 1
      BY <1>1
    <2>2. S \in SUBSET (1 .. n)
      BY <2>1
    <2> HIDE DEF S
    <2> QED BY <1>2, <2>2, LeastIs
  <1> QED BY <1>1, <1>3

LEMMA KindsAre ==
    Pages!Kinds = {"list", "users", "report", "part", "open", "status", "detail", "act", "save", "delete",
                   "create", "panel", "password", "login", "logout"}
  BY DEF Pages!Kinds, Pages!Listing, Pages!Reporting

\* What a page asks for.
LEMMA AsksFor ==
    ASSUME NEW kind \in Pages!Kinds, NEW p \in Program \cup {None},
           NEW section \in Pages!Sections \cup {"programs"}, kind \notin Bare => p \in Program
    PROVE  LET c == Pages!Request(kind, p, section)
           IN  RequestOK(c) /\ c.kind = kind /\ c.fresh /\ c.answer = "none"
  BY DEF Pages!Request, RequestOK, ConsoleCall

\* A request that is sent has a number of its own, and is otherwise what it was.
LEMMA SendsOne ==
    ASSUME NEW cs, RequestsOK(cs), NEW c, RequestOK(c)
    PROVE  \E d : /\ Pages!Send(cs, c) = cs \cup {d} /\ d.n \notin Numbers(cs)
                  /\ d.kind = c.kind /\ d.fresh = c.fresh /\ d.answer = c.answer
                  /\ RequestsOK(cs \cup {d})
  <1>1. PICK m \in Nat : /\ m = Pages!Min({i \in 1 .. (Pages!Cardinality(cs) + 1) : \A d \in cs : d.n # i})
                         /\ \A d \in cs : d.n # m
    BY NumberIsFree DEF RequestsOK, RequestOK, ConsoleCall
  <1>2. PICK d : d = [c EXCEPT !.n = m]
    OBVIOUS
  <1>3. Pages!Send(cs, c) = cs \cup {d}
    BY <1>1, <1>2 DEF Pages!Send
  <1>4. /\ d \in ConsoleCall /\ d.n = m /\ d.kind = c.kind /\ d.prog = c.prog
        /\ d.fresh = c.fresh /\ d.answer = c.answer
    BY <1>2 DEF RequestOK, ConsoleCall
  <1>5. RequestOK(d)
    BY <1>4 DEF RequestOK
  <1>6. RequestsOK(cs \cup {d})
    BY <1>1, <1>4, <1>5, FS_AddElement DEF RequestsOK
  <1> QED BY <1>1, <1>3, <1>4, <1>6 DEF Numbers

\* A request that is overtaken is no longer the newest of its kind, and is otherwise what it was.
Late(c, kinds) == [c EXCEPT !.fresh = @ /\ c.kind \notin kinds]

LEMMA OvertakesOne ==
    ASSUME NEW c \in ConsoleCall, NEW kinds
    PROVE  /\ Late(c, kinds) \in ConsoleCall /\ Late(c, kinds).n = c.n
           /\ Late(c, kinds).kind = c.kind /\ Late(c, kinds).prog = c.prog
           /\ c.kind \notin kinds => Late(c, kinds) = c
           /\ Late(c, kinds).fresh => c.kind \notin kinds
  <1>1. PICK f \in BOOLEAN : f = (c.fresh /\ c.kind \notin kinds)
    OBVIOUS
  <1>2. PICK d : d = [c EXCEPT !.fresh = f]
    OBVIOUS
  <1>3. d \in ConsoleCall /\ d.n = c.n /\ d.kind = c.kind /\ d.prog = c.prog
    BY <1>2 DEF ConsoleCall
  <1>4. d.fresh = f
    BY <1>2 DEF ConsoleCall
  <1>5. f = c.fresh => d = c
    BY <1>2 DEF ConsoleCall
  <1>6. c.fresh \in BOOLEAN
    BY DEF ConsoleCall
  <1>7. Late(c, kinds) = d
    BY <1>1, <1>2 DEF Late
  <1> QED BY <1>1, <1>3, <1>4, <1>5, <1>6, <1>7

LEMMA OvertakesAll ==
    ASSUME NEW cs, RequestsOK(cs), NEW kinds
    PROVE  LET o == Pages!Overtaken(cs, kinds)
           IN  /\ RequestsOK(o)
               /\ \A others : others \cap kinds = {} => Among(o, others) = Among(cs, others)
               /\ \A K : Numbers(Among(o, K)) = Numbers(Among(cs, K))
               /\ \A c \in o : c.fresh => c.kind \notin kinds
               /\ NoUsers(cs) => NoUsers(o)
  <1> DEFINE o == Pages!Overtaken(cs, kinds)
  <1>1. o = {Late(c, kinds) : c \in cs}
    BY DEF Pages!Overtaken, Late
  <1>2. \A c \in cs : /\ c \in ConsoleCall /\ Late(c, kinds) \in ConsoleCall /\ Late(c, kinds).n = c.n
                      /\ Late(c, kinds).kind = c.kind /\ Late(c, kinds).prog = c.prog
                      /\ c.kind \notin kinds => Late(c, kinds) = c
                      /\ Late(c, kinds).fresh => c.kind \notin kinds
    BY OvertakesOne DEF RequestsOK, RequestOK
  <1>3. IsFiniteSet(o)
    <2> DEFINE f == [c \in cs |-> Late(c, kinds)]
    <2>1. f \in Surjection(cs, o)
      BY <1>1 DEF Surjection
    <2> HIDE DEF f
    <2> QED BY <2>1, FS_Surjection DEF RequestsOK
  <1> HIDE DEF o
  <1>4. RequestsOK(o)
    BY <1>1, <1>2, <1>3 DEF RequestsOK, RequestOK
  <1>5. ASSUME NEW others, others \cap kinds = {} PROVE Among(o, others) = Among(cs, others)
    BY <1>1, <1>2, <1>5 DEF Among
  <1>6. ASSUME NEW K PROVE Numbers(Among(o, K)) = Numbers(Among(cs, K))
    BY <1>1, <1>2 DEF Among, Numbers
  <1>7. \A c \in o : c.fresh => c.kind \notin kinds
    BY <1>1, <1>2
  <1>8. NoUsers(cs) => NoUsers(o)
    BY <1>1, <1>2 DEF NoUsers
  <1> QED BY <1>4, <1>5, <1>6, <1>7, <1>8 DEF o

-----------------------------------------------------------------------------
\* What is the same of a page for the flags and the list.
SamePage(pg, old) ==
    /\ pg.load = old.load /\ pg.listed = old.listed /\ pg.fetching = old.fetching
    /\ pg.inFlight = old.inFlight /\ pg.statusBusy = old.statusBusy

LEMMA ReportKinds == Pages!Reporting = {"report", "part"} /\ Pages!Listing = {"list", "users"}
  BY DEF Pages!Reporting, Pages!Listing

LEMMA AnotherPage ==
    ASSUME NEW pg \in ConsoleRow, NEW old, NEW cs, NEW progs, NEW miss, SamePage(pg, old)
    PROVE  /\ ConsoleBase(old, cs, progs) => ConsoleBase(pg, cs, progs)
           /\ ConsoleState(old, cs, progs, miss) => ConsoleState(pg, cs, progs, miss)
  BY DEF SamePage, ConsoleBase, ConsoleState, ReportFlags, StatusFlags, ListOK

\* A request of another kind leaves the flags.
LEMMA SendKeepsBase ==
    ASSUME NEW pg, NEW cs, NEW progs, ConsoleBase(pg, cs, progs),
           NEW c, RequestOK(c), c.kind \notin Pages!Reporting \cup {"status"},
           ~RoleAdmin => c.kind # "users"
    PROVE  ConsoleBase(pg, Pages!Send(cs, c), progs)
  <1>1. PICK d : /\ Pages!Send(cs, c) = cs \cup {d} /\ d.n \notin Numbers(cs)
                 /\ d.kind = c.kind /\ d.fresh = c.fresh /\ d.answer = c.answer
                 /\ RequestsOK(cs \cup {d})
    BY SendsOne DEF ConsoleBase
  <1>2. PICK new : new = cs \cup {d}
    OBVIOUS
  <1>3. /\ Among(new, Pages!Reporting) = Among(cs, Pages!Reporting)
        /\ Among(new, {"status"}) = Among(cs, {"status"})
    BY <1>1, <1>2 DEF Among
  <1>4. ~RoleAdmin => NoUsers(new)
    BY <1>1, <1>2 DEF ConsoleBase, NoUsers
  <1> QED BY <1>1, <1>2, <1>3, <1>4 DEF ConsoleBase, ReportFlags, StatusFlags

LEMMA SendKeeps ==
    ASSUME NEW pg, NEW cs, NEW progs, NEW miss, ConsoleState(pg, cs, progs, miss),
           NEW c, RequestOK(c), c.kind \notin Pages!Reporting \cup {"status", "users"}, c.answer = "none"
    PROVE  ConsoleState(pg, Pages!Send(cs, c), progs, miss)
  <1>1. ConsoleBase(pg, Pages!Send(cs, c), progs)
    BY SendKeepsBase DEF ConsoleState
  <1>2. PICK d : Pages!Send(cs, c) = cs \cup {d} /\ d.kind = c.kind /\ d.fresh = c.fresh /\ d.answer = c.answer
    <2>1. RequestsOK(cs)
      BY DEF ConsoleBase, ConsoleState
    <2>2. PICK d : /\ Pages!Send(cs, c) = cs \cup {d} /\ d.n \notin Numbers(cs)
                   /\ d.kind = c.kind /\ d.fresh = c.fresh /\ d.answer = c.answer
                   /\ RequestsOK(cs \cup {d})
      BY <2>1, SendsOne
    <2> QED BY <2>2
  <1>3. ASSUME ListOK(pg, Among(cs, OfList), progs, miss)
        PROVE  ListOK(pg, Among(cs \cup {d}, OfList), progs, miss)
    <2>1. PICK a, b : a = Among(cs, OfList) /\ b = Among(cs \cup {d}, OfList)
      OBVIOUS
    <2>2. a \subseteq b /\ b \subseteq a \cup {d}
      BY <2>1 DEF Among
    <2>3. d.answer = "none"
      BY <1>2
    <2>4. Dirty(a) <=> Dirty(b)
      BY <2>2, <2>3 DEF Dirty
    <2>5. NoneFresh(b) => NoneFresh(a)
      BY <2>2 DEF NoneFresh
    <2> QED BY <1>3, <2>1, <2>2, <2>3, <2>4, <2>5 DEF ListOK
  <1> QED BY <1>1, <1>2, <1>3 DEF ConsoleState

\* The list is asked for anew, and what was asked before is overtaken.
LEMMA ListsAnew ==
    ASSUME NEW pg, NEW cs, NEW progs, NEW miss, ConsoleBase(pg, cs, progs)
    PROVE  ConsoleState(pg, Pages!ListPrograms(cs), progs, miss)
  <1>1. PICK o : o = Pages!Overtaken(cs, Pages!Listing)
    OBVIOUS
  <1>2. /\ RequestsOK(o) /\ Among(o, {"status"}) = Among(cs, {"status"})
        /\ Among(o, Pages!Reporting) = Among(cs, Pages!Reporting)
        /\ \A c \in o : c.fresh => c.kind \notin Pages!Listing
        /\ NoUsers(cs) => NoUsers(o)
    <2>1. Pages!Listing \cap {"status"} = {} /\ Pages!Listing \cap Pages!Reporting = {}
      BY ReportKinds
    <2>2. RequestsOK(cs)
      BY DEF ConsoleBase
    <2> QED BY <1>1, <2>1, <2>2, OvertakesAll
  <1>3. ConsoleBase(pg, o, progs)
    BY <1>2 DEF ConsoleBase, ReportFlags, StatusFlags
  <1>4. PICK c : /\ c = Pages!Request("list", None, "programs")
                 /\ RequestOK(c) /\ c.kind = "list" /\ c.fresh /\ c.answer = "none"
    BY AsksFor, KindsAre DEF Bare
  <1>5. ConsoleBase(pg, Pages!Send(o, c), progs)
    BY <1>3, <1>4, SendKeepsBase, ReportKinds
  <1>6. PICK d : Pages!Send(o, c) = o \cup {d} /\ d.kind = "list" /\ d.fresh /\ d.answer = "none"
    <2>1. PICK d : /\ Pages!Send(o, c) = o \cup {d} /\ d.n \notin Numbers(o)
                   /\ d.kind = c.kind /\ d.fresh = c.fresh /\ d.answer = c.answer
                   /\ RequestsOK(o \cup {d})
      BY <1>2, <1>4, SendsOne
    <2> QED BY <1>4, <2>1
  <1>7. ListOK(pg, Among(o \cup {d}, OfList), progs, miss)
    <2>1. PICK b : b = Among(o \cup {d}, OfList)
      OBVIOUS
    <2>2. b \subseteq o \cup {d} /\ d \in b
      BY <1>6, <2>1 DEF Among, OfList
    <2>3. ~ NoneFresh(b)
      BY <1>6, <2>2 DEF NoneFresh
    <2>4. \A e \in b : e.kind = "list" /\ e.fresh => e.answer = "none"
      BY <1>2, <1>6, <2>2, ReportKinds
    <2> QED BY <2>1, <2>3, <2>4 DEF ListOK
  <1> QED BY <1>1, <1>4, <1>5, <1>6, <1>7 DEF ConsoleState, Pages!ListPrograms

\* The reports are asked for anew.
LEMMA ReportsAnew ==
    ASSUME NEW pg, NEW cs, NEW progs, NEW miss, ConsoleState(pg, cs, progs, miss), NEW r, NEW p \in Program
    PROVE  ConsoleState(Pages!Fetching(pg), Pages!FetchReports(cs, r, p), progs, miss)
  <1>1. PICK o : o = Pages!Overtaken(cs, Pages!Reporting)
    OBVIOUS
  <1>2. /\ RequestsOK(o) /\ Among(o, {"status"}) = Among(cs, {"status"})
        /\ Among(o, OfList) = Among(cs, OfList)
        /\ Numbers(Among(o, Pages!Reporting)) = Numbers(Among(cs, Pages!Reporting))
        /\ \A c \in o : c.fresh => c.kind \notin Pages!Reporting
        /\ NoUsers(cs) => NoUsers(o)
    <2>1. {"status"} \cap Pages!Reporting = {} /\ OfList \cap Pages!Reporting = {}
      BY ReportKinds DEF OfList
    <2>2. RequestsOK(cs)
      BY DEF ConsoleBase, ConsoleState
    <2> QED BY <1>1, <2>1, <2>2, OvertakesAll
  <1>3. PICK kind \in {"report", "part"} : kind = IF r.cursor /\ r.summary # {} THEN "part" ELSE "report"
    OBVIOUS
  <1>4. PICK c : /\ c = Pages!Request(kind, p, "reports")
                 /\ RequestOK(c) /\ c.kind = kind /\ c.fresh /\ c.answer = "none"
    <2>1. "reports" \in Pages!Sections /\ kind \in Pages!Kinds /\ p \in Program \cup {None}
      BY KindsAre DEF Pages!Sections
    <2> QED BY <2>1, AsksFor
  <1>5. PICK d : /\ Pages!Send(o, c) = o \cup {d} /\ d.n \notin Numbers(o)
                 /\ d.kind = kind /\ d.fresh /\ RequestsOK(o \cup {d})
    BY <1>2, <1>4, SendsOne
  <1>6. PICK new : new = o \cup {d} /\ new = Pages!FetchReports(cs, r, p)
    BY <1>1, <1>3, <1>4, <1>5 DEF Pages!FetchReports
  <1>7. PICK now_ : now_ = Pages!Fetching(pg)
    OBVIOUS
  <1>8. /\ now_ \in ConsoleRow /\ now_.fetching /\ now_.inFlight = pg.inFlight + 1
        /\ now_.load = pg.load /\ now_.listed = pg.listed /\ now_.statusBusy = pg.statusBusy
    <2>1. pg \in ConsoleRow
      BY DEF ConsoleBase, ConsoleState
    <2>2. PICK i \in Nat : i = pg.inFlight + 1
      BY <2>1 DEF ConsoleRow
    <2>3. PICK mid : mid = [pg EXCEPT !.fetching = TRUE]
      OBVIOUS
    <2>4. mid \in ConsoleRow /\ mid.fetching /\ mid.load = pg.load /\ mid.listed = pg.listed /\ mid.statusBusy = pg.statusBusy
      BY <2>1, <2>3 DEF ConsoleRow
    <2>5. now_ = [mid EXCEPT !.inFlight = i]
      BY <1>7, <2>1, <2>2, <2>3 DEF Pages!Fetching, ConsoleRow
    <2> QED BY <2>2, <2>4, <2>5 DEF ConsoleRow
  <1>9. /\ Among(new, Pages!Reporting) = Among(o, Pages!Reporting) \cup {d}
        /\ Among(new, {"status"}) = Among(o, {"status"}) /\ Among(new, OfList) = Among(o, OfList)
    BY <1>5, <1>6, ReportKinds DEF Among, OfList
  <1>10. ReportFlags(now_, new)
    <2>1. PICK a : a = Among(o, Pages!Reporting)
      OBVIOUS
    <2>2. \A c1 \in a : ~c1.fresh
      BY <1>2, <2>1 DEF Among
    <2>3. IsFiniteSet(Numbers(a))
      <3>1. IsFiniteSet(a) /\ \A x, y \in a : x.n = y.n => x = y
        BY <1>2, <2>1, FS_Subset DEF RequestsOK, Among
      <3> DEFINE f == [x \in a |-> x.n]
      <3>2. f \in Surjection(a, Numbers(a))
        BY DEF Surjection, Numbers
      <3> HIDE DEF f
      <3> QED BY <3>1, <3>2, FS_Surjection
    <2>4. Numbers(a \cup {d}) = Numbers(a) \cup {d.n} /\ d.n \notin Numbers(a)
      BY <1>5, <2>1 DEF Numbers, Among
    <2>5. Cardinality(Numbers(a \cup {d})) = Cardinality(Numbers(a)) + 1
      BY <2>3, <2>4, FS_AddElement
    <2>6. pg.inFlight <= Cardinality(Numbers(a)) /\ pg.inFlight \in Nat /\ Cardinality(Numbers(a)) \in Nat
      BY <1>2, <2>1, <2>3, FS_CardinalityType DEF ConsoleState, ConsoleBase, ReportFlags, ConsoleRow
    <2>7. now_.inFlight <= Cardinality(Numbers(a \cup {d}))
      BY <1>8, <2>5, <2>6
    <2> QED BY <1>5, <1>8, <1>9, <2>1, <2>2, <2>7 DEF ReportFlags
  <1>11. StatusFlags(now_, new) /\ (~RoleAdmin => NoUsers(new))
    BY <1>2, <1>5, <1>6, <1>8, <1>9 DEF StatusFlags, ConsoleBase, ConsoleState, NoUsers
  <1>12. ~RoleAdmin => ListOK(now_, Among(new, OfList), progs, miss)
    BY <1>2, <1>8, <1>9 DEF ListOK, ConsoleState
  <1> QED BY <1>5, <1>6, <1>7, <1>8, <1>10, <1>11, <1>12 DEF ConsoleState, ConsoleBase

-----------------------------------------------------------------------------
\* What the effects of the page do after a step.

LEMMA PanelOvertaken ==
    ASSUME NEW pg, NEW cs, NEW progs, NEW miss, ConsoleState(pg, cs, progs, miss), NEW kinds \in SUBSET {"panel", "password"}
    PROVE  ConsoleState(pg, Pages!Overtaken(cs, kinds), progs, miss)
  <1>1. PICK o : o = Pages!Overtaken(cs, kinds)
    OBVIOUS
  <1>2. /\ RequestsOK(o) /\ Among(o, {"status"}) = Among(cs, {"status"})
        /\ Among(o, OfList) = Among(cs, OfList)
        /\ Among(o, Pages!Reporting) = Among(cs, Pages!Reporting)
        /\ NoUsers(cs) => NoUsers(o)
    <2>1. {"status"} \cap kinds = {} /\ OfList \cap kinds = {} /\ Pages!Reporting \cap kinds = {}
      BY ReportKinds DEF OfList
    <2>2. RequestsOK(cs)
      BY DEF ConsoleBase, ConsoleState
    <2> QED BY <1>1, <2>1, <2>2, OvertakesAll
  <1> QED BY <1>1, <1>2 DEF ConsoleState, ConsoleBase, ReportFlags, StatusFlags

LEMMA HomeIs == Pages!Home \in Pages!Urls /\ Pages!Home.prog = None /\ Pages!Home.section = "programs"
  BY DEF Pages!Home, Pages!Urls

\* The address is followed: nothing is changed that the flags are about, and what is opened is a program.
LEMMA RoutedOK ==
    ASSUME NEW pg \in ConsoleRow
    PROVE  LET r == Pages!Routed(pg)
           IN  /\ r \in ConsoleRow /\ SamePage(r, pg)
               /\ Pages!Opens(pg, r) => r.url.prog \in Program /\ r.url.section \in Pages!Sections
  <1>1. PICK a : a = [pg EXCEPT !.selected = None, !.detail = None, !.section = "programs"]
    OBVIOUS
  <1>2. a \in ConsoleRow /\ SamePage(a, pg) /\ a.url = pg.url /\ a.loading = pg.loading
    BY <1>1 DEF ConsoleRow, SamePage
  <1>3. PICK r : r = Pages!Routed(pg)
    OBVIOUS
  <1>4. CASE pg.load # "ready"
    <2>1. r = pg
      BY <1>3, <1>4 DEF Pages!Routed
    <2> QED BY <1>3, <2>1 DEF SamePage, Pages!Opens
  <1>5. CASE pg.load = "ready" /\ pg.url = Pages!Home
    <2>1. r = [a EXCEPT !.suppress = FALSE, !.loading = Pages!Home]
      BY <1>1, <1>3, <1>5 DEF Pages!Routed
    <2>2. r \in ConsoleRow /\ SamePage(r, a) /\ r.loading = Pages!Home
      BY <1>2, <2>1, HomeIs DEF ConsoleRow, SamePage
    <2> QED BY <1>2, <1>3, <2>2 DEF SamePage, Pages!Opens
  <1>6. CASE pg.load = "ready" /\ pg.url # Pages!Home /\ pg.suppress
    <2>1. PICK s \in BOOLEAN : r = [pg EXCEPT !.suppress = s]
      BY <1>3, <1>6 DEF Pages!Routed
    <2>2. r \in ConsoleRow /\ SamePage(r, pg) /\ r.loading = pg.loading
      BY <2>1 DEF ConsoleRow, SamePage
    <2> QED BY <1>3, <2>2 DEF Pages!Opens
  <1>7. CASE pg.load = "ready" /\ pg.url # Pages!Home /\ ~pg.suppress
    <2>1. \/ r = pg
          \/ r = [a EXCEPT !.url = Pages!Home, !.loading = Pages!Home]
          \/ pg.url.prog \in pg.listed /\ r = [Pages!Opening(pg, pg.url.prog) EXCEPT !.loading = pg.url]
      BY <1>1, <1>3, <1>7 DEF Pages!Routed, Pages!Named
    <2>2. CASE r = pg
      BY <1>3, <2>2 DEF SamePage, Pages!Opens
    <2>3. CASE r = [a EXCEPT !.url = Pages!Home, !.loading = Pages!Home]
      <3>1. r \in ConsoleRow /\ SamePage(r, a) /\ r.loading = Pages!Home
        BY <1>2, <2>3, HomeIs DEF ConsoleRow, SamePage
      <3> QED BY <1>2, <1>3, <3>1 DEF SamePage, Pages!Opens
    <2>4. CASE pg.url.prog \in pg.listed /\ r = [Pages!Opening(pg, pg.url.prog) EXCEPT !.loading = pg.url]
      <3>1. PICK p \in Program : p = pg.url.prog
        BY <2>4 DEF ConsoleRow
      <3>2. PICK o : o = [pg EXCEPT !.selected = p, !.status = None, !.summary = {}, !.cursor = FALSE]
        OBVIOUS
      <3>3. o \in ConsoleRow /\ SamePage(o, pg) /\ o.url = pg.url
        BY <3>2 DEF ConsoleRow, SamePage
      <3>4. r = [o EXCEPT !.loading = pg.url]
        BY <2>4, <3>1, <3>2 DEF Pages!Opening
      <3>5. pg.url \in Pages!Urls /\ pg.url.prog \in Program /\ pg.url.section \in Pages!Sections
        BY <1>7, <3>1 DEF ConsoleRow, Pages!Urls
      <3>6. r \in ConsoleRow /\ SamePage(r, o) /\ r.url = pg.url
        BY <3>3, <3>4, <3>5 DEF ConsoleRow, SamePage
      <3> QED BY <1>3, <3>3, <3>5, <3>6 DEF SamePage
    <2> QED BY <2>1, <2>2, <2>3, <2>4
  <1> QED BY <1>4, <1>5, <1>6, <1>7

\* The panel is of the program shown.
LEMMA PanelFollows ==
    ASSUME NEW pg \in ConsoleRow, PanelTyped(panel)
    PROVE  PanelTyped(Pages!PanelOf(pg)) /\ Pages!PanelOf(pg).prog = pg.detail
  <1>1. pg.detail \in Program \cup {None}
    BY DEF ConsoleRow
  <1> QED BY <1>1 DEF PanelTyped, Pages!PanelOf, Pages!NoPanel

LEMMA Settles ==
    ASSUME NEW pg, NEW cs, ConsoleState(pg, cs, programs', unheard'), PanelTyped(panel), Pages!Settle(pg, cs)
    PROVE  ConsoleCore'
  <1>1. PICK r : r = Pages!Routed(pg)
    OBVIOUS
  <1>2. /\ r \in ConsoleRow /\ SamePage(r, pg)
        /\ Pages!Opens(pg, r) => r.url.prog \in Program /\ r.url.section \in Pages!Sections
    BY <1>1, RoutedOK DEF ConsoleState, ConsoleBase
  <1>3. ConsoleState(r, cs, programs', unheard')
    BY <1>2, AnotherPage
  <1>4. PICK cs1 : cs1 = IF Pages!Opens(pg, r)
                         THEN Pages!Send(cs, Pages!Request("open", Pages!Named(r), r.url.section)) ELSE cs
    OBVIOUS
  <1>5. ConsoleState(r, cs1, programs', unheard')
    <2>1. CASE Pages!Opens(pg, r)
      <3>1. PICK c : /\ c = Pages!Request("open", r.url.prog, r.url.section)
                     /\ RequestOK(c) /\ c.kind = "open" /\ c.answer = "none"
        BY <1>2, <2>1, AsksFor, KindsAre
      <3>2. ConsoleState(r, Pages!Send(cs, c), programs', unheard')
        BY <1>3, <3>1, SendKeeps, ReportKinds
      <3> QED BY <1>4, <2>1, <3>1, <3>2 DEF Pages!Named
    <2>2. CASE ~ Pages!Opens(pg, r)
      BY <1>3, <1>4, <2>2
    <2> QED BY <2>1, <2>2
  <1>6. PICK view \in BOOLEAN :
            view = (/\ r.section = "reports" /\ r.selected # None
                    /\ r.section # consolePage.section \/ r.selected # consolePage.selected)
    OBVIOUS
  <1>7. PICK pg2, cs2 : /\ pg2 = IF view THEN Pages!Fetching(r) ELSE r
                        /\ cs2 = IF view THEN Pages!FetchReports(cs1, r, r.selected) ELSE cs1
    OBVIOUS
  <1>8. ConsoleState(pg2, cs2, programs', unheard') /\ pg2.detail = r.detail
    <2>1. CASE view
      <3>1. r.selected \in Program
        BY <1>2, <1>6, <2>1 DEF ConsoleRow
      <3>2. Pages!Fetching(r).detail = r.detail
        BY <1>2 DEF Pages!Fetching, ConsoleRow
      <3> QED BY <1>5, <1>7, <2>1, <3>1, <3>2, ReportsAnew
    <2>2. CASE ~view
      BY <1>5, <1>7, <2>2
    <2> QED BY <2>1, <2>2
  <1>9. PICK cs3 :
            cs3 = IF r.detail = panel.prog THEN cs2
                  ELSE LET o == Pages!Overtaken(cs2, {"panel"} \cup (IF r.detail = None THEN {"password"} ELSE {}))
                       IN  IF r.detail = None THEN o
                           ELSE Pages!Send(o, Pages!Request("panel", r.detail, "overview"))
    OBVIOUS
  <1>10. ConsoleState(pg2, cs3, programs', unheard')
    <2>1. PICK kinds \in SUBSET {"panel", "password"} :
              kinds = {"panel"} \cup (IF r.detail = None THEN {"password"} ELSE {})
      OBVIOUS
    <2>2. PICK o : o = Pages!Overtaken(cs2, kinds)
      OBVIOUS
    <2>3. ConsoleState(pg2, o, programs', unheard')
      BY <1>8, <2>2, PanelOvertaken
    <2>4. CASE r.detail # panel.prog /\ r.detail # None
      <3>1. r.detail \in Program
        BY <1>2, <2>4 DEF ConsoleRow
      <3>2. PICK c : /\ c = Pages!Request("panel", r.detail, "overview")
                     /\ RequestOK(c) /\ c.kind = "panel" /\ c.answer = "none"
        <4>1. "overview" \in Pages!Sections
          BY DEF Pages!Sections
        <4> QED BY <3>1, <4>1, AsksFor, KindsAre
      <3>3. ConsoleState(pg2, Pages!Send(o, c), programs', unheard')
        BY <2>3, <3>2, SendKeeps, ReportKinds
      <3> QED BY <1>9, <2>1, <2>2, <2>4, <3>2, <3>3
    <2> QED BY <1>8, <1>9, <2>1, <2>2, <2>3, <2>4
  <1>11. /\ consolePage' = pg2 /\ requests' = cs3 /\ panel' = Pages!PanelOf(r)
    BY <1>1, <1>4, <1>6, <1>7, <1>9 DEF Pages!Settle
  <1>12. PanelTyped(panel') /\ panel'.prog = consolePage'.detail
    BY <1>2, <1>8, <1>11, PanelFollows
  <1>13. ConsoleState(consolePage', requests', programs', unheard')
    BY <1>10, <1>11
  <1> QED BY <1>12, <1>13 DEF ConsoleCore, ConsoleState, ConsoleBase, ListOK, ReportFlags, StatusFlags,
                              PanelTyped, Among, NoUsers, Dirty, NoneFresh, RequestsOK, RequestOK, Numbers

LEMMA Rests ==
    ASSUME NEW pg, NEW cs, ConsoleState(pg, cs, programs', unheard'), PanelTyped(panel), panel.prog = pg.detail,
           Pages!Rest(pg, cs)
    PROVE  ConsoleCore'
  BY DEF ConsoleCore, Pages!Rest

\* Who is sent back to the page that signs in: what was under way about the list and the reports is
\* overtaken, and a status that is still asked for holds back its timer until it is answered.
LEMMA SignedOut ==
    ASSUME NEW pg \in ConsoleRow, NEW cs, RequestsOK(cs), StatusFlags(pg, cs), ~RoleAdmin => NoUsers(cs),
           PanelTyped(panel), programs' \subseteq Program, Pages!AuthExpired(pg, cs)
    PROVE  ConsoleCore'
  <1>1. PICK kinds : kinds = Pages!Listing \cup Pages!Reporting
    OBVIOUS
  <1>2. PICK o : o = Pages!Overtaken(cs, kinds)
    OBVIOUS
  <1>3. /\ RequestsOK(o) /\ Among(o, {"status"}) = Among(cs, {"status"})
        /\ \A c \in o : c.fresh => c.kind \notin kinds
        /\ NoUsers(cs) => NoUsers(o)
    <2>1. {"status"} \cap kinds = {}
      BY <1>1, ReportKinds
    <2> QED BY <1>2, <2>1, OvertakesAll
  <1>4. PICK out : out = [Pages!SignedOutPage(pg.url) EXCEPT !.statusBusy = pg.statusBusy]
    OBVIOUS
  <1>5. /\ out \in ConsoleRow /\ out.load = "login" /\ ~out.fetching /\ out.inFlight = 0
        /\ out.statusBusy = pg.statusBusy
    <2>1. pg.url \in Pages!Urls /\ pg.statusBusy \in BOOLEAN
      BY DEF ConsoleRow
    <2>2. PICK m : m = Pages!SignedOutPage(pg.url)
      OBVIOUS
    <2>3. m \in ConsoleRow /\ m.load = "login" /\ m.fetching = FALSE /\ m.inFlight = 0
      BY <2>1, <2>2, HomeIs DEF Pages!SignedOutPage, ConsoleRow
    <2> QED BY <1>4, <2>1, <2>2, <2>3 DEF ConsoleRow
  <1>6. ReportFlags(out, o)
    <2>1. \A c \in Among(o, Pages!Reporting) : ~c.fresh
      BY <1>1, <1>3 DEF Among
    <2>2. IsFiniteSet(Numbers(Among(o, Pages!Reporting)))
      <3>1. IsFiniteSet(Among(o, Pages!Reporting))
        BY <1>3, FS_Subset DEF RequestsOK, Among
      <3> DEFINE f == [x \in Among(o, Pages!Reporting) |-> x.n]
      <3>2. f \in Surjection(Among(o, Pages!Reporting), Numbers(Among(o, Pages!Reporting)))
        BY DEF Surjection, Numbers
      <3> HIDE DEF f
      <3> QED BY <3>1, <3>2, FS_Surjection
    <2>3. Cardinality(Numbers(Among(o, Pages!Reporting))) \in Nat
      BY <2>2, FS_CardinalityType
    <2>4. out.inFlight <= Cardinality(Numbers(Among(o, Pages!Reporting)))
      BY <1>5, <2>3
    <2> QED BY <1>5, <2>1, <2>4 DEF ReportFlags
  <1>7. StatusFlags(out, o)
    BY <1>3, <1>5 DEF StatusFlags
  <1>8. ListOK(out, Among(o, OfList), programs', unheard')
    <2>1. \A c \in Among(o, OfList) : c.kind = "list" => ~c.fresh
      BY <1>1, <1>3, ReportKinds DEF Among
    <2>2. out.load # "ready"
      BY <1>5
    <2> QED BY <2>1, <2>2 DEF ListOK
  <1>9. ConsoleState(out, o, programs', unheard')
    BY <1>3, <1>5, <1>6, <1>7, <1>8 DEF ConsoleState, ConsoleBase
  <1>10. Pages!Settle(out, o)
    BY <1>1, <1>2, <1>4 DEF Pages!AuthExpired
  <1> QED BY <1>9, <1>10, Settles

\* What is left when a request is answered.
LEMMA WithoutIt ==
    ASSUME ConsoleCore, NEW c \in requests, NEW cs, cs = requests \ {c}
    PROVE  /\ RequestsOK(cs) /\ consolePage \in ConsoleRow /\ programs \subseteq Program
           /\ RequestOK(c) /\ (~RoleAdmin => NoUsers(cs) /\ c.kind # "users")
           /\ c.kind # "status" => StatusFlags(consolePage, cs)
           /\ c.kind \notin Pages!Reporting => ReportFlags(consolePage, cs)
           /\ c.kind \notin OfList => Among(cs, OfList) = Among(requests, OfList)
           /\ PanelTyped(panel) /\ panel.prog = consolePage.detail
  <1>1. RequestsOK(requests)
    BY DEF ConsoleCore, ConsoleState, ConsoleBase
  <1>2. RequestsOK(cs)
    BY <1>1, FS_Subset DEF RequestsOK
  <1>3. c.kind # "status" => Among(cs, {"status"}) = Among(requests, {"status"})
    BY DEF Among
  <1>4. c.kind \notin Pages!Reporting => Among(cs, Pages!Reporting) = Among(requests, Pages!Reporting)
    BY DEF Among
  <1>5. c.kind \notin OfList => Among(cs, OfList) = Among(requests, OfList)
    BY DEF Among
  <1>6. RequestOK(c)
    BY <1>1 DEF RequestsOK
  <1> QED BY <1>2, <1>3, <1>4, <1>5, <1>6 DEF ConsoleCore, ConsoleState, ConsoleBase, NoUsers, ReportFlags, StatusFlags

\* The flags and the list do not mind the end of a request of any other kind.
LEMMA OthersEnd ==
    ASSUME ConsoleCore, NEW c \in requests, NEW cs, cs = requests \ {c},
           c.kind \notin Pages!Reporting \cup {"status"} \cup OfList, UNCHANGED programs, unheard => unheard'
    PROVE  ConsoleState(consolePage, cs, programs', unheard')
  <1>1. ~RoleAdmin => ListOK(consolePage, Among(requests, OfList), programs, unheard)
    BY DEF ConsoleCore, ConsoleState
  <1>2. ~RoleAdmin => ListOK(consolePage, Among(requests, OfList), programs, unheard')
    BY <1>1 DEF ListOK
  <1> QED BY <1>2, WithoutIt DEF ConsoleState, ConsoleBase

LEMMA ListedStep ==
    ASSUME ConsoleCore, NEW c \in requests, NEW cs, cs = requests \ {c}, c.kind = "list", c.answer # "none",
           UNCHANGED programs, unheard => unheard', Pages!Listed(c, cs)
    PROVE  ConsoleCore'
  <1>1. /\ RequestsOK(cs) /\ consolePage \in ConsoleRow /\ programs' \subseteq Program
        /\ c \in ConsoleCall /\ (~RoleAdmin => NoUsers(cs))
        /\ StatusFlags(consolePage, cs) /\ ReportFlags(consolePage, cs)
        /\ PanelTyped(panel) /\ panel.prog = consolePage.detail
    BY WithoutIt, ReportKinds DEF RequestOK
  <1>2. ConsoleBase(consolePage, cs, programs')
    BY <1>1 DEF ConsoleBase
  <1>3. PICK a, b : a = Among(requests, OfList) /\ b = Among(cs, OfList)
    OBVIOUS
  <1>4. b = a \ {c} /\ c \in a
    BY <1>3 DEF Among, OfList
  <1>5. Dirty(a) <=> Dirty(b)
    BY <1>4 DEF Dirty
  <1>6. ~RoleAdmin => ListOK(consolePage, a, programs, unheard)
    BY <1>3 DEF ConsoleCore, ConsoleState
  <1>7. CASE ~c.fresh
    <2>1. NoneFresh(b) => NoneFresh(a)
      BY <1>4, <1>7 DEF NoneFresh
    <2>2. ~RoleAdmin => ListOK(consolePage, b, programs', unheard')
      BY <1>4, <1>5, <1>6, <2>1 DEF ListOK
    <2>3. ConsoleState(consolePage, cs, programs', unheard')
      BY <1>2, <1>3, <2>2 DEF ConsoleState
    <2>4. Pages!Rest(consolePage, cs)
      BY <1>7 DEF Pages!Listed, Pages!Heeded
    <2> QED BY <1>1, <2>3, <2>4, Rests
  <1>8. CASE c.fresh /\ c.answer = "auth"
    <2>1. Pages!AuthExpired(consolePage, cs)
      BY <1>8 DEF Pages!Listed, Pages!Heeded
    <2> QED BY <1>1, <2>1, SignedOut
  <1>9. CASE c.fresh /\ c.answer = "error"
    <2>1. PICK pg : pg = [consolePage EXCEPT !.load = "error"]
      OBVIOUS
    <2>2. /\ pg \in ConsoleRow /\ pg.load = "error" /\ pg.fetching = consolePage.fetching
          /\ pg.inFlight = consolePage.inFlight /\ pg.statusBusy = consolePage.statusBusy
      BY <1>1, <2>1 DEF ConsoleRow
    <2>3. ConsoleBase(pg, cs, programs')
      BY <1>2, <2>2 DEF ConsoleBase, ReportFlags, StatusFlags
    <2>4. ~RoleAdmin => ListOK(pg, b, programs', unheard')
      BY <1>4, <1>5, <1>6, <2>2 DEF ListOK
    <2>5. ConsoleState(pg, cs, programs', unheard')
      BY <1>3, <2>3, <2>4 DEF ConsoleState
    <2>6. Pages!Settle(pg, cs)
      BY <1>9, <2>1 DEF Pages!Listed, Pages!Heeded
    <2> QED BY <1>1, <2>5, <2>6, Settles
  <1>10. CASE c.fresh /\ c.answer = "ok"
    <2>1. PICK pg : pg = [consolePage EXCEPT !.listed = c.listed, !.identity = TRUE]
      OBVIOUS
    <2>2. /\ pg \in ConsoleRow /\ pg.listed = c.listed /\ pg.fetching = consolePage.fetching
          /\ pg.inFlight = consolePage.inFlight /\ pg.statusBusy = consolePage.statusBusy
      BY <1>1, <2>1 DEF ConsoleRow, ConsoleCall
    <2>3. ConsoleBase(pg, cs, programs')
      BY <1>2, <2>2 DEF ConsoleBase, ReportFlags, StatusFlags
    <2>4. CASE RoleAdmin
      <3>1. PICK d : d = [Pages!Request("users", None, "programs") EXCEPT !.fresh = c.fresh]
        OBVIOUS
      <3>2. PICK e : /\ e = Pages!Request("users", None, "programs")
                     /\ RequestOK(e) /\ e.kind = "users"
        BY AsksFor, KindsAre DEF Bare
      <3>3. RequestOK(d) /\ d.kind = "users"
        BY <1>1, <3>1, <3>2 DEF RequestOK, ConsoleCall, Bare
      <3>4. ConsoleBase(pg, Pages!Send(cs, d), programs')
        BY <2>3, <2>4, <3>3, SendKeepsBase, ReportKinds
      <3>5. Pages!Settle(pg, Pages!Send(cs, d))
        BY <1>10, <2>1, <2>4, <3>1 DEF Pages!Listed, Pages!Heeded
      <3>6. ConsoleState(pg, Pages!Send(cs, d), programs', unheard')
        BY <2>4, <3>4 DEF ConsoleState
      <3> QED BY <1>1, <3>5, <3>6, Settles
    <2>5. CASE ~RoleAdmin
      <3>1. PICK pg2 : pg2 = [pg EXCEPT !.load = "ready"]
        OBVIOUS
      <3>2. /\ pg2 \in ConsoleRow /\ pg2.listed = pg.listed /\ pg2.fetching = pg.fetching
            /\ pg2.inFlight = pg.inFlight /\ pg2.statusBusy = pg.statusBusy
        BY <2>2, <3>1 DEF ConsoleRow
      <3>3. ConsoleBase(pg2, cs, programs')
        BY <2>3, <3>2 DEF ConsoleBase, ReportFlags, StatusFlags
      <3>4. ~unheard /\ ~Dirty(a) => c.listed = programs
        BY <1>4, <1>6, <1>10, <2>5 DEF ListOK
      <3>5. ListOK(pg2, b, programs', unheard')
        BY <1>4, <1>5, <1>6, <2>2, <2>5, <3>2, <3>4 DEF ListOK
      <3>6. Pages!Settle(pg2, cs)
        BY <1>10, <2>1, <2>5, <3>1 DEF Pages!Listed, Pages!Heeded
      <3>7. ConsoleState(pg2, cs, programs', unheard')
        BY <1>3, <3>3, <3>5 DEF ConsoleState
      <3> QED BY <1>1, <3>6, <3>7, Settles
    <2> QED BY <2>4, <2>5
  <1> QED BY <1>1, <1>7, <1>8, <1>9, <1>10 DEF ConsoleCall

LEMMA UsersListedStep ==
    ASSUME ConsoleCore, NEW c \in requests, NEW cs, cs = requests \ {c}, c.kind = "users",
           UNCHANGED programs, unheard => unheard', Pages!UsersListed(c, cs)
    PROVE  ConsoleCore'
  <1>1. /\ RequestsOK(cs) /\ consolePage \in ConsoleRow /\ programs' \subseteq Program /\ RoleAdmin
        /\ StatusFlags(consolePage, cs) /\ ReportFlags(consolePage, cs)
        /\ PanelTyped(panel) /\ panel.prog = consolePage.detail
    BY WithoutIt, ReportKinds
  <1>2. ASSUME NEW l \in {"ready", "error"}, Pages!Settle([consolePage EXCEPT !.load = l], cs)
        PROVE  ConsoleCore'
    <2>1. PICK pg : pg = [consolePage EXCEPT !.load = l]
      OBVIOUS
    <2>2. /\ pg \in ConsoleRow /\ pg.fetching = consolePage.fetching
          /\ pg.inFlight = consolePage.inFlight /\ pg.statusBusy = consolePage.statusBusy
      BY <1>1, <2>1 DEF ConsoleRow
    <2>3. ConsoleState(pg, cs, programs', unheard')
      BY <1>1, <2>2 DEF ConsoleState, ConsoleBase, ReportFlags, StatusFlags
    <2> QED BY <1>1, <1>2, <2>1, <2>3, Settles
  <1>3. ConsoleState(consolePage, cs, programs', unheard')
    BY <1>1 DEF ConsoleState, ConsoleBase
  <1>4. \/ \E l \in {"ready", "error"} : Pages!Settle([consolePage EXCEPT !.load = l], cs)
        \/ Pages!Rest(consolePage, cs) \/ Pages!AuthExpired(consolePage, cs)
    BY DEF Pages!UsersListed
  <1> QED BY <1>1, <1>2, <1>3, <1>4, Rests, SignedOut

LEMMA BaseEnds ==
    ASSUME ConsoleCore, NEW c \in requests, NEW cs, cs = requests \ {c},
           c.kind \notin Pages!Reporting \cup {"status"}, UNCHANGED programs
    PROVE  ConsoleBase(consolePage, cs, programs')
  BY WithoutIt DEF ConsoleBase

\* A request that should have changed the list and failed leaves it as it was.
LEMMA ChangeFails ==
    ASSUME ConsoleCore, NEW c \in requests, NEW cs, cs = requests \ {c},
           c.kind \in {"create", "delete"}, c.answer # "ok", UNCHANGED programs, unheard => unheard'
    PROVE  ConsoleState(consolePage, cs, programs', unheard')
  <1>1. ConsoleBase(consolePage, cs, programs')
    BY BaseEnds, ReportKinds
  <1>2. PICK a, b : a = Among(requests, OfList) /\ b = Among(cs, OfList)
    OBVIOUS
  <1>3. b = a \ {c}
    BY <1>2 DEF Among
  <1>4. (Dirty(a) <=> Dirty(b)) /\ (NoneFresh(a) <=> NoneFresh(b))
    BY <1>3 DEF Dirty, NoneFresh
  <1>5. ~RoleAdmin => ListOK(consolePage, a, programs, unheard)
    BY <1>2 DEF ConsoleCore, ConsoleState
  <1>6. ~RoleAdmin => ListOK(consolePage, b, programs', unheard')
    BY <1>3, <1>4, <1>5 DEF ListOK
  <1> QED BY <1>1, <1>2, <1>6 DEF ConsoleState

LEMMA OpenedStep ==
    ASSUME ConsoleCore, NEW c \in requests, NEW cs, cs = requests \ {c}, c.kind = "open",
           UNCHANGED programs, unheard => unheard', Pages!Opened(c, cs)
    PROVE  ConsoleCore'
  <1>1. ConsoleState(consolePage, cs, programs', unheard')
    BY OthersEnd, ReportKinds DEF OfList
  <1>2. /\ RequestsOK(cs) /\ consolePage \in ConsoleRow /\ programs' \subseteq Program
        /\ RequestOK(c) /\ (~RoleAdmin => NoUsers(cs)) /\ StatusFlags(consolePage, cs)
        /\ PanelTyped(panel) /\ panel.prog = consolePage.detail
    BY WithoutIt
  <1>3. CASE c.answer = "ok"
    <2>1. PICK pg : pg = Pages!Shown(consolePage, c)
      OBVIOUS
    <2>2. c.prog \in Program /\ c.section \in Pages!Sections \cup {"programs"}
      BY <1>2 DEF RequestOK, Bare, ConsoleCall
    <2>3. pg \in ConsoleRow /\ SamePage(pg, consolePage)
      BY <1>2, <2>1, <2>2 DEF Pages!Shown, ConsoleRow, SamePage
    <2>4. ConsoleState(pg, cs, programs', unheard')
      BY <1>1, <2>3, AnotherPage
    <2> QED BY <1>2, <1>3, <2>1, <2>4, Settles DEF Pages!Opened
  <1>4. CASE c.answer # "ok"
    <2>1. Pages!AuthExpired(consolePage, cs) \/ Pages!Rest(consolePage, cs)
      BY <1>4 DEF Pages!Opened
    <2> QED BY <1>1, <1>2, <2>1, Rests, SignedOut
  <1> QED BY <1>3, <1>4

LEMMA StatusCameStep ==
    ASSUME ConsoleCore, NEW c \in requests, NEW cs, cs = requests \ {c}, c.kind = "status",
           UNCHANGED programs, unheard => unheard', Pages!StatusCame(c, cs)
    PROVE  ConsoleCore'
  <1>1. /\ RequestsOK(cs) /\ consolePage \in ConsoleRow /\ programs' \subseteq Program
        /\ RequestOK(c) /\ (~RoleAdmin => NoUsers(cs)) /\ ReportFlags(consolePage, cs)
        /\ Among(cs, OfList) = Among(requests, OfList)
        /\ PanelTyped(panel) /\ panel.prog = consolePage.detail
    BY WithoutIt, ReportKinds DEF OfList
  <1>2. PICK pg : pg = Pages!StatusDone(consolePage, c)
    OBVIOUS
  <1>3. /\ pg \in ConsoleRow /\ pg.load = consolePage.load /\ pg.listed = consolePage.listed
        /\ pg.fetching = consolePage.fetching /\ pg.inFlight = consolePage.inFlight
        /\ pg.detail = consolePage.detail /\ ~pg.statusBusy
    BY <1>1, <1>2 DEF Pages!StatusDone, ConsoleRow
  <1>4. StatusFlags(pg, cs)
    <2>1. Among(cs, {"status"}) = {}
      BY DEF ConsoleCore, ConsoleState, ConsoleBase, StatusFlags, Among
    <2> QED BY <1>3, <2>1 DEF StatusFlags
  <1>5. ConsoleState(pg, cs, programs', unheard')
    <2>1. ~RoleAdmin => ListOK(consolePage, Among(requests, OfList), programs, unheard)
      BY DEF ConsoleCore, ConsoleState
    <2>2. ~RoleAdmin => ListOK(pg, Among(cs, OfList), programs', unheard')
      BY <1>1, <1>3, <2>1 DEF ListOK
    <2> QED BY <1>1, <1>3, <1>4, <2>2 DEF ConsoleState, ConsoleBase, ReportFlags
  <1>6. CASE c.answer = "ok"
    <2>1. PICK q : q = [pg EXCEPT !.status = c.prog]
      OBVIOUS
    <2>2. q \in ConsoleRow /\ SamePage(q, pg) /\ q.detail = pg.detail
      BY <1>1, <1>3, <2>1 DEF ConsoleRow, SamePage, RequestOK, ConsoleCall
    <2>3. ConsoleState(q, cs, programs', unheard')
      BY <1>5, <2>2, AnotherPage
    <2>4. Pages!Rest(q, cs)
      BY <1>2, <1>6, <2>1 DEF Pages!StatusCame
    <2> QED BY <1>1, <1>3, <2>2, <2>3, <2>4, Rests
  <1>7. CASE c.answer # "ok"
    <2>1. Pages!AuthExpired(pg, cs) \/ Pages!Rest(pg, cs)
      BY <1>2, <1>7 DEF Pages!StatusCame
    <2> QED BY <1>1, <1>3, <1>4, <1>5, <2>1, Rests, SignedOut
  <1> QED BY <1>6, <1>7

LEMMA ReportCameStep ==
    ASSUME ConsoleCore, NEW c \in requests, NEW cs, cs = requests \ {c}, c.kind \in Pages!Reporting,
           UNCHANGED programs, unheard => unheard', Pages!ReportCame(c, cs)
    PROVE  ConsoleCore'
  <1>1. /\ RequestsOK(cs) /\ consolePage \in ConsoleRow /\ programs' \subseteq Program
        /\ RequestOK(c) /\ (~RoleAdmin => NoUsers(cs)) /\ StatusFlags(consolePage, cs)
        /\ Among(cs, OfList) = Among(requests, OfList)
        /\ PanelTyped(panel) /\ panel.prog = consolePage.detail
    BY WithoutIt, ReportKinds DEF OfList
  <1>2. PICK pg : pg = Pages!ReportDone(consolePage, c)
    OBVIOUS
  <1>3. /\ pg \in ConsoleRow /\ pg.load = consolePage.load /\ pg.listed = consolePage.listed
        /\ pg.statusBusy = consolePage.statusBusy /\ pg.detail = consolePage.detail
        /\ pg.fetching <=> consolePage.fetching /\ ~c.fresh
        /\ pg.inFlight = IF consolePage.inFlight > 0 THEN consolePage.inFlight - 1 ELSE 0
    <2>1. PICK i \in Nat : i = IF consolePage.inFlight > 0 THEN consolePage.inFlight - 1 ELSE 0
      BY <1>1 DEF ConsoleRow
    <2>2. PICK f \in BOOLEAN : f = (consolePage.fetching /\ ~c.fresh)
      OBVIOUS
    <2>3. PICK m : m = [consolePage EXCEPT !.inFlight = i]
      OBVIOUS
    <2>4. /\ m \in ConsoleRow /\ m.load = consolePage.load /\ m.listed = consolePage.listed
          /\ m.statusBusy = consolePage.statusBusy /\ m.detail = consolePage.detail
          /\ m.inFlight = i
      BY <1>1, <2>3 DEF ConsoleRow
    <2>5. pg = [m EXCEPT !.fetching = f]
      BY <1>1, <1>2, <2>1, <2>2, <2>3 DEF Pages!ReportDone, ConsoleRow
    <2> QED BY <2>1, <2>2, <2>4, <2>5 DEF ConsoleRow
  <1>4. ReportFlags(pg, cs)
    <2>1. PICK a, b : a = Among(requests, Pages!Reporting) /\ b = Among(cs, Pages!Reporting)
      OBVIOUS
    <2>2. b = a \ {c} /\ c \in a
      BY <2>1 DEF Among
    <2>3. /\ consolePage.fetching <=> \E d \in a : d.fresh
          /\ \A d, e \in a : d.fresh /\ e.fresh => d = e
          /\ consolePage.inFlight <= Cardinality(Numbers(a))
      BY <2>1 DEF ConsoleCore, ConsoleState, ConsoleBase, ReportFlags
    <2>4. IsFiniteSet(a) /\ (\A x, y \in a : x.n = y.n => x = y)
      BY <2>1, FS_Subset DEF ConsoleCore, ConsoleState, ConsoleBase, RequestsOK, Among
    <2>5. IsFiniteSet(Numbers(a))
      <3> DEFINE f == [x \in a |-> x.n]
      <3>1. f \in Surjection(a, Numbers(a))
        BY DEF Surjection, Numbers
      <3> HIDE DEF f
      <3> QED BY <2>4, <3>1, FS_Surjection
    <2>6. Numbers(b) = Numbers(a) \ {c.n} /\ c.n \in Numbers(a)
      BY <2>2, <2>4 DEF Numbers
    <2>7. Cardinality(Numbers(b)) = Cardinality(Numbers(a)) - 1 /\ IsFiniteSet(Numbers(b))
      BY <2>5, <2>6, FS_RemoveElement
    <2>8. Cardinality(Numbers(b)) \in Nat /\ Cardinality(Numbers(a)) \in Nat
      BY <2>5, <2>7, FS_CardinalityType
    <2>9. consolePage.inFlight \in Nat
      BY <1>1 DEF ConsoleRow
    <2>10. pg.inFlight <= Cardinality(Numbers(b))
      BY <1>3, <2>3, <2>7, <2>8, <2>9
    <2>11. pg.fetching <=> \E d \in b : d.fresh
      BY <1>3, <2>2, <2>3
    <2> QED BY <2>1, <2>2, <2>3, <2>10, <2>11 DEF ReportFlags
  <1>5. ConsoleState(pg, cs, programs', unheard')
    <2>1. ~RoleAdmin => ListOK(consolePage, Among(requests, OfList), programs, unheard)
      BY DEF ConsoleCore, ConsoleState
    <2>2. ~RoleAdmin => ListOK(pg, Among(cs, OfList), programs', unheard')
      BY <1>1, <1>3, <2>1 DEF ListOK
    <2>3. StatusFlags(pg, cs)
      BY <1>1, <1>3 DEF StatusFlags
    <2> QED BY <1>1, <1>3, <1>4, <2>2, <2>3 DEF ConsoleState, ConsoleBase
  <1>6. CASE c.answer = "ok" /\ c.fresh
    <2>1. PICK s : s = IF c.kind = "report" THEN {c.prog}
                       ELSE IF pg.summary = {} THEN {} ELSE pg.summary \cup {c.prog}
      OBVIOUS
    <2>2. c.prog \in Program
      BY <1>1, ReportKinds DEF RequestOK, Bare
    <2>3. s \in SUBSET Program
      BY <1>3, <2>1, <2>2 DEF ConsoleRow
    <2>4. PICK q : q = [pg EXCEPT !.summary = s, !.cursor = TRUE]
      OBVIOUS
    <2>5. q \in ConsoleRow /\ SamePage(q, pg) /\ q.detail = pg.detail
      BY <1>3, <2>3, <2>4 DEF ConsoleRow, SamePage
    <2>6. ConsoleState(q, cs, programs', unheard')
      BY <1>5, <2>5, AnotherPage
    <2>7. pg.summary = consolePage.summary
      BY <1>1, <1>2 DEF Pages!ReportDone, ConsoleRow
    <2>8. Pages!Rest(q, cs)
      BY <1>2, <1>6, <2>1, <2>4, <2>7 DEF Pages!ReportCame, Pages!Heeded
    <2> QED BY <1>1, <1>3, <2>5, <2>6, <2>8, Rests
  <1>7. CASE ~ (c.answer = "ok" /\ c.fresh)
    <2>1. Pages!AuthExpired(pg, cs) \/ Pages!Rest(pg, cs)
      BY <1>2, <1>7 DEF Pages!ReportCame, Pages!Heeded
    <2>2. StatusFlags(pg, cs)
      BY <1>1, <1>3 DEF StatusFlags
    <2> QED BY <1>1, <1>3, <1>5, <2>1, <2>2, Rests, SignedOut
  <1> QED BY <1>6, <1>7

LEMMA RefreshedStep ==
    ASSUME ConsoleCore, NEW c \in requests, NEW cs, cs = requests \ {c}, c.kind = "detail",
           UNCHANGED programs, unheard => unheard', Pages!Refreshed(c, cs)
    PROVE  ConsoleCore'
  <1>1. ConsoleState(consolePage, cs, programs', unheard')
    BY OthersEnd, ReportKinds DEF OfList
  <1>2. /\ consolePage \in ConsoleRow /\ RequestOK(c) /\ PanelTyped(panel) /\ panel.prog = consolePage.detail
    BY WithoutIt
  <1>3. CASE c.answer # "ok"
    <2>1. Pages!Rest(consolePage, cs)
      BY <1>3 DEF Pages!Refreshed
    <2> QED BY <1>1, <1>2, <2>1, Rests
  <1>4. CASE c.answer = "ok"
    <2>1. PICK pg : pg = [consolePage EXCEPT !.detail = c.prog, !.status = c.prog]
      OBVIOUS
    <2>2. c.prog \in Program
      BY <1>2 DEF RequestOK, Bare
    <2>3. pg \in ConsoleRow /\ SamePage(pg, consolePage)
      BY <1>2, <2>1, <2>2 DEF ConsoleRow, SamePage
    <2>4. ConsoleState(pg, cs, programs', unheard')
      BY <1>1, <2>3, AnotherPage
    <2>5. ConsoleState(Pages!Fetching(pg), Pages!FetchReports(cs, pg, c.prog), programs', unheard')
      BY <2>2, <2>4, ReportsAnew
    <2>6. \/ Pages!Settle(Pages!Fetching(pg), Pages!FetchReports(cs, pg, c.prog))
          \/ Pages!Settle(pg, cs)
      BY <1>4, <2>1 DEF Pages!Refreshed
    <2> QED BY <1>2, <2>4, <2>5, <2>6, Settles
  <1> QED BY <1>3, <1>4

LEMMA ActedStep ==
    ASSUME ConsoleCore, NEW c \in requests, NEW cs, cs = requests \ {c}, c.kind = "act",
           UNCHANGED programs, unheard => unheard', Pages!Acted(c, cs)
    PROVE  ConsoleCore'
  <1>1. ConsoleState(consolePage, cs, programs', unheard')
    BY OthersEnd, ReportKinds DEF OfList
  <1>2. /\ consolePage \in ConsoleRow /\ RequestOK(c) /\ PanelTyped(panel) /\ panel.prog = consolePage.detail
    BY WithoutIt
  <1>3. PICK d : /\ d = Pages!Request("detail", c.prog, c.section)
                 /\ RequestOK(d) /\ d.kind = "detail" /\ d.answer = "none"
    <2>1. c.prog \in Program /\ c.section \in Pages!Sections \cup {"programs"}
      BY <1>2 DEF RequestOK, Bare, ConsoleCall
    <2> QED BY <2>1, AsksFor, KindsAre
  <1>4. ConsoleState(consolePage, Pages!Send(cs, d), programs', unheard')
    BY <1>1, <1>3, SendKeeps, ReportKinds
  <1>5. Pages!Rest(consolePage, Pages!Send(cs, d)) \/ Pages!Rest(consolePage, cs)
    BY <1>3 DEF Pages!Acted
  <1> QED BY <1>1, <1>2, <1>4, <1>5, Rests

LEMMA SavedStep ==
    ASSUME ConsoleCore, NEW c \in requests, NEW cs, cs = requests \ {c}, c.kind = "save",
           UNCHANGED programs, unheard => unheard', Pages!Saved(c, cs)
    PROVE  ConsoleCore'
  <1>1. ConsoleState(consolePage, cs, programs', unheard')
    BY OthersEnd, ReportKinds DEF OfList
  <1>2. /\ consolePage \in ConsoleRow /\ RequestOK(c) /\ PanelTyped(panel) /\ panel.prog = consolePage.detail
    BY WithoutIt
  <1>3. PICK pg : pg = [consolePage EXCEPT !.detail = c.prog]
    OBVIOUS
  <1>4. pg \in ConsoleRow /\ SamePage(pg, consolePage)
    BY <1>2, <1>3 DEF ConsoleRow, SamePage, RequestOK, ConsoleCall
  <1>5. ConsoleState(pg, cs, programs', unheard')
    BY <1>1, <1>4, AnotherPage
  <1>6. Pages!Settle(pg, cs) \/ Pages!Rest(consolePage, cs)
    BY <1>3 DEF Pages!Saved
  <1> QED BY <1>1, <1>2, <1>5, <1>6, Rests, Settles

LEMMA RemovedStep ==
    ASSUME ConsoleCore, NEW c \in requests, NEW cs, cs = requests \ {c}, c.kind = "delete",
           UNCHANGED programs, c.answer # "ok" => (unheard => unheard'), Pages!Removed(c, cs)
    PROVE  ConsoleCore'
  <1>1. /\ consolePage \in ConsoleRow /\ PanelTyped(panel) /\ panel.prog = consolePage.detail
    BY WithoutIt
  <1>2. CASE c.answer # "ok"
    <2>1. ConsoleState(consolePage, cs, programs', unheard')
      BY <1>2, ChangeFails
    <2>2. Pages!Rest(consolePage, cs)
      BY <1>2 DEF Pages!Removed
    <2> QED BY <1>1, <2>1, <2>2, Rests
  <1>3. CASE c.answer = "ok"
    <2>1. ConsoleBase(consolePage, cs, programs')
      BY BaseEnds, ReportKinds
    <2>2. PICK pg : pg = [consolePage EXCEPT !.selected = None, !.detail = None, !.status = None, !.summary = {},
                             !.loading = Pages!Home, !.suppress = TRUE, !.url = Pages!Home]
      OBVIOUS
    <2>3. PICK m : m = [consolePage EXCEPT !.selected = None, !.detail = None, !.status = None, !.summary = {}]
      OBVIOUS
    <2>4. m \in ConsoleRow /\ SamePage(m, consolePage)
      BY <1>1, <2>3 DEF ConsoleRow, SamePage
    <2>5. pg = [m EXCEPT !.loading = Pages!Home, !.suppress = TRUE, !.url = Pages!Home]
      BY <2>2, <2>3
    <2>6. pg \in ConsoleRow /\ SamePage(pg, m)
      BY <2>4, <2>5, HomeIs DEF ConsoleRow, SamePage
    <2>7. SamePage(pg, consolePage)
      BY <2>4, <2>6 DEF SamePage
    <2>8. ConsoleState(pg, Pages!ListPrograms(cs), programs', unheard')
      BY <2>1, <2>6, <2>7, AnotherPage, ListsAnew
    <2>9. Pages!Settle(pg, Pages!ListPrograms(cs))
      BY <1>3, <2>2 DEF Pages!Removed
    <2> QED BY <1>1, <2>8, <2>9, Settles
  <1> QED BY <1>2, <1>3

LEMMA PanelStep ==
    ASSUME ConsoleCore, NEW c \in requests, NEW cs, cs = requests \ {c},
           UNCHANGED programs, unheard => unheard',
           \/ c.kind = "panel" /\ Pages!AccessCame(c, cs)
           \/ c.kind = "password" /\ Pages!PasswordSaved(c, cs)
    PROVE  ConsoleCore'
  <1>1. ConsoleState(consolePage, cs, programs', unheard')
    BY OthersEnd, ReportKinds DEF OfList
  <1>2. /\ RequestsOK(cs) /\ consolePage \in ConsoleRow /\ programs' \subseteq Program
        /\ RequestOK(c) /\ (~RoleAdmin => NoUsers(cs)) /\ StatusFlags(consolePage, cs)
        /\ PanelTyped(panel) /\ panel.prog = consolePage.detail
    BY WithoutIt
  <1>3. CASE Pages!AuthExpired(consolePage, cs) \/ Pages!Rest(consolePage, cs)
    BY <1>1, <1>2, <1>3, Rests, SignedOut
  <1>4. CASE /\ consolePage' = consolePage /\ requests' = cs
             /\ \/ panel' = panel \/ panel' = [panel EXCEPT !.access = c.prog]
                \/ panel' = [panel EXCEPT !.pending = FALSE]
                \/ c.prog = panel.prog /\ panel' = [panel EXCEPT !.pending = FALSE, !.access = c.prog, !.shown = c.prog]
    <2>1. c.prog \in Program \cup {None}
      BY <1>2 DEF RequestOK, ConsoleCall
    <2>2. PanelTyped(panel') /\ panel'.prog = panel.prog
      BY <1>2, <1>4, <2>1 DEF PanelTyped
    <2>3. PanelTyped(panel)' /\ (panel.prog = consolePage.detail)'
      BY <1>2, <1>4, <2>2 DEF PanelTyped
    <2> QED BY <1>1, <1>4, <2>3 DEF ConsoleCore
  <1> QED BY <1>3, <1>4 DEF Pages!AccessCame, Pages!PasswordSaved, Pages!OfPanel

\* Whoever signed in, or created a program, asks for the list.
LEMMA ListFollows ==
    ASSUME ConsoleCore, NEW c \in requests, NEW cs, cs = requests \ {c}, c.kind \in {"login", "create"},
           UNCHANGED programs, c.answer # "ok" => (unheard => unheard'),
           Pages!Rest(consolePage, IF c.answer = "ok" THEN Pages!ListPrograms(cs) ELSE cs)
    PROVE  ConsoleCore'
  <1>1. PanelTyped(panel) /\ panel.prog = consolePage.detail
    BY WithoutIt
  <1>2. CASE c.answer = "ok"
    <2>1. ConsoleState(consolePage, Pages!ListPrograms(cs), programs', unheard')
      BY BaseEnds, ListsAnew, ReportKinds
    <2> QED BY <1>1, <1>2, <2>1, Rests
  <1>3. CASE c.answer # "ok"
    <2>1. ConsoleState(consolePage, cs, programs', unheard')
      BY <1>3, OthersEnd, ChangeFails, ReportKinds DEF OfList
    <2> QED BY <1>1, <1>3, <2>1, Rests
  <1> QED BY <1>2, <1>3

LEMMA ConsoleHandles ==
    ASSUME ConsoleCore, NEW c \in requests, Pages!Handle(c),
           unheard' = (unheard /\ ~ Pages!AsksForList(c))
    PROVE  ConsoleCore'
  <1>1. PICK cs : cs = requests \ {c}
    OBVIOUS
  <1>2. c.answer # "none" /\ UNCHANGED programs
    BY DEF Pages!Handle
  <1>3. RequestOK(c) /\ c.kind \in Pages!Kinds
    BY WithoutIt DEF RequestOK, ConsoleCall
  <1>4. \/ c.kind = "list"   /\ Pages!Listed(c, cs)
        \/ c.kind = "users"  /\ Pages!UsersListed(c, cs)
        \/ c.kind = "open"   /\ Pages!Opened(c, cs)
        \/ c.kind = "status" /\ Pages!StatusCame(c, cs)
        \/ c.kind \in Pages!Reporting /\ Pages!ReportCame(c, cs)
        \/ c.kind = "detail" /\ Pages!Refreshed(c, cs)
        \/ c.kind = "act"    /\ Pages!Acted(c, cs)
        \/ c.kind = "save"   /\ Pages!Saved(c, cs)
        \/ c.kind = "delete" /\ Pages!Removed(c, cs)
        \/ c.kind = "panel"  /\ Pages!AccessCame(c, cs)
        \/ c.kind = "password" /\ Pages!PasswordSaved(c, cs)
        \/ c.kind = "logout" /\ Pages!AuthExpired(consolePage, cs)
        \/ /\ c.kind \in {"login", "create"}
           /\ Pages!Rest(consolePage, IF c.answer = "ok" THEN Pages!ListPrograms(cs) ELSE cs)
    BY <1>1, <1>3, KindsAre, ReportKinds DEF Pages!Handle
  <1>6. Pages!AsksForList(c) => c.kind \in {"login", "create", "delete"} /\ c.answer = "ok"
    BY DEF Pages!AsksForList, Pages!ChangedList
  <1>7. c.kind \in {"login", "create", "delete"} \/ (unheard => unheard')
    BY <1>6
  <1>8. c.answer # "ok" => (unheard => unheard')
    BY <1>6
  <1>9. "login" \notin Pages!Reporting /\ "create" \notin Pages!Reporting /\ "delete" \notin Pages!Reporting
    BY ReportKinds
  <1>5. CASE c.kind = "logout" /\ Pages!AuthExpired(consolePage, cs)
    <2>1. /\ RequestsOK(cs) /\ consolePage \in ConsoleRow /\ programs' \subseteq Program
          /\ (~RoleAdmin => NoUsers(cs)) /\ StatusFlags(consolePage, cs) /\ PanelTyped(panel)
      BY <1>1, <1>2, <1>5, WithoutIt
    <2> QED BY <1>5, <2>1, SignedOut
  <1> QED
    BY <1>1, <1>2, <1>4, <1>5, <1>7, <1>8, <1>9, ListedStep, UsersListedStep, OpenedStep, StatusCameStep, ReportCameStep, RefreshedStep,
       ActedStep, SavedStep, RemovedStep, PanelStep, ListFollows

-----------------------------------------------------------------------------
\* A request is served or lost.
LEMMA Replaced ==
    ASSUME ConsoleCore, NEW c \in requests, NEW d, RequestOK(d), d.n = c.n, d.kind = c.kind, d.fresh = c.fresh,
           NEW new, new = (requests \ {c}) \cup {d}
    PROVE  /\ RequestsOK(new) /\ ReportFlags(consolePage, new) /\ StatusFlags(consolePage, new)
           /\ ~RoleAdmin => NoUsers(new)
           /\ c.kind \notin OfList => Among(new, OfList) = Among(requests, OfList)
           /\ c.kind \in OfList => Among(new, OfList) = (Among(requests, OfList) \ {c}) \cup {d}
           /\ NoneFresh(Among(new, OfList)) <=> NoneFresh(Among(requests, OfList))
  <1>1. RequestsOK(requests)
    BY DEF ConsoleCore, ConsoleState, ConsoleBase
  <1>2. \A e \in requests \ {c} : e.n # d.n
    BY <1>1 DEF RequestsOK
  <1>3. IsFiniteSet(new)
    BY <1>1, FS_RemoveElement, FS_AddElement DEF RequestsOK
  <1>4. RequestsOK(new)
    BY <1>1, <1>2, <1>3 DEF RequestsOK
  <1>5. ~RoleAdmin => NoUsers(new)
    BY DEF ConsoleCore, ConsoleState, ConsoleBase, NoUsers
  <1>6. ASSUME NEW K, c.kind \notin K PROVE Among(new, K) = Among(requests, K)
    BY <1>6 DEF Among
  <1>7. ASSUME NEW K, c.kind \in K PROVE Among(new, K) = (Among(requests, K) \ {c}) \cup {d} /\ c \in Among(requests, K)
    BY <1>7 DEF Among
  <1>8. ReportFlags(consolePage, new)
    <2>1. CASE c.kind \notin Pages!Reporting
      BY <1>6, <2>1 DEF ConsoleCore, ConsoleState, ConsoleBase, ReportFlags
    <2>2. CASE c.kind \in Pages!Reporting
      <3>1. PICK a, b : a = Among(requests, Pages!Reporting) /\ b = Among(new, Pages!Reporting)
        OBVIOUS
      <3>2. b = (a \ {c}) \cup {d} /\ c \in a
        BY <1>7, <2>2, <3>1
      <3>3. Numbers(b) = Numbers(a)
        BY <3>2 DEF Numbers
      <3>4. /\ consolePage.fetching <=> \E e \in a : e.fresh
            /\ \A e, f \in a : e.fresh /\ f.fresh => e = f
            /\ consolePage.inFlight <= Cardinality(Numbers(a))
        BY <3>1 DEF ConsoleCore, ConsoleState, ConsoleBase, ReportFlags
      <3>5. consolePage.fetching <=> \E e \in b : e.fresh
        BY <3>2, <3>4
      <3>6. \A e, f \in b : e.fresh /\ f.fresh => e = f
        BY <3>2, <3>4
      <3> QED BY <3>1, <3>3, <3>4, <3>5, <3>6 DEF ReportFlags
    <2> QED BY <2>1, <2>2
  <1>9. StatusFlags(consolePage, new)
    <2>1. CASE c.kind # "status"
      BY <1>6, <2>1 DEF ConsoleCore, ConsoleState, ConsoleBase, StatusFlags
    <2>2. CASE c.kind = "status"
      <3>1. PICK a, b : a = Among(requests, {"status"}) /\ b = Among(new, {"status"})
        OBVIOUS
      <3>2. b = (a \ {c}) \cup {d} /\ c \in a
        BY <1>7, <2>2, <3>1
      <3>3. (consolePage.statusBusy <=> a # {}) /\ \A e, f \in a : e = f
        BY <3>1 DEF ConsoleCore, ConsoleState, ConsoleBase, StatusFlags
      <3> QED BY <3>1, <3>2, <3>3 DEF StatusFlags
    <2> QED BY <2>1, <2>2
  <1>10. NoneFresh(Among(new, OfList)) <=> NoneFresh(Among(requests, OfList))
    BY <1>6, <1>7 DEF NoneFresh
  <1> QED BY <1>4, <1>5, <1>6, <1>7, <1>8, <1>9, <1>10

LEMMA ConsoleServes ==
    ASSUME ConsoleCore, NEW c \in requests, Pages!Serve(c), unheard' = unheard
    PROVE  ConsoleCore'
  <1>1. /\ RequestsOK(requests) /\ consolePage \in ConsoleRow /\ programs \subseteq Program
        /\ ~RoleAdmin => ListOK(consolePage, Among(requests, OfList), programs, unheard)
        /\ PanelTyped(panel) /\ panel.prog = consolePage.detail
    BY DEF ConsoleCore, ConsoleState, ConsoleBase
  <1>2. c \in ConsoleCall /\ RequestOK(c) /\ c.answer = "none"
    BY <1>1 DEF RequestsOK, RequestOK, Pages!Serve
  <1>3. PICK allowed \in BOOLEAN : allowed = (c.kind \in {"login", "logout"} \/ session)
    OBVIOUS
  <1>4. PICK ok \in BOOLEAN : ok = (allowed /\ (Pages!Needs(c) => c.prog \in programs))
    OBVIOUS
  <1>5. PICK ans \in {"ok", "error", "auth"} : ans = IF ok THEN "ok" ELSE IF allowed THEN "error" ELSE "auth"
    OBVIOUS
  <1>6. PICK l \in SUBSET Program : l = IF ok /\ c.kind = "list" THEN programs ELSE {}
    BY <1>1
  <1>7. PICK d : d = [c EXCEPT !.answer = ans, !.listed = l]
    OBVIOUS
  <1>8. /\ d \in ConsoleCall /\ d.n = c.n /\ d.kind = c.kind /\ d.fresh = c.fresh /\ d.prog = c.prog
        /\ d.answer = ans /\ d.listed = l
    BY <1>2, <1>7 DEF ConsoleCall
  <1>9. RequestOK(d)
    BY <1>2, <1>8 DEF RequestOK
  <1>10. requests' = (requests \ {c}) \cup {d}
    BY <1>3, <1>4, <1>5, <1>6, <1>7 DEF Pages!Serve
  <1>11. programs' = IF ~ok THEN programs ELSE IF c.kind = "create" THEN programs \cup {c.prog}
                     ELSE IF c.kind = "delete" THEN programs \ {c.prog} ELSE programs
    BY <1>3, <1>4 DEF Pages!Serve
  <1>12. consolePage' = consolePage /\ panel' = panel
    BY DEF Pages!Serve
  <1>13. programs' \subseteq Program
    <2>1. c.kind = "create" => c.prog \in Program
      BY <1>2 DEF RequestOK, Bare
    <2> QED BY <1>1, <1>11, <2>1
  <1>14. PICK new : new = requests'
    OBVIOUS
  <1>15. /\ RequestsOK(new) /\ ReportFlags(consolePage, new) /\ StatusFlags(consolePage, new)
         /\ ~RoleAdmin => NoUsers(new)
         /\ c.kind \notin OfList => Among(new, OfList) = Among(requests, OfList)
         /\ c.kind \in OfList => Among(new, OfList) = (Among(requests, OfList) \ {c}) \cup {d}
         /\ NoneFresh(Among(new, OfList)) <=> NoneFresh(Among(requests, OfList))
    BY <1>8, <1>9, <1>10, <1>14, Replaced
  <1>16. ~RoleAdmin => ListOK(consolePage, Among(new, OfList), programs', unheard')
    <2> SUFFICES ASSUME ~RoleAdmin PROVE ListOK(consolePage, Among(new, OfList), programs', unheard')
      OBVIOUS
    <2>1. PICK a, b : a = Among(requests, OfList) /\ b = Among(new, OfList)
      OBVIOUS
    <2>2. CASE c.kind \notin OfList
      <3>1. programs' = programs
        BY <1>11, <2>2 DEF OfList
      <3> QED BY <1>1, <1>15, <2>2, <3>1
    <2>3. CASE c.kind \in OfList
      <3>1. b = (a \ {c}) \cup {d} /\ (NoneFresh(b) <=> NoneFresh(a)) /\ ListOK(consolePage, a, programs, unheard)
        BY <1>1, <1>15, <2>1, <2>3
      <3>2. CASE ok /\ c.kind \in {"create", "delete"}
        <4>1. Dirty(b)
          BY <1>5, <1>8, <3>1, <3>2 DEF Dirty
        <4> QED BY <2>1, <4>1 DEF ListOK
      <3>3. CASE ~ (ok /\ c.kind \in {"create", "delete"})
        <4>1. programs' = programs
          BY <1>11, <3>3
        <4>2. d.kind \in {"create", "delete"} => d.answer # "ok"
          BY <1>5, <1>8, <3>3
        <4>3. c.answer # "ok"
          BY <1>2
        <4>4. Dirty(b) <=> Dirty(a)
          BY <3>1, <4>2, <4>3 DEF Dirty
        <4>5. d.kind = "list" /\ d.answer = "ok" => d.listed = programs
          BY <1>5, <1>6, <1>8
        <4>6. \A e \in b : e \in a \/ e = d
          BY <3>1
        <4> QED BY <2>1, <3>1, <4>1, <4>4, <4>5, <4>6 DEF ListOK
      <3> QED BY <3>2, <3>3
    <2> QED BY <2>2, <2>3
  <1>17. ConsoleState(consolePage, new, programs', unheard')
    BY <1>1, <1>13, <1>15, <1>16 DEF ConsoleState, ConsoleBase
  <1>18. ConsoleState(consolePage, requests, programs, unheard)'
    BY <1>12, <1>14, <1>17
  <1> QED BY <1>1, <1>12, <1>18 DEF ConsoleCore, PanelTyped

LEMMA ConsoleLoses ==
    ASSUME ConsoleCore, NEW c \in requests, Pages!Lose(c), unheard' = (unheard \/ Pages!ChangedList(c))
    PROVE  ConsoleCore'
  <1>1. /\ RequestsOK(requests) /\ consolePage \in ConsoleRow /\ programs \subseteq Program
        /\ ~RoleAdmin => ListOK(consolePage, Among(requests, OfList), programs, unheard)
        /\ PanelTyped(panel) /\ panel.prog = consolePage.detail
    BY DEF ConsoleCore, ConsoleState, ConsoleBase
  <1>2. c \in ConsoleCall /\ RequestOK(c)
    BY <1>1 DEF RequestsOK, RequestOK
  <1>3. PICK d : d = [c EXCEPT !.answer = "error", !.listed = {}]
    OBVIOUS
  <1>4. /\ d \in ConsoleCall /\ d.n = c.n /\ d.kind = c.kind /\ d.fresh = c.fresh /\ d.prog = c.prog
        /\ d.answer = "error"
    BY <1>2, <1>3 DEF ConsoleCall
  <1>5. RequestOK(d)
    BY <1>2, <1>4 DEF RequestOK
  <1>6. PICK new : new = requests' /\ new = (requests \ {c}) \cup {d}
    BY <1>3 DEF Pages!Lose
  <1>7. consolePage' = consolePage /\ panel' = panel /\ programs' = programs
    BY DEF Pages!Lose
  <1>8. /\ RequestsOK(new) /\ ReportFlags(consolePage, new) /\ StatusFlags(consolePage, new)
        /\ ~RoleAdmin => NoUsers(new)
        /\ c.kind \notin OfList => Among(new, OfList) = Among(requests, OfList)
        /\ c.kind \in OfList => Among(new, OfList) = (Among(requests, OfList) \ {c}) \cup {d}
        /\ NoneFresh(Among(new, OfList)) <=> NoneFresh(Among(requests, OfList))
    BY <1>4, <1>5, <1>6, Replaced
  <1>9. ~RoleAdmin => ListOK(consolePage, Among(new, OfList), programs, unheard')
    <2> SUFFICES ASSUME ~RoleAdmin PROVE ListOK(consolePage, Among(new, OfList), programs, unheard')
      OBVIOUS
    <2>1. PICK a, b : a = Among(requests, OfList) /\ b = Among(new, OfList)
      OBVIOUS
    <2>2. CASE c.kind \notin OfList
      <3>1. ~ Pages!ChangedList(c)
        BY <2>2 DEF Pages!ChangedList, OfList
      <3>2. ListOK(consolePage, Among(new, OfList), programs, unheard)
        BY <1>1, <1>8, <2>2
      <3> QED BY <3>1, <3>2 DEF ListOK
    <2>4. CASE Pages!ChangedList(c)
      BY <2>4 DEF ListOK
    <2>3. CASE c.kind \in OfList /\ ~ Pages!ChangedList(c)
      <3>1. b = (a \ {c}) \cup {d} /\ (NoneFresh(b) <=> NoneFresh(a)) /\ ListOK(consolePage, a, programs, unheard)
        BY <1>1, <1>8, <2>1, <2>3
      <3>2. Dirty(b) <=> Dirty(a)
        BY <1>4, <2>3, <3>1 DEF Dirty, Pages!ChangedList
      <3>3. \A e \in b : e \in a \/ e.answer = "error"
        BY <1>4, <3>1
      <3> QED BY <2>1, <2>3, <3>1, <3>2, <3>3 DEF ListOK
    <2> QED BY <2>2, <2>3, <2>4
  <1>10. ConsoleState(consolePage, new, programs, unheard')
    BY <1>1, <1>8, <1>9 DEF ConsoleState, ConsoleBase
  <1>11. ConsoleState(consolePage, requests, programs, unheard)'
    BY <1>6, <1>7, <1>10
  <1> QED BY <1>1, <1>7, <1>11 DEF ConsoleCore, PanelTyped

-----------------------------------------------------------------------------
\* The user and the timers.
LEMMA ConsolePressed ==
    ASSUME ConsoleCore,
           \/ \E url \in Pages!Urls : Pages!Navigate(url)
           \/ Pages!SignIn \/ Pages!SignOut
           \/ \E p \in Program : Pages!Add(p)
           \/ \E kind \in {"save", "delete", "act"} : Pages!Act(kind),
           unheard' = unheard
    PROVE  ConsoleCore'
  <1>1. UNCHANGED programs
    BY DEF Pages!Navigate, Pages!SignIn, Pages!SignOut, Pages!Add, Pages!Act, Pages!Pressed
  <1>2. /\ ConsoleState(consolePage, requests, programs', unheard') /\ consolePage \in ConsoleRow
        /\ PanelTyped(panel) /\ panel.prog = consolePage.detail
    BY <1>1 DEF ConsoleCore, ConsoleState, ConsoleBase
  <1>3. ASSUME NEW kind \in {"login", "logout", "create", "save", "delete", "act"},
               NEW p \in Program \cup {None}, NEW section \in Pages!Sections \cup {"programs"},
               kind \notin {"login", "logout"} => p \in Program,
               Pages!Rest(consolePage, Pages!Send(requests, Pages!Request(kind, p, section)))
        PROVE  ConsoleCore'
    <2>1. PICK c : /\ c = Pages!Request(kind, p, section)
                   /\ RequestOK(c) /\ c.kind = kind /\ c.answer = "none"
      BY <1>3, AsksFor, KindsAre DEF Bare
    <2>2. ConsoleState(consolePage, Pages!Send(requests, c), programs', unheard')
      BY <1>2, <2>1, SendKeeps, ReportKinds
    <2> QED BY <1>2, <1>3, <2>1, <2>2, Rests
  <1>4. ASSUME NEW url \in Pages!Urls, Pages!Navigate(url) PROVE ConsoleCore'
    <2>1. PICK pg : pg = [consolePage EXCEPT !.url = url]
      OBVIOUS
    <2>2. pg \in ConsoleRow /\ SamePage(pg, consolePage)
      BY <1>2, <2>1 DEF ConsoleRow, SamePage
    <2>3. ConsoleState(pg, requests, programs', unheard')
      BY <1>2, <2>2, AnotherPage
    <2>4. Pages!Settle(pg, requests)
      BY <1>4, <2>1 DEF Pages!Navigate
    <2> QED BY <1>2, <2>3, <2>4, Settles
  <1>5. CASE Pages!SignIn
    BY <1>3, <1>5 DEF Pages!SignIn
  <1>6. CASE Pages!SignOut
    BY <1>3, <1>6 DEF Pages!SignOut
  <1>7. ASSUME NEW p \in Program, Pages!Add(p) PROVE ConsoleCore'
    BY <1>3, <1>7 DEF Pages!Add
  <1>8. ASSUME NEW kind \in {"save", "delete", "act"}, Pages!Act(kind) PROVE ConsoleCore'
    <2>1. consolePage.selected \in Program /\ consolePage.section \in Pages!Sections \cup {"programs"}
      BY <1>2, <1>8 DEF ConsoleRow, Pages!Act
    <2>2. Pages!Rest(consolePage, Pages!Send(requests, Pages!Request(kind, consolePage.selected, consolePage.section)))
      BY <1>8 DEF Pages!Act
    <2> QED BY <1>3, <2>1, <2>2
  <1> QED BY <1>4, <1>5, <1>6, <1>7, <1>8

\* The list is asked for anew, whatever was missed.
LEMMA ConsoleRetries ==
    ASSUME ConsoleCore, Pages!Retry
    PROVE  ConsoleCore'
  <1>1. /\ ConsoleBase(consolePage, requests, programs')
        /\ PanelTyped(panel) /\ panel.prog = consolePage.detail
    BY DEF ConsoleCore, ConsoleState, Pages!Retry, Pages!Pressed
  <1>2. ConsoleState(consolePage, Pages!ListPrograms(requests), programs', unheard')
    BY <1>1, ListsAnew
  <1> QED BY <1>1, <1>2, Rests DEF Pages!Retry

LEMMA ConsolePanelUsed ==
    ASSUME ConsoleCore, Pages!SavePassword \/ Pages!CloseShownPassword, unheard' = unheard
    PROVE  ConsoleCore'
  <1>1. /\ ConsoleState(consolePage, requests, programs, unheard) /\ consolePage \in ConsoleRow
        /\ PanelTyped(panel) /\ panel.prog = consolePage.detail
    BY DEF ConsoleCore, ConsoleState, ConsoleBase
  <1>2. consolePage' = consolePage /\ programs' = programs
    BY DEF Pages!SavePassword, Pages!CloseShownPassword, Pages!Pressed
  <1>3. PanelTyped(panel') /\ panel'.prog = panel.prog
    BY <1>1 DEF PanelTyped, Pages!SavePassword, Pages!CloseShownPassword
  <1>4. ConsoleState(consolePage, requests', programs, unheard)
    <2>1. CASE Pages!SavePassword
      <3>1. panel.prog \in Program
        BY <1>1, <2>1 DEF PanelTyped, Pages!SavePassword
      <3>2. PICK c : /\ c = Pages!Request("password", panel.prog, "overview")
                     /\ RequestOK(c) /\ c.kind = "password" /\ c.answer = "none"
        <4>1. "overview" \in Pages!Sections
          BY DEF Pages!Sections
        <4> QED BY <3>1, <4>1, AsksFor, KindsAre
      <3>3. ConsoleState(consolePage, Pages!Send(requests, c), programs, unheard)
        BY <1>1, <3>2, SendKeeps, ReportKinds
      <3> QED BY <2>1, <3>2, <3>3 DEF Pages!SavePassword
    <2>2. CASE Pages!CloseShownPassword
      BY <1>1, <2>2 DEF Pages!CloseShownPassword
    <2> QED BY <2>1, <2>2
  <1>5. ConsoleState(consolePage, requests, programs, unheard)'
    BY <1>2, <1>4
  <1>6. PanelTyped(panel)' /\ (panel.prog = consolePage.detail)'
    BY <1>1, <1>2, <1>3 DEF PanelTyped
  <1> QED BY <1>5, <1>6 DEF ConsoleCore

LEMMA ConsolePolls ==
    ASSUME ConsoleCore, Pages!PollStatus \/ Pages!PollReports, unheard' = unheard
    PROVE  ConsoleCore'
  <1>1. /\ ConsoleState(consolePage, requests, programs', unheard') /\ consolePage \in ConsoleRow
        /\ PanelTyped(panel) /\ panel.prog = consolePage.detail /\ consolePage.selected \in Program
    BY DEF ConsoleCore, ConsoleState, ConsoleBase, ConsoleRow, Pages!PollStatus, Pages!PollReports, Pages!Timer
  <1>2. CASE Pages!PollReports
    <2>1. ConsoleState(Pages!Fetching(consolePage), Pages!FetchReports(requests, consolePage, consolePage.selected), programs', unheard')
      BY <1>1, ReportsAnew
    <2>2. Pages!Fetching(consolePage).detail = consolePage.detail
      BY <1>1 DEF Pages!Fetching, ConsoleRow
    <2>3. Pages!Rest(Pages!Fetching(consolePage), Pages!FetchReports(requests, consolePage, consolePage.selected))
      BY <1>2 DEF Pages!PollReports
    <2> QED BY <1>1, <2>1, <2>2, <2>3, Rests
  <1>3. CASE Pages!PollStatus
    <2>1. PICK c : /\ c = Pages!Request("status", consolePage.selected, "status")
                   /\ RequestOK(c) /\ c.kind = "status"
      <3>1. "status" \in Pages!Sections
        BY DEF Pages!Sections
      <3> QED BY <1>1, <3>1, AsksFor, KindsAre
    <2>2. PICK d : /\ Pages!Send(requests, c) = requests \cup {d} /\ d.n \notin Numbers(requests)
                   /\ d.kind = c.kind /\ d.fresh = c.fresh /\ d.answer = c.answer
                   /\ RequestsOK(requests \cup {d})
      BY <2>1, SendsOne DEF ConsoleCore, ConsoleState, ConsoleBase
    <2>3. PICK new : new = requests \cup {d}
      OBVIOUS
    <2>4. PICK pg : pg = [consolePage EXCEPT !.statusBusy = TRUE]
      OBVIOUS
    <2>5. /\ pg \in ConsoleRow /\ pg.statusBusy /\ pg.load = consolePage.load /\ pg.listed = consolePage.listed
          /\ pg.fetching = consolePage.fetching /\ pg.inFlight = consolePage.inFlight
          /\ pg.detail = consolePage.detail
      BY <1>1, <2>4 DEF ConsoleRow
    <2>6. Among(requests, {"status"}) = {}
      BY <1>3 DEF ConsoleCore, ConsoleState, ConsoleBase, StatusFlags, Pages!PollStatus
    <2>7. /\ Among(new, {"status"}) = {d} /\ Among(new, OfList) = Among(requests, OfList)
          /\ Among(new, Pages!Reporting) = Among(requests, Pages!Reporting)
          /\ ~RoleAdmin => NoUsers(new)
      BY <2>1, <2>2, <2>3, <2>6, ReportKinds
         DEF Among, OfList, NoUsers, ConsoleCore, ConsoleState, ConsoleBase
    <2>8. StatusFlags(pg, new) /\ ReportFlags(pg, new)
      BY <1>1, <2>5, <2>7 DEF StatusFlags, ReportFlags, ConsoleState, ConsoleBase
    <2>9. ~RoleAdmin => ListOK(pg, Among(new, OfList), programs', unheard')
      BY <1>1, <2>5, <2>7 DEF ListOK, ConsoleState
    <2>10. ConsoleState(pg, new, programs', unheard')
      BY <1>1, <2>2, <2>3, <2>5, <2>7, <2>8, <2>9 DEF ConsoleState, ConsoleBase
    <2>11. Pages!Rest(pg, new)
      BY <1>3, <2>1, <2>2, <2>3, <2>4 DEF Pages!PollStatus
    <2> QED BY <1>1, <2>5, <2>10, <2>11, Rests
  <1> QED BY <1>2, <1>3

LEMMA ConsoleInit == Pages!Init => ConsoleInv
  <1> SUFFICES ASSUME Pages!Init PROVE ConsoleInv
    OBVIOUS
  <1>1. PICK url \in Pages!Urls : consolePage = [Pages!SignedOutPage(url) EXCEPT !.load = "checking"]
    BY DEF Pages!Init
  <1>2. /\ consolePage \in ConsoleRow /\ consolePage.load = "checking" /\ ~consolePage.fetching
        /\ consolePage.inFlight = 0 /\ ~consolePage.statusBusy /\ consolePage.detail = None
    <2>1. PICK m : m = Pages!SignedOutPage(url)
      OBVIOUS
    <2>2. /\ m \in ConsoleRow /\ m.fetching = FALSE /\ m.inFlight = 0 /\ m.statusBusy = FALSE /\ m.detail = None
      BY <2>1, HomeIs DEF Pages!SignedOutPage, ConsoleRow
    <2> QED BY <1>1, <2>1, <2>2 DEF ConsoleRow
  <1>3. PICK c : /\ c = Pages!Request("list", None, "programs")
                 /\ RequestOK(c) /\ c.kind = "list" /\ c.answer = "none"
    BY AsksFor, KindsAre DEF Bare
  <1>4. PICK none : none = {} /\ IsFiniteSet(none)
    BY FS_EmptySet
  <1>5. Among(none, Pages!Reporting) = {} /\ Among(none, {"status"}) = {} /\ Among(none, OfList) = {}
    BY <1>4 DEF Among
  <1>6. Cardinality(Numbers(Among(none, Pages!Reporting))) = 0
    <2>1. Numbers(Among(none, Pages!Reporting)) = {}
      BY <1>5 DEF Numbers
    <2> QED BY <2>1, FS_EmptySet
  <1>7. RequestsOK(none) /\ NoUsers(none)
    BY <1>4 DEF RequestsOK, NoUsers
  <1>8. programs \subseteq Program
    BY DEF Pages!Init
  <1>9. ConsoleState(consolePage, none, programs, unheard)
    BY <1>2, <1>5, <1>6, <1>7, <1>8 DEF ConsoleState, ConsoleBase, ReportFlags, StatusFlags, ListOK
  <1>10. ConsoleState(consolePage, Pages!Send(none, c), programs, unheard)
    BY <1>3, <1>9, SendKeeps, ReportKinds
  <1>11. requests = Pages!Send(none, c)
    BY <1>3, <1>4 DEF Pages!Init
  <1>12. PanelTyped(panel) /\ panel.prog = consolePage.detail
    BY <1>2 DEF Pages!Init, Pages!NoPanel, PanelTyped
  <1> QED BY <1>10, <1>11, <1>12 DEF ConsoleInv, ConsoleCore, Pages!Init

LEMMA ConsoleStep == ConsoleInv /\ [Pages!Next]_(Pages!vars) => ConsoleInv'
  <1> SUFFICES ASSUME ConsoleInv, [Pages!Next]_(Pages!vars) PROVE ConsoleInv'
    OBVIOUS
  <1>1. ConsoleCore /\ unheard \in BOOLEAN
    BY DEF ConsoleInv
  <1>2. CASE (Pages!Expire /\ UNCHANGED unheard) \/ UNCHANGED Pages!vars
    <2>1. /\ consolePage' = consolePage /\ panel' = panel /\ requests' = requests /\ programs' = programs
          /\ unheard' = unheard
      BY <1>2 DEF Pages!Expire, Pages!vars
    <2>2. ConsoleState(consolePage, requests, programs, unheard)' /\ PanelTyped(panel)'
      BY <1>1, <2>1 DEF ConsoleCore, PanelTyped
    <2> QED BY <1>1, <2>1, <2>2 DEF ConsoleInv, ConsoleCore
  <1>3. CASE /\ \/ \E url \in Pages!Urls : Pages!Navigate(url)
                \/ Pages!SignIn \/ Pages!SignOut \/ Pages!SavePassword
                \/ \E p \in Program : Pages!Add(p)
                \/ \E kind \in {"save", "delete", "act"} : Pages!Act(kind)
                \/ Pages!CloseShownPassword \/ Pages!PollStatus \/ Pages!PollReports
             /\ UNCHANGED unheard
    BY <1>1, <1>3, ConsolePressed, ConsolePanelUsed, ConsolePolls DEF ConsoleInv
  <1>4. ASSUME NEW c \in requests, Pages!Serve(c), unheard' = unheard
        PROVE  ConsoleInv'
    BY <1>1, <1>4, ConsoleServes DEF ConsoleInv
  <1>5. CASE Pages!Retry /\ unheard' = FALSE
    BY <1>1, <1>5, ConsoleRetries DEF ConsoleInv
  <1>6. ASSUME NEW c \in requests, Pages!Lose(c), unheard' = (unheard \/ Pages!ChangedList(c))
        PROVE  ConsoleInv'
    <2>1. unheard' \in BOOLEAN
      BY <1>6
    <2> QED BY <1>1, <1>6, <2>1, ConsoleLoses DEF ConsoleInv
  <1>7. ASSUME NEW c \in requests, Pages!Handle(c), unheard' = (unheard /\ ~ Pages!AsksForList(c))
        PROVE  ConsoleInv'
    <2>1. unheard' \in BOOLEAN
      BY <1>7
    <2> QED BY <1>1, <1>7, <2>1, ConsoleHandles DEF ConsoleInv
  <1> QED BY <1>2, <1>3, <1>4, <1>5, <1>6, <1>7 DEF Pages!Next

LEMMA ConsoleTyped == ConsoleInv => Pages!TypeOK
  <1> SUFFICES ASSUME ConsoleInv PROVE Pages!TypeOK
    OBVIOUS
  <1>1. consolePage \in ConsoleRow
    BY DEF ConsoleInv, ConsoleCore, ConsoleState, ConsoleBase
  <1>2. \A c \in requests : c.kind \in Pages!Kinds /\ c.answer \in {"none", "ok", "auth", "error"}
    BY DEF ConsoleInv, ConsoleCore, ConsoleState, ConsoleBase, RequestsOK, RequestOK, ConsoleCall
  <1> QED BY <1>1, <1>2 DEF ConsoleRow, ConsoleInv, ConsoleCore, PanelTyped, Pages!TypeOK

LEMMA ConsoleSafe ==
    ConsoleInv => Pages!FlagsAreHonest /\ Pages!PasswordOfProgram /\ Pages!ListIsCurrent
  <1> SUFFICES ASSUME ConsoleInv
               PROVE  Pages!FlagsAreHonest /\ Pages!PasswordOfProgram /\ Pages!ListIsCurrent
    OBVIOUS
  <1>1. \A K : Pages!InFlight(K) = Among(requests, K)
    BY DEF Pages!InFlight, Among
  <1>2. /\ RequestsOK(requests) /\ consolePage \in ConsoleRow
        /\ ReportFlags(consolePage, requests) /\ StatusFlags(consolePage, requests)
        /\ ~RoleAdmin => NoUsers(requests) /\ ListOK(consolePage, Among(requests, OfList), programs, unheard)
    BY DEF ConsoleInv, ConsoleCore, ConsoleState, ConsoleBase
  <1>3. Pages!FlagsAreHonest
    <2>1. PICK a : a = Among(requests, Pages!Reporting)
      OBVIOUS
    <2>2. IsFiniteSet(a)
      BY <1>2, <2>1, FS_Subset DEF RequestsOK, Among
    <2>3. IsFiniteSet(Numbers(a)) /\ Cardinality(Numbers(a)) <= Cardinality(a)
      <3> DEFINE f == [x \in a |-> x.n]
      <3>1. f \in Surjection(a, Numbers(a))
        BY DEF Surjection, Numbers
      <3> HIDE DEF f
      <3> QED BY <2>2, <3>1, FS_Surjection
    <2>4. Cardinality(Numbers(a)) \in Nat /\ Cardinality(a) \in Nat /\ consolePage.inFlight \in Nat
      BY <1>2, <2>2, <2>3, FS_CardinalityType DEF ConsoleRow
    <2>5. consolePage.inFlight <= Cardinality(a)
      BY <1>2, <2>1, <2>3, <2>4 DEF ReportFlags
    <2>6. Pages!Cardinality(a) = Cardinality(a)
      BY ConsoleSizes
    <2>7. /\ consolePage.fetching <=> \E c \in a : c.fresh
          /\ consolePage.statusBusy <=> Among(requests, {"status"}) # {}
      BY <1>2, <2>1 DEF ReportFlags, StatusFlags
    <2> QED BY <1>1, <2>1, <2>5, <2>6, <2>7 DEF Pages!FlagsAreHonest
  <1>4. Pages!PasswordOfProgram
    BY DEF ConsoleInv, ConsoleCore, PanelTyped, Pages!PasswordOfProgram
  <1>5. Pages!ListIsCurrent
    <2> SUFFICES ASSUME ~RoleAdmin, ~unheard, consolePage.load = "ready", Pages!InFlight({"create", "delete"}) = {},
                        \A c \in Pages!InFlight(Pages!Listing) : ~c.fresh
                 PROVE  consolePage.listed = programs
      BY DEF Pages!ListIsCurrent
    <2>1. PICK a : a = Among(requests, OfList)
      OBVIOUS
    <2>2. ~Dirty(a)
      BY <1>1, <2>1 DEF Dirty, Among
    <2>3. NoneFresh(a)
      BY <1>1, <2>1, ReportKinds DEF NoneFresh, Among
    <2> QED BY <1>2, <2>1, <2>2, <2>3 DEF ListOK
  <1> QED BY <1>3, <1>4, <1>5

(* Console: the flags that hold back its timers tell of a request in flight, and a new password is  *)
(* shown in the panel of its program, for every account, whatever is overtaken, lost or late.       *)
THEOREM ConsoleFlagsAreHonest == Pages!Spec => [](Pages!FlagsAreHonest /\ Pages!PasswordOfProgram)
  <1>1. ConsoleInv => Pages!FlagsAreHonest /\ Pages!PasswordOfProgram
    BY ConsoleSafe
  <1> QED BY <1>1, ConsoleInit, ConsoleStep, PTL DEF Pages!Spec

-----------------------------------------------------------------------------
(* The chart.  A bucket that ended before the newest one of the chart is no  *)
(* longer changed by what listeners do, since they come and go at the time   *)
(* it is; and the newest bucket is the first of the next fetch.              *)

ChartRow ==
    [stream : Stream, created : 0 .. MaxNow, connected : 0 .. Chart!Never,
     disconnected : 0 .. Chart!Never]

\* No row is older than the first, and nothing is written of a later time than it is.
RowsOK(rs, n) ==
    /\ rs \in Seq(ChartRow)
    /\ \A i \in DOMAIN rs :
           /\ rs[1].created <= rs[i].created /\ rs[i].created <= n
           /\ rs[i].connected \in rs[i].created .. n \/ rs[i].connected = Chart!Never
           /\ rs[i].disconnected \in rs[i].created .. n \/ rs[i].disconnected = Chart!Never

Mine(rs, s) == {i \in DOMAIN rs : rs[i].stream = s}
Made(rs, s, t, w) == {i \in Mine(rs, s) : rs[i].created \in t .. (t + w - 1)}
There(rs, s, t) == {i \in Mine(rs, s) : rs[i].connected <= t /\ t < rs[i].disconnected}

TrueAt(p, t, w, rs) ==
    \A s \in Stream : /\ p[s].connections = Chart!Cardinality(Made(rs, s, t, w))
                      /\ p[s].activeListeners = Chart!Cardinality(There(rs, s, t))

\* The buckets of a width that end at the newest, none of them left out.
Grid(D, w, top) ==
    top % w = 0 /\ \A t \in D : t % w = 0 /\ t <= top /\ (t # top => t + w \in D)

\* Where a range of the page begins that is asked for at a time, and at that time or before.
Earliest(n) == IF n > Window THEN n - Window ELSE 0
BeganAt(p, f, n) == f = Chart!NoTime \/ (p # "all" /\ f \in 0 .. Earliest(n))

\* A chart up to its newest bucket, which is the cursor if there is one.
UpTo(ch, cur, top, rs) ==
    /\ cur \in {Chart!NoTime, top} /\ top \in DOMAIN ch.points
    /\ Grid(DOMAIN ch.points, ch.width, top)
    /\ \A t \in DOMAIN ch.points :
           t < top /\ t >= ch.from => TrueAt(ch.points[t], t, ch.width, rs)

ChartOK(ch, cur, key, mix, rs, n) ==
    /\ ch.width \in {Fine, Coarse} /\ DOMAIN ch.points \subseteq Int
    /\ BeganAt(key, ch.from, n)
    /\ ~ mix => \E top \in 0 .. n : UpTo(ch, cur, top, rs)

\* What is asked for, and what the server answers.
AskedOK(p, f, to, n) ==
    IF p = "all" THEN f = Chart!NoTime /\ to = Chart!NoTime ELSE to \in 0 .. n /\ f = Earliest(to)

Answers(ans, f, after, top, rs) ==
    /\ Grid(DOMAIN ans.points, ans.width, top) /\ top >= f
    /\ DOMAIN ans.points = {} => top < after
    /\ DOMAIN ans.points # {} => top \in DOMAIN ans.points
    /\ after # Chart!NoTime /\ f <= after /\ after % ans.width = 0 => after \in DOMAIN ans.points
    /\ \A t \in DOMAIN ans.points : t < top /\ t >= f => TrueAt(ans.points[t], t, ans.width, rs)

AnswerOK(ans, f, after, rs, n) ==
    /\ ans.width \in {Fine, Coarse} /\ DOMAIN ans.points \subseteq Int
    /\ after = Chart!NoTime => DOMAIN ans.points # {}
    /\ \A t \in DOMAIN ans.points : after # Chart!NoTime => t >= after
    /\ \E top \in 0 .. n : Answers(ans, f, after, top, rs)

\* A part is asked for from the newest bucket of the chart on, and the chart stays meanwhile,
\* unless the program is opened again.
AfterOK(p, f, after) ==
    after # Chart!NoTime =>
        /\ after \in 0 .. now
        /\ \/ rangeKey = p /\ after = cursor /\ chart.from <= f
           \/ rangeKey = "none" /\ cursor = Chart!NoTime

DetailOK(d) ==
    /\ d = [answer |-> d.answer]
    /\ d.answer # NoAnswer => AnswerOK(d.answer, Chart!NoTime, Chart!NoTime, chartRows, now)

FetchOK(c) ==
    /\ c = [preset |-> c.preset, from |-> c.from, to |-> c.to, after |-> c.after,
            answer |-> c.answer]
    /\ c.preset \in {"all", "window"} /\ AskedOK(c.preset, c.from, c.to, now)
    /\ AfterOK(c.preset, c.from, c.after)
    /\ c.answer # NoAnswer => AnswerOK(c.answer, c.from, c.after, chartRows, now)

ChartInv ==
    /\ now \in 0 .. MaxNow /\ RowsOK(chartRows, now)
    /\ preset \in {"all", "window"} /\ rangeKey \in {"all", "window", "none"} /\ mixed \in BOOLEAN
    /\ cursor \in {Chart!NoTime} \cup 0 .. now
    /\ chart # NoChart => ChartOK(chart, cursor, rangeKey, mixed, chartRows, now)
    /\ call # NoCall => FetchOK(call)
    /\ opening # NoCall => DetailOK(opening)

LEMMA RemainderOf ==
  ASSUME NEW w \in Nat \ {0}, NEW t \in Int
  PROVE  t % w \in 0 .. w - 1 /\ t \div w \in Int /\ t = w * (t \div w) + (t % w)
OBVIOUS

LEMMA RemainderIs ==
  ASSUME NEW w \in Nat \ {0}, NEW k \in Int, NEW r \in 0 .. w - 1
  PROVE  (w * k + r) % w = r
OBVIOUS

LEMMA NextMultiple ==
  ASSUME NEW w \in Nat \ {0}, NEW k \in Int, NEW m \in Int, k < m
  PROVE  w * k + w <= w * m
OBVIOUS

LEMMA MultipleOf ==
  ASSUME NEW w \in Nat \ {0}, NEW t \in Int, t % w = 0
  PROVE  \E k \in Int : t = w * k
<1>1. t \div w \in Int /\ t = w * (t \div w) + (t % w)
  BY RemainderOf
<1>2. PICK k \in Int : k = t \div w
  BY <1>1
<1>3. t = w * k
  BY <1>1, <1>2
<1>4. QED
  BY <1>3

\* Buckets do not overlap, and follow each other.
LEMMA BucketsApart ==
  ASSUME NEW w \in Nat \ {0}, NEW t \in Int, NEW u \in Int, t % w = 0, u % w = 0, t < u
  PROVE  t + w <= u
<1>1. PICK k \in Int : t = w * k
  BY MultipleOf
<1>2. PICK m \in Int : u = w * m
  BY MultipleOf
<1>3. k < m
  <2>1. CASE m = k
    BY <1>1, <1>2, <2>1
  <2>2. CASE m < k
    <3>1. w * m + w <= w * k
      BY <2>2, NextMultiple
    <3>2. w * m \in Int /\ w * k \in Int
      OBVIOUS
    <3> HIDE <1>1, <1>2
    <3>3. QED
      BY <1>1, <1>2, <3>1, <3>2
  <2>3. QED
    BY <2>1, <2>2
<1>4. QED
  BY <1>1, <1>2, <1>3, NextMultiple

LEMMA NextBucket ==
  ASSUME NEW w \in Nat \ {0}, NEW t \in Int, t % w = 0
  PROVE  (t + w) % w = 0
<1>1. PICK k \in Int : t = w * k
  BY MultipleOf
<1>2. t + w = w * (k + 1) + 0 /\ k + 1 \in Int
  BY <1>1
<1>3. (w * (k + 1) + 0) % w = 0
  BY <1>2, RemainderIs
<1>4. QED
  BY <1>2, <1>3

\* The bucket that a time is in starts at that time or less than its width before.
LEMMA BucketOf ==
  ASSUME NEW w \in Nat \ {0}, NEW t \in Int
  PROVE  /\ Chart!Align(t, w) \in Int /\ Chart!Align(t, w) % w = 0
         /\ Chart!Align(t, w) <= t /\ t < Chart!Align(t, w) + w
<1>1. t % w \in 0 .. w - 1 /\ t \div w \in Int /\ t = w * (t \div w) + (t % w)
  BY RemainderOf
<1>2. PICK k \in Int : k = t \div w
  BY <1>1
<1>3. PICK r \in 0 .. w - 1 : r = t % w
  BY <1>1
<1>4. t - r = w * k + 0
  BY <1>1, <1>2, <1>3
<1>5. (w * k + 0) % w = 0
  BY RemainderIs
<1>6. Chart!Align(t, w) = t - r
  BY <1>3 DEF Chart!Align
<1>7. QED
  BY <1>4, <1>5, <1>6

LEMMA InBucket ==
  ASSUME NEW w \in Nat \ {0}, NEW t \in Int, NEW c \in Int, t % w = 0
  PROVE  Chart!Align(c, w) = t <=> c \in t .. (t + w - 1)
<1>1. PICK a \in Int : a = Chart!Align(c, w)
  BY BucketOf
<1>2. a % w = 0 /\ a <= c /\ c < a + w
  BY <1>1, BucketOf
<1>3. a = t => c \in t .. (t + w - 1)
  BY <1>2
<1>4. a < t => ~ (c \in t .. (t + w - 1))
  <2> SUFFICES ASSUME a < t
               PROVE  ~ (c \in t .. (t + w - 1))
    OBVIOUS
  <2>1. a + w <= t
    BY <1>2, BucketsApart
  <2>2. QED
    BY <1>2, <2>1
<1>5. t < a => ~ (c \in t .. (t + w - 1))
  <2> SUFFICES ASSUME t < a
               PROVE  ~ (c \in t .. (t + w - 1))
    OBVIOUS
  <2>1. t + w <= a
    BY <1>2, BucketsApart
  <2>2. QED
    BY <1>2, <2>1
<1>6. a < t \/ a = t \/ t < a
  OBVIOUS
<1>7. QED
  BY <1>1, <1>3, <1>4, <1>5, <1>6

LEMMA AlignOrder ==
  ASSUME NEW w \in Nat \ {0}, NEW t \in Int, NEW u \in Int, t % w = 0, t <= u
  PROVE  t <= Chart!Align(u, w)
<1>1. PICK a \in Int : a = Chart!Align(u, w)
  BY BucketOf
<1>2. a % w = 0 /\ a <= u /\ u < a + w
  BY <1>1, BucketOf
<1>3. ASSUME a < t
      PROVE  FALSE
  <2>1. a + w <= t
    BY <1>2, <1>3, BucketsApart
  <2>2. QED
    BY <1>2, <2>1
<1>4. QED
  BY <1>1, <1>3

\* A set of numbers between two bounds has a least one.
LEMMA LeastOf ==
  ASSUME NEW a \in Int, NEW b \in Int, NEW S \in SUBSET (a .. b), S # {}
  PROVE  Chart!Min(S) \in S /\ \A y \in S : Chart!Min(S) <= y
<1> DEFINE T == {a .. i : i \in S}
<1>1. T \subseteq FiniteSubsetsOf(a .. b) /\ T # {}
  <2>1. \A i \in S : a .. i \in SUBSET (a .. b) /\ IsFiniteSet(a .. i)
    BY FS_Interval
  <2> QED BY <2>1 DEF FiniteSubsetsOf
<1>2. IsWellFoundedOn(StrictSubsetOrdering(a .. b), FiniteSubsetsOf(a .. b))
  BY FS_StrictSubsetOrderingWellFounded
<1>3. PICK x \in T : \A y \in T : ~ (<<y, x>> \in StrictSubsetOrdering(a .. b))
  BY <1>1, <1>2, WFMin
<1>4. PICK i \in S : x = a .. i
  OBVIOUS
<1>5. ASSUME NEW j \in S, j < i
      PROVE  FALSE
  <2>1. a .. j \subseteq a .. i /\ a .. j # a .. i /\ a .. i \subseteq a .. b /\ a .. j \in T
    BY <1>5
  <2> QED BY <1>3, <1>4, <2>1 DEF StrictSubsetOrdering
<1>6. \A j \in S : i <= j
  BY <1>5
<1> QED BY <1>6 DEF Chart!Min

LEMMA GreatestIs ==
  ASSUME NEW S \in SUBSET Int, NEW top \in S, \A t \in S : t <= top
  PROVE  Chart!Max(S) = top
<1>1. \E x \in S : \A y \in S : x >= y
  BY top \in S
<1>2. Chart!Max(S) \in S /\ \A y \in S : Chart!Max(S) >= y
  BY <1>1 DEF Chart!Max
<1>3. PICK m \in S : m = Chart!Max(S)
  BY <1>2
<1>4. m >= top /\ m <= top /\ m \in Int /\ top \in Int
  BY <1>2, <1>3
<1>5. QED
  BY <1>3, <1>4

-----------------------------------------------------------------------------
(* What the server counts for a bucket that has ended is what the rows say. *)

LEMMA RowTyped ==
  ASSUME NEW r \in ChartRow
  PROVE  /\ r.created \in 0 .. MaxNow /\ r.created \in Int
         /\ r.connected \in 0 .. Chart!Never /\ r.disconnected \in 0 .. Chart!Never
  BY DEF ChartRow

\* The connections that the server counts in a bucket.
CountedMade(s, t, start, end, w) ==
    {i \in Mine(chartRows, s) : /\ chartRows[i].created \in start .. (end - 1)
                                /\ Chart!Align(chartRows[i].created, w) = t}

\* A bucket of the answer is counted from the bucket's own first to its own last moment.
LEMMA CountsMade ==
  ASSUME NEW w \in Nat \ {0}, NEW n \in 0 .. MaxNow, RowsOK(chartRows, n), NEW s \in Stream,
         NEW t \in Int, t % w = 0, NEW start \in Int, NEW end \in Int, t + w <= end,
         start <= t \/ (chartRows # <<>> => start = chartRows[1].created)
  PROVE  CountedMade(s, t, start, end, w) = Made(chartRows, s, t, w)
<1> SUFFICES ASSUME NEW i \in Mine(chartRows, s)
             PROVE  /\ chartRows[i].created \in start .. (end - 1)
                    /\ Chart!Align(chartRows[i].created, w) = t
                    <=> chartRows[i].created \in t .. (t + w - 1)
  BY DEF Made, CountedMade
<1>1. /\ i \in DOMAIN chartRows /\ chartRows[i].created \in Int /\ chartRows[1].created \in Int
      /\ chartRows[1].created <= chartRows[i].created /\ chartRows # <<>>
  <2>1. /\ i \in DOMAIN chartRows /\ chartRows \in Seq(ChartRow)
        /\ chartRows[1].created <= chartRows[i].created
    BY DEF RowsOK, Mine
  <2>2. DOMAIN chartRows = 1 .. Len(chartRows) /\ Len(chartRows) \in Nat
    BY <2>1
  <2>3. 1 \in DOMAIN chartRows
    BY <2>1, <2>2
  <2>4. chartRows[i] \in ChartRow /\ chartRows[1] \in ChartRow /\ chartRows # <<>>
    BY <2>1, <2>2, <2>3
  <2>5. QED
    BY ONLY <2>1, <2>4, RowTyped
<1>2. PICK c \in Int : c = chartRows[i].created
  BY <1>1
<1>3. Chart!Align(c, w) = t <=> c \in t .. (t + w - 1)
  BY InBucket
<1>4. start <= t \/ start <= c
  BY <1>1, <1>2
<1>5. c \in t .. (t + w - 1) => c \in start .. (end - 1)
  BY <1>4
<1>6. QED
  BY <1>2, <1>3, <1>5

\* The first bucket that does not start before a time is not after another just if that is so.
LEMMA BoundOf ==
  ASSUME NEW a \in Int, NEW b \in Int, b < Chart!Never, Chart!Never \in Int,
         NEW starts \in SUBSET (a .. b), NEW t \in starts, NEW x \in 0 .. Chart!Never
  PROVE  Chart!LowerBound(x, starts) \in Int /\ (Chart!LowerBound(x, starts) <= t <=> x <= t)
<1> DEFINE S == {u \in starts : u >= x} \cup {Chart!Never}
<1>1. PICK top \in Int : top = Chart!Never
  OBVIOUS
<1>2. a <= t /\ t <= b /\ t \in Int
  OBVIOUS
<1>3. S \in SUBSET (a .. top) /\ S # {}
  <2>1. b < top /\ a <= top /\ top \in S
    BY <1>1, <1>2
  <2>2. \A u \in S : u \in a .. top
    <3> SUFFICES ASSUME NEW u \in S
                 PROVE  u \in a .. top
      OBVIOUS
    <3>1. CASE u = top
      BY <2>1, <3>1
    <3>2. CASE u \in starts
      <4>1. u \in a .. b
        BY <3>2
      <4>2. QED
        BY <2>1, <4>1
    <3>3. QED
      BY <1>1, <3>1, <3>2
  <2>3. QED
    BY <2>1, <2>2
<1>4. Chart!Min(S) \in S /\ \A y \in S : Chart!Min(S) <= y
  BY <1>3, LeastOf
<1>5. PICK m \in S : m = Chart!Min(S)
  BY <1>4
<1>6. m \in Int /\ x \in Int /\ (m = top \/ (m \in starts /\ m >= x)) /\ (x <= t => m <= t)
  BY <1>1, <1>3, <1>4, <1>5
<1>7. m <= t <=> x <= t
  BY <1>1, <1>2, <1>6
<1>8. Chart!LowerBound(x, starts) = m
  BY <1>5 DEF Chart!LowerBound
<1>9. QED
  BY <1>6, <1>7, <1>8

\* The listeners that the server counts in a bucket.
CountedThere(s, t, start, end, w) ==
    {i \in Mine(chartRows, s) :
        /\ chartRows[i].connected < end /\ chartRows[i].disconnected >= start
        /\ Chart!LowerBound(chartRows[i].connected, Chart!PointStarts(start, end, w)) <= t
        /\ t < Chart!LowerBound(chartRows[i].disconnected, Chart!PointStarts(start, end, w))}

LEMMA CountsThere ==
  ASSUME NEW w \in Nat \ {0}, NEW n \in 0 .. MaxNow, RowsOK(chartRows, n), NEW s \in Stream,
         NEW start \in Int, NEW end \in 0 .. n, MaxNow \in Nat,
         NEW t \in Chart!PointStarts(start, end, w), t < end,
         start <= t \/ (chartRows # <<>> => start = chartRows[1].created)
  PROVE  CountedThere(s, t, start, end, w) = There(chartRows, s, t)
<1> PICK starts : starts = Chart!PointStarts(start, end, w)
  OBVIOUS
<1> SUFFICES ASSUME NEW i \in Mine(chartRows, s)
             PROVE  /\ chartRows[i].connected < end /\ chartRows[i].disconnected >= start
                    /\ Chart!LowerBound(chartRows[i].connected, starts) <= t
                    /\ t < Chart!LowerBound(chartRows[i].disconnected, starts)
                    <=> chartRows[i].connected <= t /\ t < chartRows[i].disconnected
  BY DEF There, CountedThere
<1>1. /\ chartRows[i].created \in Int /\ chartRows[1].created \in Int
      /\ chartRows[i].connected \in 0 .. Chart!Never
      /\ chartRows[i].disconnected \in 0 .. Chart!Never
      /\ chartRows[1].created <= chartRows[i].created /\ chartRows # <<>>
  <2>1. /\ i \in DOMAIN chartRows /\ chartRows \in Seq(ChartRow)
        /\ chartRows[1].created <= chartRows[i].created
    BY DEF RowsOK, Mine
  <2>2. DOMAIN chartRows = 1 .. Len(chartRows) /\ Len(chartRows) \in Nat
    BY <2>1
  <2>3. 1 \in DOMAIN chartRows
    BY <2>1, <2>2
  <2>4. chartRows[i] \in ChartRow /\ chartRows[1] \in ChartRow /\ chartRows # <<>>
    BY <2>1, <2>2, <2>3
  <2>5. QED
    BY ONLY <2>1, <2>4, RowTyped
<1>2. PICK top \in Int : top = Chart!Never
  BY DEF Chart!Never
<1>3. end < top /\ top = MaxNow + 1 /\ end \in Int
  BY <1>2 DEF Chart!Never
<1>4. PICK on \in 0 .. Chart!Never : on = chartRows[i].connected
  BY <1>1
<1>5. PICK off \in 0 .. Chart!Never : off = chartRows[i].disconnected
  BY <1>1
<1>6. on \in Int /\ off \in Int
  BY <1>2
<1>7. starts \in SUBSET (Chart!Align(start, w) .. end) /\ Chart!Align(start, w) \in Int /\ t \in Int
  BY BucketOf DEF Chart!PointStarts
<1> PICK lo \in Int : lo = Chart!Align(start, w)
  BY <1>7
<1> starts \in SUBSET (lo .. end) /\ end < Chart!Never /\ Chart!Never \in Int
  BY <1>2, <1>3, <1>7
<1>8. Chart!LowerBound(on, starts) \in Int /\ (Chart!LowerBound(on, starts) <= t <=> on <= t)
  BY <1>3, BoundOf
<1>9. Chart!LowerBound(off, starts) \in Int /\ (Chart!LowerBound(off, starts) <= t <=> off <= t)
  BY <1>3, BoundOf
<1>10. off >= chartRows[i].created
  <2>1. i \in DOMAIN chartRows
    BY DEF Mine
  <2>2. off \in chartRows[i].created .. n \/ off = Chart!Never
    BY <1>5, <2>1 DEF RowsOK
  <2>3. chartRows[i].created <= n
    BY <2>1 DEF RowsOK
  <2>4. QED
    BY <1>1, <1>2, <1>3, <2>2, <2>3
<1>11. t < off => off >= start
  BY <1>1, <1>6, <1>7, <1>10
<1>12. on <= t => on < end
  BY <1>3, <1>6, <1>7
<1>13. t < Chart!LowerBound(off, starts) <=> t < off
  BY <1>6, <1>7, <1>9
<1>14. on < end /\ off >= start /\ Chart!LowerBound(on, starts) <= t /\ t < Chart!LowerBound(off, starts)
         <=> on <= t /\ t < off
  BY ONLY <1>8, <1>11, <1>12, <1>13
<1>15. QED
  BY ONLY <1>4, <1>5, <1>14

\* A bucket the server counts that ends within the range, from whose start on it looks at rows.
LEMMA PointIsTrue ==
  ASSUME ChartFit, now \in 0 .. MaxNow, RowsOK(chartRows, now), NEW w \in Nat \ {0},
         NEW start \in Int, NEW end \in 0 .. now,
         NEW t \in Chart!PointStarts(start, end, w), t + w <= end,
         start <= t \/ (chartRows # <<>> => start = chartRows[1].created),
         NEW p, p = [s \in Stream |-> Chart!Point(t, s, start, end, w)]
  PROVE  TrueAt(p, t, w, chartRows)
<1> SUFFICES ASSUME NEW s \in Stream
             PROVE  /\ p[s].connections = Chart!Cardinality(Made(chartRows, s, t, w))
                    /\ p[s].activeListeners = Chart!Cardinality(There(chartRows, s, t))
  BY DEF TrueAt
<1>1. t \in Int /\ t % w = 0 /\ t < end /\ MaxNow \in Nat
  <2>1. t \in Int /\ t % w = 0
    BY BucketOf DEF Chart!PointStarts
  <2>2. QED
    BY <2>1 DEF ChartFit
<1>2. CountedMade(s, t, start, end, w) = Made(chartRows, s, t, w)
  <2>1. /\ w \in Nat \ {0} /\ now \in 0 .. MaxNow /\ RowsOK(chartRows, now) /\ s \in Stream
        /\ t \in Int /\ t % w = 0 /\ start \in Int /\ end \in Int /\ t + w <= end
        /\ start <= t \/ (chartRows # <<>> => start = chartRows[1].created)
    BY <1>1
  <2>2. QED
    BY ONLY <2>1, CountsMade
<1>3. CountedThere(s, t, start, end, w) = There(chartRows, s, t)
  <2>1. /\ w \in Nat \ {0} /\ now \in 0 .. MaxNow /\ RowsOK(chartRows, now) /\ s \in Stream
        /\ start \in Int /\ end \in 0 .. now /\ MaxNow \in Nat
        /\ t \in Chart!PointStarts(start, end, w) /\ t < end
        /\ start <= t \/ (chartRows # <<>> => start = chartRows[1].created)
    BY <1>1
  <2>2. QED
    BY ONLY <2>1, CountsThere
<1>4. Chart!Point(t, s, start, end, w) =
        [connections |-> Chart!Cardinality(CountedMade(s, t, start, end, w)),
         activeListeners |-> Chart!Cardinality(CountedThere(s, t, start, end, w))]
  BY DEF Chart!Point, Mine, CountedMade, CountedThere
<1>5. p[s] = Chart!Point(t, s, start, end, w)
  OBVIOUS
<1>6. QED
  BY <1>2, <1>3, <1>4, <1>5

LEMMA SeriesIs ==
  ASSUME ChartFit, now \in 0 .. MaxNow, RowsOK(chartRows, now), NEW p \in {"all", "window"},
         NEW f, NEW to, NEW after, AskedOK(p, f, to, now),
         after = Chart!NoTime \/ after \in 0 .. now
  PROVE  AnswerOK(Chart!Series(f, to, after), f, after, chartRows, now)
<1>1. PICK none \in Int : none = Chart!NoTime /\ none = -Week - 1 /\ none < 0
  BY DEF Chart!NoTime, ChartFit
<1>2. now \in Nat /\ MaxNow \in Nat /\ Week \in Nat /\ Window \in Nat /\ after \in Int
  BY <1>1 DEF ChartFit
<1>3. (f = none /\ to = none) \/ (to \in 0 .. now /\ f = Earliest(to))
  BY <1>1 DEF AskedOK
<1>4. /\ f \in Int /\ to \in Int /\ f <= now
      /\ f # none => to \in 0 .. now /\ f >= 0 /\ f <= to /\ (f = 0 \/ f = to - Window)
      /\ f = none => to = none
  BY <1>1, <1>2, <1>3 DEF Earliest
<1>5. PICK x \in Int : x = (IF after > f THEN after ELSE f)
  BY <1>2, <1>4
<1>6. /\ x <= now /\ x >= none /\ (x = none <=> f = none /\ after = none)
      /\ x # none => x >= 0
      /\ x >= f /\ x >= after
  BY <1>1, <1>2, <1>4, <1>5
<1>7. chartRows # <<>> => chartRows[1].created \in 0 .. now
  <2> SUFFICES ASSUME chartRows # <<>>
               PROVE  chartRows[1].created \in 0 .. now
    OBVIOUS
  <2>1. chartRows \in Seq(ChartRow)
    BY DEF RowsOK
  <2>2. 1 \in DOMAIN chartRows /\ chartRows[1] \in ChartRow
    BY <2>1
  <2>3. QED
    BY <2>2 DEF RowsOK, ChartRow
<1>8. PICK start : start = Chart!Start(x)
  OBVIOUS
<1>9. /\ start \in Int /\ start <= now /\ start > none
      /\ x # none => start = x
      /\ x = none => (chartRows # <<>> => start = chartRows[1].created)
  <2>1. start = (IF x # none THEN x ELSE IF chartRows # <<>> THEN chartRows[1].created
                 ELSE now - Week)
    BY <1>1, <1>8 DEF Chart!Start
  <2>2. CASE x # none
    BY <1>1, <1>2, <1>6, <2>1, <2>2
  <2>3. CASE x = none /\ chartRows # <<>>
    <3>1. start = chartRows[1].created
      BY <2>1, <2>3
    <3>2. start \in 0 .. now
      BY <1>7, <2>3, <3>1
    <3>3. start \in Int /\ start <= now /\ start > none
      BY <1>1, <1>2, <3>2
    <3>4. QED
      BY <2>3, <3>1, <3>3
  <2>4. CASE x = none /\ ~ (chartRows # <<>>)
    <3>1. start = now - Week
      BY <2>1, <2>4
    <3>2. start \in Int /\ start <= now /\ start > none
      BY <1>1, <1>2, <3>1
    <3>3. QED
      BY <2>4, <3>2
  <2>5. QED
    BY <2>2, <2>3, <2>4
<1>10. PICK end : end = Chart!End(start, to)
  OBVIOUS
<1>11. end \in 0 .. now /\ start <= end /\ (f # none => end >= to)
  BY <1>1, <1>2, <1>4, <1>9, <1>10 DEF Chart!End
<1>12. PICK w : w = Chart!Width(end - start)
  OBVIOUS
<1>13. w \in {Fine, Coarse} /\ w \in Nat \ {0} /\ w <= Window
  BY <1>12 DEF Chart!Width, ChartFit
<1>14. PICK top \in Int : top = Chart!Align(end, w)
  BY <1>11, <1>13, BucketOf
<1>15. top % w = 0 /\ top <= end /\ end < top + w
  BY <1>11, <1>13, <1>14, BucketOf
<1>16. 0 % w = 0
  <2>1. (w * 0 + 0) % w = 0
    BY <1>13, RemainderIs
  <2>2. w * 0 + 0 = 0
    BY <1>13
  <2>3. QED
    BY <2>1, <2>2
<1>17. top \in 0 .. now
  BY <1>11, <1>13, <1>14, <1>15, <1>16, AlignOrder
<1>18. PICK lo \in Int : lo = Chart!Align(start, w)
  BY <1>9, <1>13, BucketOf
<1>19. lo % w = 0 /\ lo <= start /\ start < lo + w
  BY <1>9, <1>13, <1>18, BucketOf
<1>20. lo <= top
  <2>1. lo <= end
    BY <1>9, <1>11, <1>19
  <2>2. QED
    BY <1>11, <1>13, <1>14, <1>19, <2>1, AlignOrder
<1>21. PICK starts : starts = Chart!PointStarts(start, end, w)
  OBVIOUS
<1>22. starts = {t \in lo .. end : t % w = 0}
  BY <1>18, <1>21 DEF Chart!PointStarts
<1>23. PICK D : D = {t \in starts : after = Chart!NoTime \/ Chart!AfterCursor(t, after)}
  OBVIOUS
<1>24. D = {t \in starts : after = none \/ t >= after}
  BY <1>1, <1>23 DEF Chart!AfterCursor
<1>25. PICK ans : ans = Chart!Series(f, to, after)
  OBVIOUS
<1>26. ans = [width |-> w,
              points |-> [t \in D |-> [s \in Stream |-> Chart!Point(t, s, start, end, w)]]]
  BY <1>5, <1>8, <1>10, <1>12, <1>21, <1>23, <1>25 DEF Chart!Series
<1>27. ans.width = w /\ DOMAIN ans.points = D
  BY <1>26
<1>28. \A t \in D : ans.points[t] = [s \in Stream |-> Chart!Point(t, s, start, end, w)]
  BY <1>26
<1>29. \A t \in D : /\ t \in starts /\ t \in Int /\ lo <= t /\ t <= end /\ t % w = 0
                    /\ (after = none \/ t >= after)
  BY <1>11, <1>22, <1>24
<1>30. \A t \in D : t <= top
  BY <1>11, <1>13, <1>14, <1>29, AlignOrder
<1>31. ASSUME NEW t \in D, t # top
       PROVE  t + w \in D /\ t + w <= top
  <2>1. t \in Int /\ t % w = 0 /\ t < top /\ lo <= t /\ (after = none \/ t >= after)
    BY <1>29, <1>30, <1>31
  <2>2. t + w <= top /\ (t + w) % w = 0
    BY <1>13, <1>15, <2>1, BucketsApart, NextBucket
  <2>3. t + w \in lo .. end /\ (after = none \/ t + w >= after)
    BY <1>2, <1>11, <1>13, <1>15, <2>1, <2>2
  <2>4. QED
    BY <1>22, <1>24, <2>2, <2>3
<1>32. Grid(D, w, top)
  BY <1>15, <1>29, <1>30, <1>31 DEF Grid
<1>33. top >= f
  <2>1. CASE f = none \/ f = 0
    BY <1>1, <1>17, <2>1
  <2>2. CASE f # none /\ f = to - Window
    BY <1>2, <1>4, <1>11, <1>13, <1>15, <2>2
  <2>3. QED
    BY <1>4, <2>1, <2>2
<1>34. top \in starts
  BY <1>11, <1>15, <1>20, <1>22
<1>35. after = none => top \in D
  BY <1>24, <1>34
<1>36. after # none => (D = {} => top < after)
  BY <1>2, <1>24, <1>34
<1>37. D = {} => top < after
  BY <1>35, <1>36
<1>38. D # {} => top \in D
  <2> SUFFICES ASSUME NEW t \in D
               PROVE  top \in D
    OBVIOUS
  <2>1. after = none \/ top >= after
    BY <1>2, <1>17, <1>29, <1>30
  <2>2. QED
    BY <1>24, <1>34, <2>1
<1>39. after # none /\ f <= after /\ after % w = 0 => after \in D
  <2> SUFFICES ASSUME after # none, f <= after, after % w = 0
               PROVE  after \in D
    OBVIOUS
  <2>1. x = after /\ start = after
    BY <1>2, <1>4, <1>5, <1>6, <1>9
  <2>2. after \in lo .. end
    BY <1>2, <1>11, <1>19, <2>1
  <2>3. after >= after
    BY <1>2
  <2>4. QED
    BY <1>22, <1>24, <2>2, <2>3
<1>40. ASSUME NEW t \in D, t < top, t >= f
       PROVE  TrueAt(ans.points[t], t, w, chartRows)
  <2>1. t \in Int /\ t + w <= end /\ t \in Chart!PointStarts(start, end, w)
    BY <1>11, <1>13, <1>15, <1>21, <1>29, <1>31, <1>40
  <2>2. start <= t \/ (chartRows # <<>> => start = chartRows[1].created)
    BY <1>2, <1>4, <1>5, <1>9, <1>29, <1>40, <2>1
  <2>3. PICK q : q = ans.points[t]
    OBVIOUS
  <2>4. TrueAt(q, t, w, chartRows)
    BY <1>9, <1>11, <1>13, <1>28, <2>1, <2>2, <2>3, PointIsTrue
  <2>5. QED
    BY <2>3, <2>4
<1>41. Answers(ans, f, after, top, chartRows)
  BY <1>1, <1>27, <1>32, <1>33, <1>37, <1>38, <1>39, <1>40 DEF Answers
<1>42. AnswerOK(ans, f, after, chartRows, now)
  BY <1>1, <1>13, <1>17, <1>27, <1>29, <1>35, <1>41 DEF AnswerOK
<1>43. QED
  BY <1>25, <1>42

-----------------------------------------------------------------------------
(* What is true of a bucket that has ended stays so. *)

\* What listeners do changes the rows at the time it is, and nothing that was written before.
Later(rs, new, n) ==
    /\ DOMAIN rs \subseteq DOMAIN new
    /\ \A i \in DOMAIN rs :
           /\ new[i].stream = rs[i].stream /\ new[i].created = rs[i].created
           /\ \/ new[i].connected = rs[i].connected
              \/ rs[i].connected = Chart!Never /\ new[i].connected = n
           /\ \/ new[i].disconnected = rs[i].disconnected
              \/ rs[i].disconnected = Chart!Never /\ new[i].disconnected = n
    /\ \A i \in DOMAIN new \ DOMAIN rs : new[i].created = n /\ new[i].connected = Chart!Never

LEMMA RowsTyped ==
  ASSUME NEW n, NEW rs, RowsOK(rs, n), NEW i \in DOMAIN rs
  PROVE  /\ rs[i].stream \in Stream /\ rs[i].created \in 0 .. MaxNow
         /\ rs[i].connected \in 0 .. Chart!Never /\ rs[i].disconnected \in 0 .. Chart!Never
<1>1. rs[i] \in ChartRow
  BY DEF RowsOK
<1>2. QED
  BY <1>1 DEF ChartRow

LEMMA TruthStays ==
  ASSUME MaxNow \in Nat, NEW n \in 0 .. MaxNow, NEW rs, NEW new, RowsOK(rs, n), RowsOK(new, n),
         Later(rs, new, n),
         NEW t \in Int, NEW w \in Nat \ {0}, t + w <= n, NEW p, TrueAt(p, t, w, rs)
  PROVE  TrueAt(p, t, w, new)
<1> SUFFICES ASSUME NEW s \in Stream
             PROVE  Made(new, s, t, w) = Made(rs, s, t, w) /\ There(new, s, t) = There(rs, s, t)
  BY DEF TrueAt
<1>1. n \in Int /\ n < Chart!Never /\ Chart!Never \in Int /\ t < n /\ t + w - 1 < n
  BY DEF Chart!Never
<1>2. ASSUME NEW i \in DOMAIN rs
      PROVE  /\ i \in DOMAIN new
             /\ i \in Made(new, s, t, w) <=> i \in Made(rs, s, t, w)
             /\ i \in There(new, s, t) <=> i \in There(rs, s, t)
  <2>1. /\ i \in DOMAIN new /\ new[i].stream = rs[i].stream /\ new[i].created = rs[i].created
        /\ \/ new[i].connected = rs[i].connected
           \/ rs[i].connected = Chart!Never /\ new[i].connected = n
        /\ \/ new[i].disconnected = rs[i].disconnected
           \/ rs[i].disconnected = Chart!Never /\ new[i].disconnected = n
    BY DEF Later
  <2>2. i \in Made(new, s, t, w) <=> i \in Made(rs, s, t, w)
    BY <2>1 DEF Made, Mine
  <2>3. PICK a : a = rs[i].connected
    OBVIOUS
  <2>4. PICK b : b = new[i].connected
    OBVIOUS
  <2>5. b <= t <=> a <= t
    BY <1>1, <2>1, <2>3, <2>4
  <2>6. PICK c : c = rs[i].disconnected
    OBVIOUS
  <2>7. PICK d : d = new[i].disconnected
    OBVIOUS
  <2>8. t < d <=> t < c
    BY <1>1, <2>1, <2>6, <2>7
  <2>9. i \in There(new, s, t) <=> i \in There(rs, s, t)
    BY <2>1, <2>3, <2>4, <2>5, <2>6, <2>7, <2>8 DEF There, Mine
  <2>10. QED
    BY <2>1, <2>2, <2>9
<1>3. ASSUME NEW i \in DOMAIN new \ DOMAIN rs
      PROVE  ~ (i \in Made(new, s, t, w)) /\ ~ (i \in There(new, s, t))
  <2>1. new[i].created = n /\ new[i].connected = Chart!Never
    BY DEF Later
  <2>2. ~ (n \in t .. (t + w - 1)) /\ ~ (Chart!Never <= t)
    BY <1>1
  <2>3. QED
    BY <2>1, <2>2 DEF Made, There
<1>4. /\ Made(new, s, t, w) \subseteq DOMAIN new /\ Made(rs, s, t, w) \subseteq DOMAIN rs
      /\ There(new, s, t) \subseteq DOMAIN new /\ There(rs, s, t) \subseteq DOMAIN rs
  BY DEF Made, There, Mine
<1>5. QED
  BY <1>2, <1>3, <1>4

LEMMA ChartStays ==
  ASSUME ChartFit, NEW n \in 0 .. MaxNow, NEW m \in n .. MaxNow, NEW rs, NEW new,
         RowsOK(rs, n), RowsOK(new, n), Later(rs, new, n),
         NEW ch, NEW cur, NEW key, NEW mix, ChartOK(ch, cur, key, mix, rs, n)
  PROVE  ChartOK(ch, cur, key, mix, new, m)
<1>1. ch.width \in Nat \ {0} /\ MaxNow \in Nat /\ DOMAIN ch.points \subseteq Int
  BY DEF ChartOK, ChartFit
<1>2. BeganAt(key, ch.from, m)
  <2>1. Earliest(n) \in Int /\ Earliest(m) \in Int /\ Earliest(n) <= Earliest(m)
    BY <1>1 DEF Earliest, ChartFit
  <2>2. QED
    BY <1>1, <2>1 DEF ChartOK, BeganAt
<1>3. ASSUME ~ mix
      PROVE  \E top \in 0 .. m : UpTo(ch, cur, top, new)
  <2>1. PICK top \in 0 .. n : UpTo(ch, cur, top, rs)
    BY <1>3 DEF ChartOK
  <2>2. ASSUME NEW t \in DOMAIN ch.points, t < top, t >= ch.from
        PROVE  TrueAt(ch.points[t], t, ch.width, new)
    <3>1. t \in Int /\ t + ch.width <= top /\ t + ch.width <= n
      <4>1. t + ch.width \in DOMAIN ch.points /\ t + ch.width <= top
        BY <1>1, <2>1, <2>2 DEF UpTo, Grid
      <4>2. QED
        BY <1>1, <4>1
    <3>2. PICK p : p = ch.points[t]
      OBVIOUS
    <3>3. PICK w : w = ch.width
      OBVIOUS
    <3>4. TrueAt(p, t, w, rs)
      BY <2>1, <2>2, <3>2, <3>3 DEF UpTo
    <3>5. TrueAt(p, t, w, new)
      BY <1>1, <3>1, <3>3, <3>4, TruthStays
    <3>6. QED
      BY <3>2, <3>3, <3>5
  <2>3. UpTo(ch, cur, top, new) /\ top \in 0 .. m
    BY <1>1, <2>1, <2>2 DEF UpTo
  <2>4. QED
    BY <2>3
<1>4. QED
  BY <1>1, <1>2, <1>3 DEF ChartOK

LEMMA AnswersStay ==
  ASSUME ChartFit, NEW n \in 0 .. MaxNow, NEW m \in n .. MaxNow, NEW rs, NEW new,
         RowsOK(rs, n), RowsOK(new, n), Later(rs, new, n),
         NEW ans, NEW f, NEW after, AnswerOK(ans, f, after, rs, n)
  PROVE  AnswerOK(ans, f, after, new, m)
<1>1. /\ ans.width \in Nat \ {0} /\ MaxNow \in Nat
      /\ DOMAIN ans.points \subseteq Int
  BY DEF AnswerOK, ChartFit
<1>2. PICK top \in 0 .. n : Answers(ans, f, after, top, rs)
  BY DEF AnswerOK
<1>3. ASSUME NEW t \in DOMAIN ans.points, t < top, t >= f
      PROVE  TrueAt(ans.points[t], t, ans.width, new)
  <2>1. t \in Int /\ t + ans.width <= n
    <3>1. t + ans.width \in DOMAIN ans.points /\ t + ans.width <= top
      BY <1>1, <1>2, <1>3 DEF Answers, Grid
    <3>2. QED
      BY <1>1, <3>1
  <2>2. PICK p : p = ans.points[t]
    OBVIOUS
  <2>3. PICK w : w = ans.width
    OBVIOUS
  <2>4. TrueAt(p, t, w, rs)
    BY <1>2, <1>3, <2>2, <2>3 DEF Answers
  <2>5. TrueAt(p, t, w, new)
    BY <1>1, <2>1, <2>3, <2>4, TruthStays
  <2>6. QED
    BY <2>2, <2>3, <2>5
<1>4. Answers(ans, f, after, top, new)
  BY <1>2, <1>3 DEF Answers
<1>5. top \in 0 .. m
  BY <1>1
<1>6. QED
  BY <1>4, <1>5 DEF AnswerOK

LEMMA NothingChanges ==
  ASSUME NEW rs, NEW n
  PROVE  Later(rs, rs, n)
BY DEF Later

LEMMA AskedEarlier ==
  ASSUME ChartFit, NEW n \in 0 .. MaxNow, NEW m \in n .. MaxNow, NEW p, NEW f, NEW to,
         AskedOK(p, f, to, n)
  PROVE  AskedOK(p, f, to, m) /\ BeganAt(p, f, n)
<1>1. MaxNow \in Nat /\ n \in Nat /\ m \in Nat /\ n <= m /\ Window \in Nat
  BY DEF ChartFit
<1>2. AskedOK(p, f, to, m)
  BY <1>1 DEF AskedOK
<1>3. ASSUME p # "all"
      PROVE  f \in 0 .. Earliest(n)
  <2>1. to \in 0 .. n /\ f = Earliest(to)
    BY <1>3 DEF AskedOK
  <2>2. QED
    BY <1>1, <2>1 DEF Earliest
<1>4. QED
  BY <1>2, <1>3 DEF AskedOK, BeganAt

-----------------------------------------------------------------------------
(* What is fetched becomes the chart. *)

LEMMA NewestIs ==
  ASSUME NEW ans, NEW f, NEW after, NEW rs, NEW top \in Int, DOMAIN ans.points \subseteq Int,
         Answers(ans, f, after, top, rs), DOMAIN ans.points # {}
  PROVE  Chart!NewestBucket(ans) = top
<1>1. PICK D \in SUBSET Int : D = DOMAIN ans.points
  OBVIOUS
<1>2. top \in D /\ \A t \in D : t <= top
  BY <1>1 DEF Answers, Grid
<1>3. Chart!Max(D) = top
  BY <1>2, GreatestIs
<1>4. QED
  BY <1>1, <1>3 DEF Chart!NewestBucket

LEMMA WholeChart ==
  ASSUME ChartFit, NEW n \in 0 .. MaxNow, NEW key, NEW f, BeganAt(key, f, n),
         NEW rs, NEW ans, AnswerOK(ans, f, Chart!NoTime, rs, n),
         NEW ch, ch = Chart!Whole(ans, f), NEW mix,
         NEW cur, ~ mix => cur \in {Chart!NoTime, Chart!NewestBucket(ans)}
  PROVE  /\ DOMAIN ans.points # {} /\ Chart!NewestBucket(ans) \in 0 .. n
         /\ ChartOK(ch, cur, key, mix, rs, n)
<1>1. PICK top \in 0 .. n : Answers(ans, f, Chart!NoTime, top, rs)
  BY DEF AnswerOK
<1>2. /\ DOMAIN ans.points # {} /\ DOMAIN ans.points \subseteq Int
      /\ ans.width \in {Fine, Coarse} /\ top \in Int
  BY DEF AnswerOK
<1>3. Chart!NewestBucket(ans) = top
  BY <1>1, <1>2, NewestIs
<1>4. ch.width = ans.width /\ ch.from = f /\ ch.points = ans.points
  BY DEF Chart!Whole
<1>5. top \in DOMAIN ans.points /\ Grid(DOMAIN ans.points, ans.width, top)
      /\ \A t \in DOMAIN ans.points :
            t < top /\ t >= f => TrueAt(ans.points[t], t, ans.width, rs)
  BY <1>1, <1>2 DEF Answers
<1>6. ~ mix => UpTo(ch, cur, top, rs)
  BY <1>3, <1>4, <1>5 DEF UpTo
<1>7. ChartOK(ch, cur, key, mix, rs, n)
  BY <1>2, <1>4, <1>6 DEF ChartOK
<1>8. QED
  BY <1>2, <1>3, <1>7

\* A part begins with the newest bucket of the chart, whose own count is replaced.
LEMMA MergedChart ==
  ASSUME ChartFit, now \in 0 .. MaxNow, NEW f, BeganAt(rangeKey, f, now),
         ChartOK(chart, cursor, rangeKey, mixed, chartRows, now),
         NEW after \in 0 .. now, NEW ans, AnswerOK(ans, f, after, chartRows, now),
         NEW new, new = Chart!Merge(chart, ans, f),
         NEW top, DOMAIN ans.points = {} => top = cursor,
         DOMAIN ans.points # {} => top = Chart!NewestBucket(ans),
         NEW also,
         ~ also => ~ mixed /\ after = cursor /\ chart.from <= f /\ chart.width = ans.width
  PROVE  ChartOK(new, top, rangeKey, also, chartRows, now)
<1>1. PICK D \in SUBSET Int : D = DOMAIN ans.points
  BY DEF AnswerOK
<1>2. PICK old \in SUBSET Int : old = DOMAIN chart.points
  BY DEF ChartOK
<1>3. PICK w : w = ans.width
  OBVIOUS
<1>4. PICK last \in 0 .. now : Answers(ans, f, after, last, chartRows)
  BY DEF AnswerOK
<1>5. /\ Week \in Nat /\ MaxNow \in Nat /\ Window \in Nat /\ now \in Nat
      /\ w \in {Fine, Coarse} /\ w \in Nat \ {0}
  BY <1>3 DEF ChartFit, AnswerOK
<1>6. /\ after # Chart!NoTime /\ f \in Int /\ after \in Int /\ chart.from \in Int
      /\ Chart!NoTime \in Int /\ Chart!NoTime < 0
  <2>1. Earliest(now) \in Int /\ Chart!NoTime \in Int /\ Chart!NoTime < 0
    BY <1>5 DEF Chart!NoTime, Earliest
  <2>2. BeganAt(rangeKey, chart.from, now)
    BY DEF ChartOK
  <2>3. QED
    BY <1>5, <2>1, <2>2 DEF BeganAt
<1>7. last >= f /\ last \in Int
  BY <1>4, <1>5 DEF Answers
<1>8. PICK N : N = {t \in old \cup D : t >= f}
  OBVIOUS
<1>9. new = [width |-> w, from |-> f,
             points |-> [t \in N |-> IF t \in D THEN ans.points[t] ELSE chart.points[t]]]
  BY <1>1, <1>2, <1>3, <1>8 DEF Chart!Merge
<1>10. new.width = w /\ new.from = f /\ DOMAIN new.points = N /\ N \subseteq Int
  <2>1. new.width = w /\ new.from = f /\ DOMAIN new.points = N
    BY <1>9
  <2>2. N \subseteq Int
    BY <1>8
  <2>3. QED
    BY <2>1, <2>2
<1>11. \A t \in N : new.points[t] = (IF t \in D THEN ans.points[t] ELSE chart.points[t])
  BY <1>9
<1>12. ASSUME ~ also
       PROVE  \E up \in 0 .. now : UpTo(new, top, up, chartRows)
  <2>1. ~ mixed /\ after = cursor /\ chart.from <= f /\ chart.width = w
    BY <1>3, <1>12
  <2>2. PICK base \in 0 .. now : UpTo(chart, cursor, base, chartRows)
    BY <2>1 DEF ChartOK
  <2>3. base = after
    BY <1>6, <2>1, <2>2 DEF UpTo
  <2>4. Grid(old, w, after) /\ after \in old
    BY <1>2, <2>1, <2>2, <2>3 DEF UpTo
  <2>5. Grid(D, w, last)
    BY <1>1, <1>3, <1>4 DEF Answers
  <2>6. after % w = 0 /\ (f <= after => after \in D)
    BY <1>1, <1>3, <1>4, <1>6, <2>4 DEF Answers, Grid
  <2>7. D # {}
    <3>1. ASSUME D = {}
          PROVE  FALSE
      <4>1. last < after /\ ~ (f <= after) /\ last >= f
        BY <1>1, <1>4, <1>7, <2>6, <3>1 DEF Answers
      <4>2. QED
        BY <1>6, <1>7, <4>1
    <3>2. QED
      BY <3>1
  <2>8. top = last /\ last \in D
    <3>1. Chart!NewestBucket(ans) = last
      BY <1>1, <1>4, <1>7, <2>7, NewestIs
    <3>2. last \in D
      BY <1>1, <1>4, <2>7 DEF Answers
    <3>3. QED
      BY <1>1, <2>7, <3>1, <3>2
  <2>9. last \in N
    BY <1>7, <1>8, <2>8
  <2>10. ASSUME NEW t \in N, ~ (t \in D)
         PROVE  /\ t \in old /\ t < after /\ f <= after /\ after <= last
    <3>1. t \in old /\ t >= f /\ t \in Int
      BY <1>8, <2>10
    <3>2. t <= after
      BY <2>4, <3>1 DEF Grid
    <3>3. f <= after
      BY <1>6, <3>1, <3>2
    <3>4. after \in D /\ t # after
      BY <2>6, <2>10, <3>3
    <3>5. after <= last
      BY <2>5, <3>4 DEF Grid
    <3>6. QED
      BY <1>6, <3>1, <3>2, <3>3, <3>4, <3>5
  <2>11. ASSUME NEW t \in N
         PROVE  t % w = 0 /\ t <= last /\ (t # last => t + w \in N)
    <3>1. t \in Int /\ t >= f
      BY <1>8
    <3>2. CASE t \in D
      <4>1. t % w = 0 /\ t <= last /\ (t # last => t + w \in D)
        BY <2>5, <3>2 DEF Grid
      <4>2. t + w >= f
        BY <1>5, <1>6, <3>1
      <4>3. QED
        BY <1>8, <4>1, <4>2
    <3>3. CASE ~ (t \in D)
      <4>1. t \in old /\ t < after /\ after <= last
        BY <2>10, <3>3
      <4>2. t % w = 0 /\ t + w \in old
        BY <1>6, <2>4, <3>1, <4>1 DEF Grid
      <4>3. t + w >= f
        BY <1>5, <1>6, <3>1
      <4>4. t <= last
        BY <1>6, <1>7, <3>1, <4>1
      <4>5. QED
        BY <1>8, <4>2, <4>3, <4>4
    <3>4. QED
      BY <3>2, <3>3
  <2>12. last % w = 0
    BY <2>5 DEF Grid
  <2>13. Grid(N, w, last)
    BY <2>11, <2>12 DEF Grid
  <2>14. ASSUME NEW t \in N, t < last, t >= f
         PROVE  TrueAt(new.points[t], t, w, chartRows)
    <3>1. CASE t \in D
      <4>1. TrueAt(ans.points[t], t, w, chartRows)
        BY <1>1, <1>3, <1>4, <2>14, <3>1 DEF Answers
      <4>2. QED
        BY <1>11, <3>1, <4>1
    <3>2. CASE ~ (t \in D)
      <4>1. t \in old /\ t < after /\ t >= chart.from
        <5>1. t \in old /\ t < after /\ t \in Int
          BY <1>8, <2>10, <3>2
        <5>2. t >= chart.from
          BY <1>6, <2>1, <2>14, <5>1
        <5>3. QED
          BY <5>1, <5>2
      <4>2. TrueAt(chart.points[t], t, w, chartRows)
        BY <1>2, <2>1, <2>2, <2>3, <4>1 DEF UpTo
      <4>3. QED
        BY <1>11, <3>2, <4>2
    <3>3. QED
      BY <3>1, <3>2
  <2>15. UpTo(new, top, last, chartRows)
    BY <1>10, <2>8, <2>9, <2>13, <2>14 DEF UpTo
  <2>16. QED
    BY <2>15
<1>13. QED
  BY <1>5, <1>10, <1>12 DEF ChartOK

-----------------------------------------------------------------------------
LEMMA ChartInit == ChartFit /\ Chart!Init => ChartInv
<1> SUFFICES ASSUME ChartFit, Chart!Init
             PROVE  ChartInv
  OBVIOUS
<1>1. /\ now = 0 /\ MaxNow \in Nat /\ First \in Nat
      /\ chartRows \in [1 .. First -> {Chart!NewRow(s, 0) : s \in Stream}]
  BY DEF Chart!Init, ChartFit
<1>2. \A s \in Stream : Chart!NewRow(s, 0) \in ChartRow
  <2>1. 0 \in 0 .. MaxNow /\ Chart!Never \in 0 .. Chart!Never
    BY <1>1 DEF Chart!Never
  <2>2. QED
    BY <2>1 DEF Chart!NewRow, ChartRow
<1>3. chartRows \in Seq(ChartRow) /\ DOMAIN chartRows = 1 .. First
  <2>1. chartRows \in [1 .. First -> ChartRow]
    BY <1>1, <1>2
  <2>2. QED
    BY <1>1, <2>1
<1>4. ASSUME NEW i \in DOMAIN chartRows
      PROVE  /\ chartRows[i].created = 0 /\ chartRows[i].connected = Chart!Never
             /\ chartRows[i].disconnected = Chart!Never /\ 1 \in DOMAIN chartRows
  <2>1. PICK s \in Stream : chartRows[i] = Chart!NewRow(s, 0)
    BY <1>1, <1>3
  <2>2. QED
    BY <1>1, <1>3, <2>1 DEF Chart!NewRow
<1>5. \A i \in DOMAIN chartRows : chartRows[1].created <= chartRows[i].created
  <2> SUFFICES ASSUME NEW i \in DOMAIN chartRows
               PROVE  chartRows[1].created <= chartRows[i].created
    OBVIOUS
  <2>1. 1 \in DOMAIN chartRows
    BY <1>4
  <2>2. chartRows[1].created = 0 /\ chartRows[i].created = 0
    BY <1>4, <2>1
  <2>3. QED
    BY <2>2
<1>6. RowsOK(chartRows, now)
  BY <1>1, <1>3, <1>4, <1>5 DEF RowsOK
<1>7. now \in 0 .. MaxNow
  BY <1>1
<1>8. /\ preset = "all" /\ rangeKey = "none" /\ chart = NoChart /\ cursor = Chart!NoTime
      /\ call = NoCall /\ opening = NoCall /\ mixed = FALSE
  BY DEF Chart!Init
<1>9. QED
  BY <1>6, <1>7, <1>8 DEF ChartInv

\* The rows change, or the time, and the page stays.
LEMMA ChartWaits ==
  ASSUME ChartFit, ChartInv, now' \in now .. MaxNow, RowsOK(chartRows', now'),
         RowsOK(chartRows', now), Later(chartRows, chartRows', now), Chart!KeepPage
  PROVE  ChartInv'
<1>1. UNCHANGED <<preset, rangeKey, chart, cursor, call, opening, mixed>>
  BY DEF Chart!KeepPage
<1>2. /\ now \in 0 .. MaxNow /\ RowsOK(chartRows, now) /\ MaxNow \in Nat
      /\ chart # NoChart => ChartOK(chart, cursor, rangeKey, mixed, chartRows, now)
      /\ call # NoCall => FetchOK(call)
      /\ opening # NoCall => DetailOK(opening)
  BY DEF ChartInv, ChartFit
<1>3. PICK n \in 0 .. MaxNow : n = now
  BY <1>2
<1>4. PICK m \in n .. MaxNow : m = now'
  BY <1>3
<1>5. PICK rs : rs = chartRows
  OBVIOUS
<1>6. PICK new : new = chartRows'
  OBVIOUS
<1>7. RowsOK(rs, n) /\ RowsOK(new, n) /\ Later(rs, new, n)
  BY <1>2, <1>3, <1>5, <1>6
<1>8. ASSUME chart # NoChart
      PROVE  ChartOK(chart, cursor, rangeKey, mixed, new, m)
  <2>1. ChartOK(chart, cursor, rangeKey, mixed, rs, n)
    BY <1>2, <1>3, <1>5, <1>8
  <2>2. QED
    BY <1>7, <2>1, ChartStays
<1>9. ASSUME call # NoCall
      PROVE  FetchOK(call)'
  <2>1. FetchOK(call)
    BY <1>2, <1>9
  <2>2. AskedOK(call.preset, call.from, call.to, m)
    <3>1. AskedOK(call.preset, call.from, call.to, n)
      BY <1>3, <2>1 DEF FetchOK
    <3>2. QED
      BY <3>1, AskedEarlier
  <2>3. ASSUME call.answer # NoAnswer
        PROVE  AnswerOK(call.answer, call.from, call.after, new, m)
    <3>1. AnswerOK(call.answer, call.from, call.after, rs, n)
      BY <1>3, <1>5, <2>1, <2>3 DEF FetchOK
    <3>2. QED
      BY <1>7, <3>1, AnswersStay
  <2>4. AfterOK(call.preset, call.from, call.after)'
    <3>1. AfterOK(call.preset, call.from, call.after)
      BY <2>1 DEF FetchOK
    <3>2. call.after \in 0 .. now => call.after \in 0 .. now'
      BY <1>2, <1>3, <1>4
    <3>3. QED
      BY <1>1, <3>1, <3>2 DEF AfterOK
  <2>5. QED
    BY <1>1, <1>4, <1>6, <2>1, <2>2, <2>3, <2>4 DEF FetchOK
<1>10. now' \in 0 .. MaxNow /\ (cursor \in 0 .. now => cursor \in 0 .. now')
  BY <1>2, <1>3, <1>4
<1>11. ASSUME opening # NoCall
       PROVE  DetailOK(opening)'
  <2>1. DetailOK(opening)
    BY <1>2, <1>11
  <2>2. ASSUME opening.answer # NoAnswer
        PROVE  AnswerOK(opening.answer, Chart!NoTime, Chart!NoTime, new, m)
    <3>1. AnswerOK(opening.answer, Chart!NoTime, Chart!NoTime, rs, n)
      BY <1>3, <1>5, <2>1, <2>2 DEF DetailOK
    <3>2. QED
      BY <1>7, <3>1, AnswersStay
  <2>3. QED
    BY <1>1, <1>4, <1>6, <2>1, <2>2 DEF DetailOK
<1>12. QED
  BY <1>1, <1>4, <1>6, <1>8, <1>9, <1>10, <1>11 DEF ChartInv

LEMMA ChartTicks ==
  ASSUME ChartFit, ChartInv, Chart!Tick
  PROVE  ChartInv'
<1>1. now \in 0 .. MaxNow /\ RowsOK(chartRows, now) /\ MaxNow \in Nat
  BY DEF ChartInv, ChartFit
<1>2. now < MaxNow /\ now' = now + 1 /\ chartRows' = chartRows /\ Chart!KeepPage
  BY DEF Chart!Tick
<1>3. now' \in now .. MaxNow
  BY <1>1, <1>2
<1>4. ASSUME NEW i \in DOMAIN chartRows
      PROVE  /\ chartRows[i].created <= now'
             /\ \/ chartRows[i].connected \in chartRows[i].created .. now'
                \/ chartRows[i].connected = Chart!Never
             /\ \/ chartRows[i].disconnected \in chartRows[i].created .. now'
                \/ chartRows[i].disconnected = Chart!Never
  <2>1. chartRows[i].created \in Int
    BY <1>1, RowsTyped
  <2>2. /\ chartRows[i].created <= now
        /\ \/ chartRows[i].connected \in chartRows[i].created .. now
           \/ chartRows[i].connected = Chart!Never
        /\ \/ chartRows[i].disconnected \in chartRows[i].created .. now
           \/ chartRows[i].disconnected = Chart!Never
    BY <1>1 DEF RowsOK
  <2>3. QED
    BY <1>1, <1>2, <2>1, <2>2
<1>5. RowsOK(chartRows, now')
  BY <1>1, <1>4 DEF RowsOK
<1>6. QED
  BY <1>1, <1>2, <1>3, <1>5, NothingChanges, ChartWaits

LEMMA ChartVisit ==
  ASSUME ChartFit, ChartInv, NEW s \in Stream, Chart!Visit(s)
  PROVE  ChartInv'
<1>1. now \in 0 .. MaxNow /\ RowsOK(chartRows, now) /\ MaxNow \in Nat
  BY DEF ChartInv, ChartFit
<1>2. PICK r : r = Chart!NewRow(s, now)
  OBVIOUS
<1>3. /\ r \in ChartRow /\ r.stream = s /\ r.created = now
      /\ r.connected = Chart!Never /\ r.disconnected = Chart!Never
  BY <1>1, <1>2 DEF Chart!NewRow, ChartRow, Chart!Never
<1>4. chartRows' = Append(chartRows, r) /\ now' = now /\ Chart!KeepPage
  BY <1>2 DEF Chart!Visit
<1>5. PICK k \in Nat : k = Len(chartRows) /\ DOMAIN chartRows = 1 .. k
  BY <1>1 DEF RowsOK
<1>6. /\ chartRows' \in Seq(ChartRow) /\ DOMAIN chartRows' = 1 .. (k + 1)
      /\ \A i \in 1 .. k : chartRows'[i] = chartRows[i]
      /\ chartRows'[k + 1] = r
  <2>1. chartRows \in Seq(ChartRow)
    BY <1>1 DEF RowsOK
  <2>2. QED
    BY <1>3, <1>4, <1>5, <2>1
<1>7. \A i \in DOMAIN chartRows' : i \in DOMAIN chartRows \/ i = k + 1
  BY <1>5, <1>6
<1>8. ASSUME NEW i \in DOMAIN chartRows'
      PROVE  chartRows'[1].created <= chartRows'[i].created
  <2>1. CASE k = 0
    <3>1. i = k + 1 /\ k + 1 = 1
      BY <1>6, <2>1
    <3>2. chartRows'[1] = r /\ chartRows'[i] = r
      BY <1>6, <3>1
    <3>3. QED
      BY <1>1, <1>3, <3>2
  <2>2. CASE k # 0
    <3>1. 1 \in DOMAIN chartRows /\ chartRows'[1] = chartRows[1]
      BY <1>5, <1>6, <2>2
    <3>2. CASE i = k + 1
      <4>1. chartRows[1].created <= now
        BY <1>1, <3>1 DEF RowsOK
      <4>2. QED
        BY <1>3, <1>6, <3>1, <3>2, <4>1
    <3>3. CASE i \in DOMAIN chartRows
      <4>1. chartRows[1].created <= chartRows[i].created /\ chartRows'[i] = chartRows[i]
        BY <1>1, <1>5, <1>6, <3>3 DEF RowsOK
      <4>2. QED
        BY <3>1, <4>1
    <3>4. QED
      BY <1>7, <3>2, <3>3
  <2>3. QED
    BY <2>1, <2>2
<1>9. ASSUME NEW i \in DOMAIN chartRows'
      PROVE  /\ chartRows'[i].created <= now
             /\ \/ chartRows'[i].connected \in chartRows'[i].created .. now
                \/ chartRows'[i].connected = Chart!Never
             /\ \/ chartRows'[i].disconnected \in chartRows'[i].created .. now
                \/ chartRows'[i].disconnected = Chart!Never
  <2>1. CASE i = k + 1
    BY <1>1, <1>3, <1>6, <2>1
  <2>2. CASE i \in DOMAIN chartRows
    <3>1. chartRows'[i] = chartRows[i]
      BY <1>5, <1>6, <2>2
    <3>2. QED
      BY <1>1, <2>2, <3>1 DEF RowsOK
  <2>3. QED
    BY <1>7, <2>1, <2>2
<1>10. RowsOK(chartRows', now)
  BY <1>6, <1>8, <1>9 DEF RowsOK
<1>11. Later(chartRows, chartRows', now)
  <2>1. DOMAIN chartRows \subseteq DOMAIN chartRows'
    BY <1>5, <1>6
  <2>2. \A i \in DOMAIN chartRows : chartRows'[i] = chartRows[i]
    BY <1>5, <1>6
  <2>3. \A i \in DOMAIN chartRows' \ DOMAIN chartRows : chartRows'[i] = r
    BY <1>6, <1>7
  <2>4. QED
    BY <1>3, <2>1, <2>2, <2>3 DEF Later
<1>12. now' \in now .. MaxNow /\ RowsOK(chartRows', now')
  BY <1>1, <1>4, <1>10
<1>13. QED
  BY <1>4, <1>10, <1>11, <1>12, ChartWaits

\* One row is written, of a moment that had not come for it.
LEMMA ChartRowChanges ==
  ASSUME ChartFit, ChartInv, NEW i \in DOMAIN chartRows, NEW r,
         chartRows' = [chartRows EXCEPT ![i] = r], now' = now, Chart!KeepPage,
         r.stream = chartRows[i].stream, r.created = chartRows[i].created,
         r \in ChartRow,
         \/ r.connected = chartRows[i].connected
         \/ chartRows[i].connected = Chart!Never /\ r.connected = now,
         \/ r.disconnected = chartRows[i].disconnected
         \/ chartRows[i].disconnected = Chart!Never /\ r.disconnected = now
  PROVE  ChartInv'
<1>1. now \in 0 .. MaxNow /\ RowsOK(chartRows, now) /\ MaxNow \in Nat
  BY DEF ChartInv, ChartFit
<1>2. chartRows \in Seq(ChartRow)
  BY <1>1 DEF RowsOK
<1>3. /\ chartRows' \in Seq(ChartRow) /\ DOMAIN chartRows' = DOMAIN chartRows
      /\ chartRows'[i] = r /\ \A j \in DOMAIN chartRows \ {i} : chartRows'[j] = chartRows[j]
  BY <1>2
<1>4. \A j \in DOMAIN chartRows : chartRows'[j].created = chartRows[j].created
  BY <1>3
<1>5. ASSUME NEW j \in DOMAIN chartRows'
      PROVE  chartRows'[1].created <= chartRows'[j].created
  <2>1. j \in DOMAIN chartRows /\ 1 \in DOMAIN chartRows
    BY <1>2, <1>3
  <2>2. chartRows[1].created <= chartRows[j].created
    BY <1>1, <2>1 DEF RowsOK
  <2>3. QED
    BY <1>4, <2>1, <2>2
<1>6. ASSUME NEW j \in DOMAIN chartRows'
      PROVE  /\ chartRows'[j].created <= now
             /\ \/ chartRows'[j].connected \in chartRows'[j].created .. now
                \/ chartRows'[j].connected = Chart!Never
             /\ \/ chartRows'[j].disconnected \in chartRows'[j].created .. now
                \/ chartRows'[j].disconnected = Chart!Never
  <2>1. j \in DOMAIN chartRows
    BY <1>3
  <2>2. /\ chartRows[j].created <= now /\ chartRows[j].created \in 0 .. MaxNow
        /\ \/ chartRows[j].connected \in chartRows[j].created .. now
           \/ chartRows[j].connected = Chart!Never
        /\ \/ chartRows[j].disconnected \in chartRows[j].created .. now
           \/ chartRows[j].disconnected = Chart!Never
    BY <1>1, <2>1, RowsTyped DEF RowsOK
  <2>3. CASE j # i
    <3>1. chartRows'[j] = chartRows[j]
      BY <1>3, <2>1, <2>3
    <3>2. QED
      BY <2>2, <3>1
  <2>4. CASE j = i
    <3>1. chartRows'[j] = r /\ chartRows'[j].created = chartRows[j].created
      BY <1>3, <1>4, <2>1, <2>4
    <3>2. now \in chartRows[j].created .. now
      BY <1>1, <2>2
    <3>3. r.connected \in chartRows[j].created .. now \/ r.connected = Chart!Never
      BY <2>2, <2>4, <3>2
    <3>4. r.disconnected \in chartRows[j].created .. now \/ r.disconnected = Chart!Never
      BY <2>2, <2>4, <3>2
    <3>5. QED
      BY <2>2, <3>1, <3>3, <3>4
  <2>5. QED
    BY <2>3, <2>4
<1>7. RowsOK(chartRows', now)
  BY <1>3, <1>5, <1>6 DEF RowsOK
<1>8. Later(chartRows, chartRows', now)
  <2> SUFFICES ASSUME NEW j \in DOMAIN chartRows
               PROVE  /\ chartRows'[j].stream = chartRows[j].stream
                      /\ chartRows'[j].created = chartRows[j].created
                      /\ \/ chartRows'[j].connected = chartRows[j].connected
                         \/ chartRows[j].connected = Chart!Never /\ chartRows'[j].connected = now
                      /\ \/ chartRows'[j].disconnected = chartRows[j].disconnected
                         \/ /\ chartRows[j].disconnected = Chart!Never
                            /\ chartRows'[j].disconnected = now
    BY <1>3 DEF Later
  <2>1. CASE j = i
    BY <1>3, <2>1
  <2>2. CASE j # i
    <3>1. chartRows'[j] = chartRows[j]
      BY <1>3, <2>2
    <3>2. QED
      BY <3>1
  <2>3. QED
    BY <2>1, <2>2
<1>9. now' \in now .. MaxNow /\ RowsOK(chartRows', now')
  BY <1>1, <1>7
<1>10. QED
  BY <1>7, <1>8, <1>9, ChartWaits

LEMMA ChartListener ==
  ASSUME ChartFit, ChartInv, NEW i \in DOMAIN chartRows, Chart!Connect(i) \/ Chart!Leave(i)
  PROVE  ChartInv'
<1>1. now \in 0 .. MaxNow /\ RowsOK(chartRows, now) /\ MaxNow \in Nat
  BY DEF ChartInv, ChartFit
<1>2. chartRows[i] \in ChartRow
  BY <1>1 DEF RowsOK
<1>3. now \in 0 .. Chart!Never
  BY <1>1 DEF Chart!Never
<1>4. CASE Chart!Connect(i)
  <2>1. PICK r : r = [chartRows[i] EXCEPT !.connected = now]
    OBVIOUS
  <2>2. /\ r \in ChartRow /\ r.stream = chartRows[i].stream /\ r.created = chartRows[i].created
        /\ r.connected = now /\ r.disconnected = chartRows[i].disconnected
    BY <1>2, <1>3, <2>1 DEF ChartRow
  <2>3. /\ chartRows' = [chartRows EXCEPT ![i] = r] /\ chartRows[i].connected = Chart!Never
        /\ now' = now /\ Chart!KeepPage
    BY <1>4, <2>1 DEF Chart!Connect
  <2>4. QED
    BY <2>2, <2>3, ChartRowChanges
<1>5. CASE Chart!Leave(i)
  <2>1. PICK r : r = [chartRows[i] EXCEPT !.disconnected = now]
    OBVIOUS
  <2>2. /\ r \in ChartRow /\ r.stream = chartRows[i].stream /\ r.created = chartRows[i].created
        /\ r.connected = chartRows[i].connected /\ r.disconnected = now
    BY <1>2, <1>3, <2>1 DEF ChartRow
  <2>3. /\ chartRows' = [chartRows EXCEPT ![i] = r] /\ chartRows[i].disconnected = Chart!Never
        /\ now' = now /\ Chart!KeepPage
    BY <1>5, <2>1 DEF Chart!Leave
  <2>4. QED
    BY <2>2, <2>3, ChartRowChanges
<1>6. QED
  BY <1>4, <1>5

\* A request is for a part only while the chart is of its range, and for what begins no earlier.
LEMMA ChartAsks ==
  ASSUME ChartFit, ChartInv, NEW p \in {"all", "window"}, call' = Chart!Request(p), preset' = p,
         UNCHANGED <<now, chartRows, rangeKey, chart, cursor, opening, mixed>>
  PROVE  ChartInv'
<1>1. now \in 0 .. MaxNow /\ MaxNow \in Nat /\ Window \in Nat
  BY DEF ChartInv, ChartFit
<1>2. PICK c : c = Chart!Request(p)
  OBVIOUS
<1>3. /\ c.preset = p /\ c.from = Chart!RangeOf(p).from /\ c.to = Chart!RangeOf(p).to
      /\ c.after = (IF Chart!CanFetchIncrementally(p) THEN cursor ELSE Chart!NoTime)
      /\ c.answer = NoAnswer
      /\ c = [preset |-> c.preset, from |-> c.from, to |-> c.to, after |-> c.after,
              answer |-> c.answer]
  BY <1>2 DEF Chart!Request
<1>4. p # "all" => c.from = Earliest(now) /\ c.to = now
  BY <1>3 DEF Chart!RangeOf, Earliest
<1>5. p = "all" => c.from = Chart!NoTime /\ c.to = Chart!NoTime
  BY <1>3 DEF Chart!RangeOf
<1>6. AskedOK(p, c.from, c.to, now)
  BY <1>1, <1>4, <1>5 DEF AskedOK
<1>7. AfterOK(p, c.from, c.after)
  <2> SUFFICES ASSUME c.after # Chart!NoTime
               PROVE  /\ c.after \in 0 .. now /\ rangeKey = p /\ c.after = cursor
                      /\ chart.from <= c.from
    BY DEF AfterOK
  <2>1. chart # NoChart /\ rangeKey = p /\ c.after = cursor /\ cursor # Chart!NoTime
    BY <1>3 DEF Chart!CanFetchIncrementally
  <2>2. BeganAt(p, chart.from, now) /\ c.after \in 0 .. now
    BY <2>1 DEF ChartInv, ChartOK
  <2>3. Chart!NoTime \in Int /\ Chart!NoTime < 0
    BY DEF Chart!NoTime, ChartFit
  <2>4. CASE p = "all"
    <3>1. chart.from = Chart!NoTime /\ c.from = Chart!NoTime
      BY <1>5, <2>2, <2>4 DEF BeganAt
    <3>2. QED
      BY <2>1, <2>2, <2>3, <3>1
  <2>5. CASE p # "all"
    <3>1. /\ chart.from = Chart!NoTime \/ chart.from \in 0 .. Earliest(now)
          /\ c.from = Earliest(now) /\ Earliest(now) \in Nat
      BY <1>1, <1>4, <2>2, <2>5 DEF BeganAt, Earliest
    <3>2. chart.from <= c.from
      BY <2>3, <3>1
    <3>3. QED
      BY <2>1, <2>2, <3>2
  <2>6. QED
    BY <2>4, <2>5
<1>8. FetchOK(c)
  BY <1>3, <1>6, <1>7 DEF FetchOK
<1>9. FetchOK(call)'
  <2>1. call' = c
    BY <1>2
  <2>2. AfterOK(p, c.from, c.after)'
    BY <1>7 DEF AfterOK
  <2>3. QED
    BY <1>3, <1>6, <2>1, <2>2 DEF FetchOK
<1>10. (opening # NoCall => DetailOK(opening))'
  BY DEF ChartInv, DetailOK
<1>11. QED
  BY <1>9, <1>10 DEF ChartInv

LEMMA ChartServes ==
  ASSUME ChartFit, ChartInv, Chart!Serve
  PROVE  ChartInv'
<1>1. now \in 0 .. MaxNow /\ RowsOK(chartRows, now) /\ call # NoCall /\ FetchOK(call)
  BY DEF ChartInv, Chart!Serve
<1>2. PICK s : s = Chart!Series(call.from, call.to, call.after)
  OBVIOUS
<1>3. call' = [call EXCEPT !.answer = s]
      /\ UNCHANGED <<now, chartRows, preset, rangeKey, chart, cursor, opening, mixed>>
  BY <1>2 DEF Chart!Serve
<1>4. call = [preset |-> call.preset, from |-> call.from, to |-> call.to, after |-> call.after,
              answer |-> call.answer]
  BY <1>1 DEF FetchOK
<1>5. call' = [preset |-> call.preset, from |-> call.from, to |-> call.to,
               after |-> call.after, answer |-> s]
  BY <1>3, <1>4
<1>6. /\ call'.preset = call.preset /\ call'.from = call.from /\ call'.to = call.to
      /\ call'.after = call.after /\ call'.answer = s
  BY <1>5
<1>7. call.after = Chart!NoTime \/ call.after \in 0 .. now
  BY <1>1 DEF FetchOK, AfterOK
<1>8. AskedOK(call.preset, call.from, call.to, now) /\ call.preset \in {"all", "window"}
      /\ AfterOK(call.preset, call.from, call.after)
  BY <1>1 DEF FetchOK
<1>9. AnswerOK(s, call.from, call.after, chartRows, now)
  BY <1>1, <1>2, <1>7, <1>8, SeriesIs
<1>10. AfterOK(call.preset, call.from, call.after)'
  <2>1. AfterOK(call.preset, call.from, call.after)
    BY <1>8
  <2>2. QED
    BY <1>3, <1>6, <2>1 DEF AfterOK
<1>11. FetchOK(call)'
  BY <1>3, <1>5, <1>6, <1>8, <1>9, <1>10 DEF FetchOK
<1>12. (opening # NoCall => DetailOK(opening))'
  BY <1>3 DEF ChartInv, DetailOK
<1>13. QED
  BY <1>3, <1>11, <1>12 DEF ChartInv

LEMMA ChartDelivers ==
  ASSUME ChartFit, ChartInv, Chart!Deliver
  PROVE  ChartInv'
<1>1. /\ now \in 0 .. MaxNow /\ RowsOK(chartRows, now) /\ FetchOK(call)
      /\ call.answer # NoAnswer /\ mixed \in BOOLEAN
  BY DEF ChartInv, Chart!Deliver
<1>2. PICK s : s = call.answer
  OBVIOUS
<1>3. PICK f : f = call.from
  OBVIOUS
<1>4. PICK after : after = call.after
  OBVIOUS
<1>5. PICK key \in {"all", "window"} : key = call.preset
  BY <1>1 DEF FetchOK
<1>6. AskedOK(key, f, call.to, now) /\ AnswerOK(s, f, after, chartRows, now)
      /\ AfterOK(key, f, after)
  BY <1>1, <1>2, <1>3, <1>4, <1>5 DEF FetchOK
<1>7. BeganAt(key, f, now) /\ now \in now .. MaxNow
  <2>1. now \in now .. MaxNow
    BY <1>1 DEF ChartFit
  <2>2. QED
    BY <1>1, <1>6, <2>1, AskedEarlier
<1>8. PICK top : top = (IF DOMAIN s.points = {} THEN cursor ELSE Chart!NewestBucket(s))
  OBVIOUS
<1>9. /\ call' = NoCall /\ UNCHANGED <<now, chartRows, preset, opening>> /\ cursor' = top
      /\ after = Chart!NoTime =>
            chart' = Chart!Whole(s, f) /\ rangeKey' = key /\ mixed' = FALSE
      /\ after # Chart!NoTime =>
            /\ chart' = (IF chart = NoChart THEN NoChart ELSE Chart!Merge(chart, s, f))
            /\ rangeKey' = rangeKey
            /\ mixed' = (mixed \/ cursor # after \/ chart.width # s.width)
  BY <1>2, <1>3, <1>4, <1>5, <1>8 DEF Chart!Deliver
<1>10. cursor' \in {Chart!NoTime} \cup 0 .. now
  <2>1. CASE DOMAIN s.points = {}
    BY <1>8, <1>9, <2>1 DEF ChartInv
  <2>2. CASE DOMAIN s.points # {}
    <3>1. DOMAIN s.points \subseteq Int /\ now \in Nat
      BY <1>1, <1>6 DEF AnswerOK, ChartFit
    <3>2. PICK last \in 0 .. now : Answers(s, f, after, last, chartRows)
      BY <1>6 DEF AnswerOK
    <3>3. Chart!NewestBucket(s) = last
      BY <2>2, <3>1, <3>2, NewestIs
    <3>4. QED
      BY <1>8, <1>9, <2>2, <3>3
  <2>3. QED
    BY <2>1, <2>2
<1>11. PICK new : new = chart'
  OBVIOUS
<1>12. /\ rangeKey' \in {"all", "window", "none"} /\ mixed' \in BOOLEAN
       /\ new # NoChart => ChartOK(new, top, rangeKey', mixed', chartRows, now)
  <2>1. CASE after = Chart!NoTime
    <3>1. new = Chart!Whole(s, f) /\ mixed' = FALSE /\ rangeKey' = key
      BY <1>9, <1>11, <2>1
    <3>2. AnswerOK(s, f, Chart!NoTime, chartRows, now)
      BY <1>6, <2>1
    <3>3. top \in {Chart!NoTime, Chart!NewestBucket(s)}
      BY <1>8, <3>2 DEF AnswerOK
    <3>4. ChartOK(new, top, key, FALSE, chartRows, now)
      BY <1>1, <1>7, <3>1, <3>2, <3>3, WholeChart
    <3>5. QED
      BY <3>1, <3>4
  <2>2. CASE after # Chart!NoTime
    <3>1. /\ after \in 0 .. now
          /\ \/ rangeKey = key /\ after = cursor /\ chart.from <= f
             \/ rangeKey = "none" /\ cursor = Chart!NoTime
      BY <1>6, <2>2 DEF AfterOK
    <3>2. BeganAt(rangeKey, f, now)
      BY <1>7, <3>1 DEF BeganAt
    <3>3. PICK also \in BOOLEAN : also = (mixed \/ cursor # after \/ chart.width # s.width)
      OBVIOUS
    <3>4. mixed' = also /\ rangeKey' = rangeKey /\ rangeKey \in {"all", "window", "none"}
      BY <1>9, <2>2, <3>3 DEF ChartInv
    <3>5. ASSUME new # NoChart
          PROVE  ChartOK(new, top, rangeKey, also, chartRows, now)
      <4>1. chart # NoChart /\ new = Chart!Merge(chart, s, f)
        BY <1>9, <1>11, <2>2, <3>5
      <4>2. ChartOK(chart, cursor, rangeKey, mixed, chartRows, now)
        BY <4>1 DEF ChartInv
      <4>3. ~ also => ~ mixed /\ after = cursor /\ chart.from <= f /\ chart.width = s.width
        <5>1. ~ also => ~ mixed /\ cursor = after /\ chart.width = s.width
          BY <3>3
        <5>2. after = cursor => chart.from <= f
          BY <2>2, <3>1
        <5>3. QED
          BY <5>1, <5>2
      <4>4. /\ DOMAIN s.points = {} => top = cursor
            /\ DOMAIN s.points # {} => top = Chart!NewestBucket(s)
        BY <1>8
      <4>5. QED
        BY <1>1, <1>6, <3>1, <3>2, <4>1, <4>2, <4>3, <4>4, MergedChart
    <3>6. QED
      BY <3>3, <3>4, <3>5
  <2>3. QED
    BY <2>1, <2>2
<1>13. (opening # NoCall => DetailOK(opening))'
  BY <1>9 DEF ChartInv, DetailOK
<1>14. (chart # NoChart => ChartOK(chart, cursor, rangeKey, mixed, chartRows, now))'
  BY <1>9, <1>11, <1>12
<1>15. now' \in 0 .. MaxNow /\ RowsOK(chartRows, now)' /\ preset' \in {"all", "window"}
  BY <1>9 DEF ChartInv
<1>16. QED
  BY <1>9, <1>10, <1>12, <1>13, <1>14, <1>15 DEF ChartInv

\* A refetch in flight is told by the range and the cursor, which are cleared, that it was
\* overtaken.
LEMMA ChartReloads ==
  ASSUME ChartFit, ChartInv, Chart!LoadDetail
  PROVE  ChartInv'
<1>1. /\ opening' = [answer |-> NoAnswer] /\ chart' = NoChart /\ cursor' = Chart!NoTime
      /\ rangeKey' = "none" /\ mixed' = FALSE /\ UNCHANGED <<now, chartRows, preset, call>>
  BY DEF Chart!LoadDetail
<1>2. DetailOK(opening)'
  BY <1>1 DEF DetailOK
<1>3. (call # NoCall => FetchOK(call))'
  BY <1>1 DEF ChartInv, FetchOK, AfterOK
<1>4. QED
  BY <1>1, <1>2, <1>3 DEF ChartInv

LEMMA ChartDetailServed ==
  ASSUME ChartFit, ChartInv, Chart!ServeDetail
  PROVE  ChartInv'
<1>1. now \in 0 .. MaxNow /\ RowsOK(chartRows, now)
  BY DEF ChartInv
<1>2. PICK s : s = Chart!Series(Chart!NoTime, Chart!NoTime, Chart!NoTime)
  OBVIOUS
<1>3. /\ opening' = [answer |-> s]
      /\ UNCHANGED <<now, chartRows, preset, rangeKey, chart, cursor, call, mixed>>
  BY <1>2 DEF Chart!ServeDetail
<1>4. AskedOK("all", Chart!NoTime, Chart!NoTime, now)
  BY DEF AskedOK
<1>5. AnswerOK(s, Chart!NoTime, Chart!NoTime, chartRows, now)
  BY <1>1, <1>2, <1>4, SeriesIs
<1>6. DetailOK(opening)'
  BY <1>3, <1>5 DEF DetailOK
<1>7. (call # NoCall => FetchOK(call))'
  BY <1>3 DEF ChartInv, FetchOK, AfterOK
<1>8. QED
  BY <1>3, <1>6, <1>7 DEF ChartInv

LEMMA ChartDetailDelivered ==
  ASSUME ChartFit, ChartInv, Chart!DeliverDetail
  PROVE  ChartInv'
<1>1. now \in 0 .. MaxNow /\ DetailOK(opening) /\ opening.answer # NoAnswer
  BY DEF ChartInv, Chart!DeliverDetail
<1>2. PICK s : s = opening.answer
  OBVIOUS
<1>3. AnswerOK(s, Chart!NoTime, Chart!NoTime, chartRows, now)
  BY <1>1, <1>2 DEF DetailOK
<1>4. /\ opening' = NoCall /\ chart' = Chart!Whole(s, Chart!NoTime)
      /\ mixed' = (cursor # Chart!NoTime)
      /\ UNCHANGED <<now, chartRows, preset, rangeKey, cursor, call>>
  BY <1>2 DEF Chart!DeliverDetail
<1>5. PICK new : new = Chart!Whole(s, Chart!NoTime)
  OBVIOUS
<1>6. BeganAt(rangeKey, Chart!NoTime, now)
  BY DEF BeganAt
<1>7. PICK mix \in BOOLEAN : mix = (cursor # Chart!NoTime)
  OBVIOUS
<1>8. ~ mix => cursor \in {Chart!NoTime, Chart!NewestBucket(s)}
  BY <1>7
<1>9. ChartOK(new, cursor, rangeKey, mix, chartRows, now)
  BY <1>1, <1>3, <1>5, <1>6, <1>8, WholeChart
<1>10. ChartOK(chart, cursor, rangeKey, mixed, chartRows, now)'
  BY <1>4, <1>5, <1>7, <1>9
<1>11. (call # NoCall => FetchOK(call))'
  <2> SUFFICES ASSUME call # NoCall
               PROVE  FetchOK(call)'
    BY <1>4
  <2>1. FetchOK(call)
    BY DEF ChartInv
  <2>2. AfterOK(call.preset, call.from, call.after)'
    <3>1. AfterOK(call.preset, call.from, call.after)
      BY <2>1 DEF FetchOK
    <3>2. new.from = Chart!NoTime
      BY <1>5 DEF Chart!Whole
    <3>3. Chart!NoTime <= call.from
      <4>1. AskedOK(call.preset, call.from, call.to, now)
        BY <2>1 DEF FetchOK
      <4>2. Chart!NoTime \in Int /\ Chart!NoTime < 0 /\ Window \in Nat /\ MaxNow \in Nat
        BY DEF Chart!NoTime, ChartFit
      <4>3. QED
        BY <1>1, <4>1, <4>2 DEF AskedOK, Earliest
    <3>4. QED
      BY <1>4, <1>5, <3>1, <3>2, <3>3 DEF AfterOK
  <2>3. QED
    BY <1>4, <2>1, <2>2 DEF FetchOK
<1>12. mixed' \in BOOLEAN
  BY <1>4
<1>13. QED
  BY <1>4, <1>10, <1>11, <1>12 DEF ChartInv

LEMMA ChartDetailFails ==
  ASSUME ChartFit, ChartInv, Chart!FailDetail
  PROVE  ChartInv'
<1>1. /\ opening' = NoCall
      /\ UNCHANGED <<now, chartRows, preset, rangeKey, chart, cursor, call, mixed>>
  BY DEF Chart!FailDetail
<1>2. (call # NoCall => FetchOK(call))'
  BY <1>1 DEF ChartInv, FetchOK, AfterOK
<1>3. QED
  BY <1>1, <1>2 DEF ChartInv

LEMMA ChartStep == ChartFit /\ ChartInv /\ [Chart!Next]_(Chart!vars) => ChartInv'
<1> SUFFICES ASSUME ChartFit, ChartInv, [Chart!Next]_(Chart!vars)
             PROVE  ChartInv'
  OBVIOUS
<1>1. CASE Chart!Tick
  BY <1>1, ChartTicks
<1>2. ASSUME NEW s \in Stream, Chart!Visit(s)
      PROVE  ChartInv'
  BY <1>2, ChartVisit
<1>3. ASSUME NEW i \in DOMAIN chartRows, Chart!Connect(i) \/ Chart!Leave(i)
      PROVE  ChartInv'
  BY <1>3, ChartListener
<1>4. CASE Chart!Refresh
  <2>1. PICK p \in {"all", "window"} : p = preset
    BY DEF ChartInv
  <2>2. QED
    BY <1>4, <2>1, ChartAsks DEF Chart!Refresh
<1>5. CASE Chart!Serve
  BY <1>5, ChartServes
<1>6. CASE Chart!Deliver
  BY <1>6, ChartDelivers
<1>7. CASE Chart!Fail
  <2>1. /\ call' = NoCall
        /\ UNCHANGED <<now, chartRows, preset, rangeKey, chart, cursor, opening, mixed>>
    BY <1>7 DEF Chart!Fail
  <2>2. (opening # NoCall => DetailOK(opening))'
    BY <2>1 DEF ChartInv, DetailOK
  <2>3. QED
    BY <2>1, <2>2 DEF ChartInv
<1>8. ASSUME NEW p \in {"all", "window"}, Chart!ChooseRange(p)
      PROVE  ChartInv'
  BY <1>8, ChartAsks DEF Chart!ChooseRange
<1>9. ASSUME NEW k \in {table.page - 1, table.page + 1}, Chart!ShowPage(k)
      PROVE  ChartInv'
  <2>1. /\ call = NoCall /\ opening = NoCall
        /\ UNCHANGED <<now, chartRows, preset, rangeKey, chart, cursor, call, opening, mixed>>
    BY <1>9 DEF Chart!ShowPage
  <2>2. QED
    BY <2>1 DEF ChartInv
<1>10. CASE UNCHANGED Chart!vars
  <2>1. UNCHANGED <<now, chartRows, preset, rangeKey, chart, cursor, call, opening, mixed>>
    BY <1>10 DEF Chart!vars
  <2>2. (call # NoCall => FetchOK(call))' /\ (opening # NoCall => DetailOK(opening))'
    BY <2>1 DEF ChartInv, FetchOK, AfterOK, DetailOK
  <2>3. QED
    BY <2>1, <2>2 DEF ChartInv
<1>11. CASE Chart!LoadDetail
  BY <1>11, ChartReloads
<1>12. CASE Chart!ServeDetail
  BY <1>12, ChartDetailServed
<1>13. CASE Chart!DeliverDetail
  BY <1>13, ChartDetailDelivered
<1>14. CASE Chart!FailDetail
  BY <1>14, ChartDetailFails
<1>15. QED
  BY <1>1, <1>2, <1>3, <1>4, <1>5, <1>6, <1>7, <1>8, <1>9, <1>10, <1>11, <1>12, <1>13, <1>14
     DEF Chart!Next

LEMMA ChartTyped == ChartFit /\ ChartInv => Chart!TypeOK
<1> SUFFICES ASSUME ChartFit, ChartInv
             PROVE  Chart!TypeOK
  OBVIOUS
<1>1. now \in 0 .. MaxNow /\ RowsOK(chartRows, now) /\ MaxNow \in Nat /\ Week \in Nat
  BY DEF ChartInv, ChartFit
<1>2. chartRows \in Seq(ChartRow)
  BY <1>1 DEF RowsOK
<1>3. cursor \in Chart!NoTime .. MaxNow
  <2>1. cursor = Chart!NoTime \/ cursor \in 0 .. now
    BY DEF ChartInv
  <2>2. QED
    BY <1>1, <2>1 DEF Chart!NoTime
<1>4. mixed \in BOOLEAN /\ (chart # NoChart => chart.width \in {Fine, Coarse})
  BY DEF ChartInv, ChartOK
<1>5. preset \in {"all", "window"} /\ rangeKey \in {"all", "window", "none"}
  BY DEF ChartInv
<1>6. QED
  BY <1>1, <1>2, <1>3, <1>4, <1>5 DEF Chart!TypeOK, ChartRow

LEMMA ChartSafe == ChartInv => Chart!ChartIsTrue
<1> SUFFICES ASSUME ChartInv, ~ mixed
             PROVE  Chart!ClosedBucketsAreTrue /\ Chart!ChartHasNoHole
  BY DEF Chart!ChartIsTrue
<1> SUFFICES ASSUME chart # NoChart
             PROVE  Chart!ClosedBucketsAreTrue /\ Chart!ChartHasNoHole
  BY DEF Chart!ClosedBucketsAreTrue, Chart!ChartHasNoHole
<1>1. ChartOK(chart, cursor, rangeKey, mixed, chartRows, now)
  BY DEF ChartInv
<1>2. PICK top \in 0 .. now : UpTo(chart, cursor, top, chartRows)
  BY <1>1 DEF ChartOK
<1>3. PICK D \in SUBSET Int : D = DOMAIN chart.points
  BY <1>1 DEF ChartOK
<1>4. Grid(D, chart.width, top) /\ top \in D /\ cursor \in {Chart!NoTime, top}
  BY <1>2, <1>3 DEF UpTo
<1>5. \A t \in D : t <= top /\ (t # top => t + chart.width \in D)
  BY <1>4 DEF Grid
<1>6. Chart!NewestBucket(chart) = top
  <2>1. Chart!Max(D) = top
    BY <1>4, <1>5, GreatestIs
  <2>2. QED
    BY <1>3, <2>1 DEF Chart!NewestBucket
<1>7. Chart!ChartHasNoHole
  BY <1>3, <1>4, <1>5, <1>6 DEF Chart!ChartHasNoHole
<1>8. ASSUME NEW t \in DOMAIN chart.points, NEW s \in Stream,
             t # Chart!NewestBucket(chart), t >= chart.from
      PROVE  /\ chart.points[t][s].connections =
                   Chart!Cardinality(Made(chartRows, s, t, chart.width))
             /\ chart.points[t][s].activeListeners =
                   Chart!Cardinality(There(chartRows, s, t))
  <2>1. t < top
    <3>1. t \in D /\ t \in Int /\ top \in Int /\ t # top
      BY <1>3, <1>4, <1>6, <1>8
    <3>2. t <= top
      BY <1>5, <3>1
    <3>3. QED
      BY <3>1, <3>2
  <2>2. TrueAt(chart.points[t], t, chart.width, chartRows)
    BY <1>2, <1>8, <2>1 DEF UpTo
  <2>3. QED
    BY <2>2 DEF TrueAt
<1>9. Chart!ClosedBucketsAreTrue
  BY <1>8 DEF Chart!ClosedBucketsAreTrue, Made, There, Mine
<1>10. QED
  BY <1>7, <1>9

(* ReportChart: however often the chart is refreshed from its newest bucket on, and whatever is    *)
(* in flight when another range is chosen or the program opened again (refetchReports, loadDetail, *)
(* mergeReportSeries): unless buckets of two widths or parts of two charts were put together, no   *)
(* bucket is left out, and each that has ended says what the rows say, for any widths, ranges and  *)
(* numbers of rows.                                                                                *)
THEOREM ChartStaysTrue == ASSUME ChartFit PROVE Chart!Spec => []Chart!ChartIsTrue
BY ChartSafe, ChartInit, ChartStep, PTL DEF Chart!Spec
=============================================================================
