------------------------------- MODULE Office -------------------------------
(***************************************************************************)
(* What is kept safe beside the programs: the accounts of the managers,    *)
(* their console, the chart of its reports and its dialog for the          *)
(* translators' links, the approver's desk and page, the lock on a phone's *)
(* screen, and what is known of a stream on the air.  They share no        *)
(* modelled state, so a behaviour runs one of them, the part it chooses    *)
(* first, and leaves the variables of the others at 0.                     *)
(***************************************************************************)
EXTENDS UserAccounts, Sequences, FiniteSets

CONSTANTS
    Stream, NoChart, NoCall, NoAnswer, Fine, Coarse,  \* of the chart
    FineSpan, Week, Window, PageSize, First, MaxRows, MaxNow,
    Program, RoleAdmin, MaxCalls, MaxSteps,           \* of the console
    Language, LinkCall, Hours, MaxSecret, MaxTime,    \* of the translators' links
    Slot, Claim,                                      \* of the approver's page, with MaxSession
    WakeRun, Lock,                                    \* of the lock on the screen
    DeskLimit, ProgramLimit, DeskWindow, DeskLocks,   \* of the approver's desk, with Call,
    IdleTicks, ShiftTicks, MaxSessions,               \* Address and Password
    Listener, QuietSamples, SoundWindow,              \* of a stream on the air, with MaxSession
    SeenWindow, StaleAfter, CacheTtl

VARIABLES
    part,
    now, chartRows, preset, rangeKey, chart, cursor, call, opening, table, mixed,
    consolePage, panel, requests, programs, session, steps, unheard,
    clock, lastSecret, owner, row, signedIn, signIns, dialog, request, detail,
    status, admitted, live, lastSession, cookie, page, scanned, task, straddled,
    wanted, visible, ref, held, asks, doubled,
    account, deskSessions, deskAttempts, deskCalls, tally,
    meter, sounding, reports, room, hooks, lease, activity, records, rows, build, entry, calm

Chart   == INSTANCE ReportChart WITH MaxTime <- MaxNow, rows <- chartRows
Pages   == INSTANCE Console WITH page <- consolePage, calls <- requests
Links   == INSTANCE TranslatorAccess WITH
               Call <- LinkCall, issued <- lastSecret, sessions <- signedIn, calls <- signIns
Scanner == INSTANCE ApproverPage WITH issued <- lastSession
Phone   == INSTANCE ScreenWakeLock WITH Request <- WakeRun
Desk    == INSTANCE ApproverDesk WITH
               AddressLimit <- DeskLimit, WindowTicks <- DeskWindow, LockTicks <- DeskLocks,
               sessions <- deskSessions, attempts <- deskAttempts, calls <- deskCalls
Air     == INSTANCE Presence

ofChart   == <<now, chartRows, preset, rangeKey, chart, cursor, call, opening, table, mixed>>
ofConsole == <<consolePage, panel, requests, programs, session, steps, unheard>>
ofLinks   == <<clock, lastSecret, owner, row, signedIn, signIns, dialog, request, detail>>
ofScanner == <<status, admitted, live, lastSession, cookie, page, scanned, task, straddled>>
ofPhone   == <<wanted, visible, ref, held, asks, doubled>>
ofDesk    == <<account, deskSessions, deskAttempts, deskCalls, tally>>
ofAir     == <<meter, sounding, reports, room, hooks, lease, activity, records, rows, build,
               entry, calm>>

officeVars == <<part, vars, ofChart, ofConsole, ofLinks, ofScanner, ofPhone, ofDesk, ofAir>>

-----------------------------------------------------------------------------
(* What the proofs assume of the constants: None is none of the dialog's requests or of what  *)
(* an approver is told, every language has a secret, a link lives for at most three days, and *)
(* a relative range of the chart is at least as long as a bucket.                             *)
RequestRow ==
    [op : {"generate", "revoke"}, lang : Language, hours : Hours \cup {None},
     ans : {None, "ok", "error", "refresh"}, secret : Links!Secret \cup {None}]

Said == {"ok", "missing", "expired", "auth", "refused", "already", "revoked", "error"}

LinksFit ==
    /\ IsFiniteSet(Language) /\ MaxSecret \in Nat /\ Cardinality(Language) <= MaxSecret
    /\ MaxTime \in Nat /\ Hours \subseteq 1 .. 72
    /\ None \notin RequestRow

ChartFit ==
    /\ {Fine, Coarse} \subseteq Nat \ {0} /\ {Week, Window, First, MaxNow} \subseteq Nat
    /\ Fine <= Window /\ Coarse <= Window

ScannerFit == IsFiniteSet(Slot) /\ IsFiniteSet(Claim) /\ None \notin Said /\ MaxSession \in Nat \ {0}

AirFit == {QuietSamples, SoundWindow, SeenWindow, StaleAfter, CacheTtl} \subseteq Nat /\ None # "live"

DeskFit ==
    /\ IsFiniteSet(Call)
    /\ DeskLimit \in Nat \ {0} /\ ProgramLimit \in Nat \ {0} /\ DeskWindow \in Nat
    /\ DeskLocks \in Seq(Nat \ {0}) /\ DeskLocks # <<>>
    /\ ShiftTicks \in Nat /\ IdleTicks \in 1 .. ShiftTicks

ASSUME OfficeAssumption == LinksFit /\ ChartFit /\ ScannerFit /\ AirFit /\ DeskFit

-----------------------------------------------------------------------------
NoChartYet ==
    /\ now = 0 /\ chartRows = 0 /\ preset = 0 /\ rangeKey = 0 /\ chart = 0 /\ cursor = 0
    /\ call = 0 /\ opening = 0 /\ table = 0 /\ mixed = 0
NoConsole ==
    /\ consolePage = 0 /\ panel = 0 /\ requests = 0 /\ programs = 0 /\ session = 0 /\ steps = 0
    /\ unheard = 0
NoLinks ==
    /\ clock = 0 /\ lastSecret = 0 /\ owner = 0 /\ row = 0 /\ signedIn = 0 /\ signIns = 0
    /\ dialog = 0 /\ request = 0 /\ detail = 0
NoScanner ==
    /\ status = 0 /\ admitted = 0 /\ live = 0 /\ lastSession = 0 /\ cookie = 0 /\ page = 0
    /\ scanned = 0 /\ task = 0 /\ straddled = 0
NoPhone ==
    wanted = 0 /\ visible = 0 /\ ref = 0 /\ held = 0 /\ asks = 0 /\ doubled = 0
NoDesk ==
    account = 0 /\ deskSessions = 0 /\ deskAttempts = 0 /\ deskCalls = 0 /\ tally = 0
NoAir ==
    /\ meter = 0 /\ sounding = 0 /\ reports = 0 /\ room = 0 /\ hooks = 0 /\ lease = 0
    /\ activity = 0 /\ records = 0 /\ rows = 0 /\ build = 0 /\ entry = 0 /\ calm = 0

OfficeInit ==
    /\ Init
    /\ part \in {"accounts", "chart", "console", "links", "scanner", "phone", "desk", "air"}
    /\ IF part = "chart"   THEN Chart!Init   ELSE NoChartYet
    /\ IF part = "console" THEN Pages!Init   ELSE NoConsole
    /\ IF part = "links"   THEN Links!Init   ELSE NoLinks
    /\ IF part = "scanner" THEN Scanner!Init ELSE NoScanner
    /\ IF part = "phone"   THEN Phone!Init   ELSE NoPhone
    /\ IF part = "desk"    THEN Desk!Init    ELSE NoDesk
    /\ IF part = "air"     THEN Air!Init     ELSE NoAir

OfficeNext ==
    /\ UNCHANGED part
    /\ IF part = "accounts" THEN Next         ELSE UNCHANGED vars
    /\ IF part = "chart"    THEN Chart!Next   ELSE UNCHANGED ofChart
    /\ IF part = "console"  THEN Pages!Next   ELSE UNCHANGED ofConsole
    /\ IF part = "links"    THEN Links!Next   ELSE UNCHANGED ofLinks
    /\ IF part = "scanner"  THEN Scanner!Next ELSE UNCHANGED ofScanner
    /\ IF part = "phone"    THEN Phone!Next   ELSE UNCHANGED ofPhone
    /\ IF part = "desk"     THEN Desk!Next    ELSE UNCHANGED ofDesk
    /\ IF part = "air"      THEN Air!Next     ELSE UNCHANGED ofAir

OfficeSpec == OfficeInit /\ [][OfficeNext]_officeVars

-----------------------------------------------------------------------------
(* The variables of a component have their types; those of the others keep their first value. *)
OfficeTypeOK ==
    /\ TypeOK
    /\ IF part = "chart"   THEN Chart!TypeOK   ELSE NoChartYet
    /\ IF part = "console" THEN Pages!TypeOK   ELSE NoConsole
    /\ IF part = "links"   THEN Links!TypeOK   ELSE NoLinks
    /\ IF part = "scanner" THEN Scanner!TypeOK ELSE NoScanner
    /\ IF part = "phone"   THEN Phone!TypeOK   ELSE NoPhone
    /\ IF part = "desk"    THEN Desk!TypeOK    ELSE NoDesk
    /\ IF part = "air"     THEN Air!TypeOK     ELSE NoAir

(* A chart that was refreshed in buckets of its own width, and from its own newest bucket on, *)
(* is the one of the rows.                                                                    *)
ChartIsTrue == part = "chart" => Chart!ChartIsTrue

(* The console's flags of what it waits for, its list and its panel of passwords are of what *)
(* they say, whichever answers come late.                                                    *)
ConsoleIsHonest ==
    part = "console" => Pages!FlagsAreHonest /\ Pages!ListIsCurrent /\ Pages!PasswordOfProgram

(* No more guesses are told that they are wrong than the limit allows. *)
GuessesBounded == part = "desk" => Desk!GuessesBounded

(* The approver's page waits for what is under way, and counts no claim twice. *)
ApproverScreenIsTrue == part = "scanner" => Scanner!ApproverScreenIsTrue

(* Whoever is signed in holds the credential that the language has now, unless it was replaced *)
(* while the sign-in was under way; and the dialog of links is busy just while it waits.        *)
AccessIsCurrent == part = "links" => Links!AccessIsCurrent

(* No lock is left that keeps the screen on for good. *)
NoLockIsLost == part = "phone" => Phone!NoLockIsLost

(* A stream is live through its own session, and an answer says so only while that is news. *)
LiveIsHeard == part = "air" => Air!LiveIsHeard
=============================================================================
