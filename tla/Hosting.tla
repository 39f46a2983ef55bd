------------------------------- MODULE Hosting -------------------------------
(***************************************************************************)
(* What lets listeners hear a program: its life until it is pruned, the    *)
(* access of its listeners, the limiter of their requests, and what is     *)
(* known of one of its streams while it is broadcast.  They share no       *)
(* modelled state, so a behaviour runs one of them, the part it chooses    *)
(* first, and leaves the others as they were at first.                     *)
(***************************************************************************)
EXTENDS Programs, RateLimiter

CONSTANTS
    Tabs, NoTab, Streams, MaxClaims, MaxTokens, MaxGen, MaxJoins, MaxGateEvents,  \* of the gate
    Listener, MaxSession, QuietSamples, SoundWindow,  \* of a stream on the air
    SeenWindow, StaleAfter, CacheTtl, None

\* A request of a page that was closed is of no tab.
ASSUME HostingAssumption ==
    /\ NoTab \notin Tabs
    /\ {MaxClaims, MaxTokens, MaxGen, MaxGateEvents} \subseteq Nat
    /\ {MaxSession, QuietSamples, SoundWindow, SeenWindow, StaleAfter, CacheTtl} \subseteq Nat

VARIABLES part,
    accessOn, claims, minted, storedToken, storedClaim, page, calls, gateEvents,
    meter, sounding, reports, room, hooks, lease, activity, records, connections, build, entry, calm

Gate == INSTANCE AccessGate WITH MaxEvents <- MaxGateEvents, events <- gateEvents

Air == INSTANCE Presence WITH rows <- connections

ofGate == <<accessOn, claims, minted, storedToken, storedClaim, page, calls, gateEvents>>
ofAir  == <<meter, sounding, reports, room, hooks, lease, activity, records, connections, build, entry, calm>>

hostingVars == <<part, ofGate, ofAir, limiterVars, vars>>

HostingInit ==
    /\ part \in {"gate", "life", "limiter", "air"}
    /\ Gate!Init /\ Init /\ LimiterInit /\ Air!Init

HostingNext ==
    /\ UNCHANGED part
    /\ \/ part = "gate"    /\ Gate!Next   /\ UNCHANGED <<ofAir, limiterVars, vars>>
       \/ part = "life"    /\ Next        /\ UNCHANGED <<ofGate, ofAir, limiterVars>>
       \/ part = "limiter" /\ LimiterNext /\ UNCHANGED <<ofGate, ofAir, vars>>
       \/ part = "air"     /\ Air!Next    /\ UNCHANGED <<ofGate, limiterVars, vars>>

HostingSpec == HostingInit /\ [][HostingNext]_hostingVars

-----------------------------------------------------------------------------
(* Every variable of the components has its type, and the limiter's memory is bounded. *)
HostingTypeOK == Gate!TypeOK /\ Air!TypeOK /\ LimiterTypeOK /\ MemoryIsBounded /\ TypeOK

(* The gate of a page, its requests, its polls and its token agree. *)
GateIsSound == Gate!GateIsSound

(* A page that waits for an approved claim gets in without a press of a button. *)
ApprovedGetsIn == Gate!ApprovedGetsIn

(* Listeners who are gone are not counted at last, sound is heard and silence is noticed. *)
PresenceSettles == Air!PresenceSettles
=============================================================================
