---------------------------- MODULE ScreenWakeLock ----------------------------
(***************************************************************************)
(* The lock that keeps a phone's screen on while a page plays, broadcasts  *)
(* or scans.  An effect of the page asks for it when it starts and when    *)
(* the page is shown again, and gives it back when it is undone.  Asking   *)
(* takes two waits, for the release of the last lock and for the browser,  *)
(* and the page may be hidden, shown and done with meanwhile.  The browser *)
(* takes all locks away when the page is hidden.                           *)
(***************************************************************************)
EXTENDS Integers, FiniteSets

CONSTANTS
    Request,   \* requestWakeLock runs that may be under way at once
    Lock,      \* WakeLockSentinels
    None

VARIABLES
    wanted,    \* the effect is in force
    visible,   \* the page is shown
    ref,       \* wakeLockRef
    held,      \* the locks that keep the screen on
    asks,      \* asks[q]: the run q of requestWakeLock
    doubled    \* history: a run began while another of the same effect was under way

vars == <<wanted, visible, ref, held, asks, doubled>>

Idle == [at |-> "idle", cancelled |-> FALSE, previous |-> None]

Init ==
    /\ wanted = FALSE /\ visible = TRUE
    /\ ref = None /\ held = {}
    /\ asks = [q \in Request |-> Idle]
    /\ doubled = FALSE

UnderWay == {q \in Request : asks[q] # Idle /\ ~asks[q].cancelled}

-----------------------------------------------------------------------------
\* A run of requestWakeLock begins, if the page allows it, and takes the last lock out of the
\* reference.  A page that plays asks only while its sound plays.
Begins(q) ==
    /\ asks[q] = Idle
    /\ asks' = [asks EXCEPT ![q] = [at |-> IF ref = None THEN "asked" ELSE "releasing",
                                    cancelled |-> FALSE, previous |-> ref]]
    /\ ref' = None
    /\ doubled' = (doubled \/ UnderWay # {})

Declines == UNCHANGED <<asks, ref, doubled>>

MayBegin == Declines \/ \E q \in Request : Begins(q)

\* Mutant: a run of an effect that was undone keeps what it is given.
Cancelled_Never == asks

Cancelled == [q \in Request |-> IF asks[q] = Idle THEN Idle ELSE [asks[q] EXCEPT !.cancelled = TRUE]]

Starts ==
    /\ ~wanted /\ wanted' = TRUE
    /\ IF visible THEN MayBegin ELSE Declines
    /\ UNCHANGED <<visible, held>>

\* The effect is undone: runs under way are cancelled and the lock is given back.
Ends ==
    /\ wanted /\ wanted' = FALSE
    /\ asks' = Cancelled
    /\ held' = held \ {ref} /\ ref' = None
    /\ UNCHANGED <<visible, doubled>>

Hides ==
    /\ visible /\ visible' = FALSE
    /\ held' = {}
    /\ UNCHANGED <<wanted, ref, asks, doubled>>

Shows ==
    /\ ~visible /\ visible' = TRUE
    /\ IF wanted THEN MayBegin ELSE Declines
    /\ UNCHANGED <<wanted, held>>

-----------------------------------------------------------------------------
Released(q) ==
    /\ asks[q].at = "releasing"
    /\ held' = held \ {asks[q].previous}
    /\ asks' = [asks EXCEPT ![q].at = "asked", ![q].previous = None]
    /\ UNCHANGED <<wanted, visible, ref, doubled>>

\* The browser grants the lock; a run that was cancelled gives it back at once.
Granted(q) ==
    /\ asks[q].at = "asked" /\ visible
    /\ asks' = [asks EXCEPT ![q] = Idle]
    /\ IF asks[q].cancelled
       THEN UNCHANGED <<ref, held>>
       ELSE \E lock \in Lock \ (held \cup {ref}) : ref' = lock /\ held' = held \cup {lock}
    /\ UNCHANGED <<wanted, visible, doubled>>

Refused(q) ==
    /\ asks[q].at = "asked"
    /\ asks' = [asks EXCEPT ![q] = Idle]
    /\ UNCHANGED <<wanted, visible, ref, held, doubled>>

Next == Starts \/ Ends \/ Hides \/ Shows \/ \E q \in Request : Released(q) \/ Granted(q) \/ Refused(q)

Spec == Init /\ [][Next]_vars

-----------------------------------------------------------------------------
(* Every variable has its type. *)
TypeOK ==
    /\ {wanted, visible, doubled} \subseteq BOOLEAN
    /\ ref \in Lock \cup {None} /\ held \subseteq Lock
    /\ asks \in [Request -> [at : {"idle", "releasing", "asked"}, cancelled : BOOLEAN,
                             previous : Lock \cup {None}]]

(* The screen is not kept on by a lock that nothing gives back: while the effect is in force *)
(* every lock is the one in the reference or about to be released, and once it is undone only *)
(* the latter; unless two runs overlapped, when both are granted and the second overwrites the *)
(* first (requestWakeLock and the cleanup of its effect).                                        *)
NoLockIsLost ==
    ~doubled => held \subseteq (IF wanted THEN {ref} ELSE {}) \cup {asks[q].previous : q \in Request}
=============================================================================
