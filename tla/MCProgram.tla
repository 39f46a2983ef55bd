------------------------------- MODULE MCProgram -------------------------------
(***************************************************************************)
(* A program on small instances of its parts.  The stream on the air has   *)
(* listeners who come and go, or sound that begins and ends.               *)
(***************************************************************************)
EXTENDS Hosting

VARIABLE crowd   \* a stream on the air has listeners who come and go

MCVars == <<hostingVars, crowd>>

\* The parts that are left alone begin in one way.
MCInit ==
    /\ HostingInit
    /\ crowd \in {part = "air", FALSE}
    /\ part # "gate" => ~ accessOn
    /\ part # "life" => \A i \in Ids : prog[i] = NoRow

MCNext ==
    /\ UNCHANGED crowd
    /\ HostingNext
    /\ part = "air" => IF crowd THEN UNCHANGED <<meter, sounding>> ELSE UNCHANGED <<room, connections>>

(* The fairness of each part: see AccessGate, Programs and Presence. *)
GateRuns(step) == part = "gate" /\ step /\ UNCHANGED <<part, crowd, ofAir, limiterVars, vars>>
LifeRuns(step) == part = "life" /\ step /\ UNCHANGED <<part, crowd, ofGate, ofAir, limiterVars>>
AirRuns(step)  == part = "air"  /\ step /\ UNCHANGED <<part, crowd, ofGate, limiterVars, vars>>

Fairness ==
    /\ \A op \in {"program", "claim", "verify", "redeem", "join"} :
           WF_MCVars(GateRuns(\E c \in calls : c.op = op /\ c.tab \in Tabs /\ (Gate!Serve(c) \/ Gate!Handle(c))))
    /\ \A t \in Tabs : WF_MCVars(GateRuns(Gate!Timers(t)))
    /\ WF_MCVars(LifeRuns(BeginPass)) /\ WF_MCVars(LifeRuns(PassStep))
    /\ SF_MCVars(AirRuns(Air!TimePasses))
    /\ WF_MCVars(AirRuns(Air!Timeless(Air!MeterPolls))) /\ WF_MCVars(AirRuns(Air!Timeless(Air!BuildEnds)))
    /\ \A s \in Air!Session :
           SF_MCVars(AirRuns(Air!Timeless(Air!ReportArrives([session |-> s, active |-> TRUE]))))

MCSpec == MCInit /\ [][MCNext]_MCVars /\ Fairness
=============================================================================
