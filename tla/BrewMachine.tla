----------------------------- MODULE BrewMachine -----------------------------
(***************************************************************************)
(* What the coffee machine service promises to its clients, with every     *)
(* operation atomic.  CoffeeMachine implements it, thread by thread;       *)
(* CoffeeShop uses it as the machine its baristas call.                    *)
(***************************************************************************)
CONSTANT Jobs

VARIABLES
    accepted,   \* jobs whose brewing was requested
    fails,      \* those of them that are bound to fail
    tainted,    \* those brewed on a dirty machine
    expired,    \* those whose brewing time has passed
    reported,   \* those whose ending a poll may report
    dirty,
    cleaned     \* failed brews that a cleaning has come after

machineVars == <<accepted, fails, tainted, expired, reported, dirty, cleaned>>

\* Failed brews no cleaning has come after.
Spoilers == (fails \cap expired) \ cleaned

MachineInit ==
    /\ accepted = {} /\ fails = {} /\ tainted = {} /\ expired = {}
    /\ reported = {} /\ cleaned = {}
    /\ dirty = FALSE

Accept(j, fail) ==
    /\ j \notin accepted
    /\ accepted' = accepted \cup {j}
    /\ fails' = IF fail THEN fails \cup {j} ELSE fails
    /\ tainted' = IF dirty /\ ~fail THEN tainted \cup {j} ELSE tainted
    /\ UNCHANGED <<expired, reported, dirty, cleaned>>

Expire(j) ==
    /\ j \in accepted \ expired
    /\ expired' = expired \cup {j}
    /\ UNCHANGED <<accepted, fails, tainted, reported, dirty, cleaned>>

\* A failed brew soils the machine when a poll notices it, which may be again
\* after a cleaning: the polls race.
Soil ==
    /\ fails \cap expired # {}
    /\ dirty' = TRUE
    /\ UNCHANGED <<accepted, fails, tainted, expired, reported, cleaned>>

\* The ending of a brew is reported only once the soil of a failure shows.
Report(j) ==
    /\ j \in expired
    /\ j \in Spoilers => dirty
    /\ reported' = reported \cup {j}
    /\ UNCHANGED <<accepted, fails, tainted, expired, dirty, cleaned>>

Clean ==
    /\ dirty' = FALSE
    /\ cleaned' = cleaned \cup Spoilers
    /\ UNCHANGED <<accepted, fails, tainted, expired, reported>>

MachineStep ==
    \E j \in Jobs : Expire(j) \/ Report(j)

MachineNext ==
    \/ \E j \in Jobs, f \in BOOLEAN : Accept(j, f)
    \/ MachineStep \/ Soil \/ Clean

MachineSpec == MachineInit /\ [][MachineNext]_machineVars

-----------------------------------------------------------------------------

MachineTypeOK ==
    /\ accepted \subseteq Jobs
    /\ fails \subseteq accepted /\ tainted \subseteq accepted \ fails
    /\ expired \subseteq accepted /\ reported \subseteq expired
    /\ cleaned \subseteq fails \cap expired
    /\ dirty \in BOOLEAN
=============================================================================
