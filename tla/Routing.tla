------------------------------- MODULE Routing -------------------------------
(***************************************************************************)
(* The routing engine and the rail registry: ComputePlan of several        *)
(* requests at once, and discover, which re-scores the rails every minute  *)
(* and holds the registry's write lock from its first health check to its  *)
(* last.  The registry's readers hold the lock for one step only.          *)
(*                                                                         *)
(* Scores are numbers of ten thousandths: availability of 1.0 is Full.     *)
(***************************************************************************)
EXTENDS Naturals, FiniteSets, Sequences, Functions

CONSTANTS
    Planner,    \* requests in ComputePlan
    Rail,       \* registered adapters
    NoRail,
    Currency,
    Supports,   \* Supports[c]: rails with c among their capabilities
    Static,     \* Static[r]: r's score but for its availability
    Modifier,   \* Modifier[r]: rail_modifiers of the policy, in tenths
    Failing,    \* rails whose breakers may open
    MaxRounds   \* bound: runs of discover

ASSUME RoutingAssumption ==
    /\ IsFiniteSet(Rail) /\ NoRail \notin Rail
    /\ Supports \in [Currency -> SUBSET Rail]
    /\ Static \in [Rail -> Nat] /\ Modifier \in [Rail -> Nat]
    /\ Failing \subseteq Rail
    /\ MaxRounds \in Nat

VARIABLES
    up,         \* rails whose HealthCheck is true: whose breaker is not open
    score,      \* RailRegistry.scores
    unchecked,  \* rails discover has still to check; it holds mu meanwhile
    rounds,     \* runs of discover begun
    pc,         \* where ComputePlan of a planner is
    wants,      \* currency of the planner's transaction
    todo,       \* adapters its loop has still to look at
    weighing,   \* adapter found healthy, whose score it waits for
    found,      \* candidates
    worth,      \* worth[p][r]: score of candidate r
    plan,       \* AdapterID and FallbackChain
    always,     \* history: rails healthy ever since p listed them
    never       \* history: rails unhealthy ever since

registry == <<score, unchecked, rounds>>
history == <<always, never>>
vars == <<up, registry, pc, wants, todo, weighing, found, worth, plan, history>>

Full == 10000

Planning == {"listing", "looking"}

TypeOK ==
    /\ up \subseteq Rail
    /\ score \in [Rail -> 0 .. Full]
    /\ unchecked \subseteq Rail
    /\ rounds \in 0 .. MaxRounds
    /\ pc \in [Planner -> Planning \cup {"idle", "planned", "refused"}]
    /\ wants \in [Planner -> Currency]
    /\ todo \in [Planner -> SUBSET Rail]
    /\ weighing \in [Planner -> Rail \cup {NoRail}]
    /\ found \in [Planner -> SUBSET Rail]
    /\ worth \in [Planner -> [Rail -> Nat]]
    /\ plan \in [Planner -> Seq(Rail)]
    /\ always \in [Planner -> SUBSET Rail] /\ never \in [Planner -> SUBSET Rail]

Init ==
    /\ up = Rail
    /\ score = [r \in Rail |-> Full]
    /\ unchecked = {} /\ rounds = 0
    /\ pc = [p \in Planner |-> "idle"]
    /\ wants \in [Planner -> Currency]
    /\ todo = [p \in Planner |-> {}]
    /\ weighing = [p \in Planner |-> NoRail]
    /\ found = [p \in Planner |-> {}]
    /\ worth = [p \in Planner |-> [r \in Rail |-> 0]]
    /\ plan = [p \in Planner |-> <<>>]
    /\ always = [p \in Planner |-> {}] /\ never = [p \in Planner |-> {}]

Goto(p, l) == pc' = [pc EXCEPT ![p] = l]
-----------------------------------------------------------------------------
(* Breakers.                                                               *)

BreakerOpens(r) ==
    /\ r \in Failing \cap up
    /\ up' = up \ {r}
    /\ always' = [p \in Planner |-> always[p] \ {r}]
    /\ UNCHANGED <<registry, pc, wants, todo, weighing, found, worth, plan, never>>

BreakerLeavesOpen(r) ==
    /\ r \in Rail \ up
    /\ up' = up \cup {r}
    /\ never' = [p \in Planner |-> never[p] \ {r}]
    /\ UNCHANGED <<registry, pc, wants, todo, weighing, found, worth, plan, always>>
-----------------------------------------------------------------------------
(* discover, started by a ticker.                                          *)

Locked == unchecked # {}

BeginRound ==
    /\ ~ Locked
    /\ rounds < MaxRounds
    /\ rounds' = rounds + 1
    /\ unchecked' = Rail
    /\ UNCHANGED <<up, score, pc, wants, todo, weighing, found, worth, plan, history>>

\* Bug: a tenth is added to a healthy rail's score, however high it is.
RescoredUpwards(s, healthy) == IF healthy THEN s + Full \div 10 ELSE s \div 2

\* Drifts to 1.0 while r is healthy, is halved when it is not.
Rescored(s, healthy) == IF healthy THEN (9 * s + Full) \div 10 ELSE s \div 2

\* Bug: the round ends without Unlock.
LeftLocked(r) == IF unchecked = {r} THEN {r} ELSE unchecked \ {r}

Left(r) == unchecked \ {r}

\* One adapter of discover's loop; the last one releases the lock.
CheckRail(r) ==
    /\ r \in unchecked
    /\ score' = [score EXCEPT ![r] = Rescored(@, r \in up)]
    /\ unchecked' = Left(r)
    /\ UNCHANGED <<up, rounds, pc, wants, todo, weighing, found, worth, plan, history>>
-----------------------------------------------------------------------------
(* ComputePlan.                                                            *)

Ask(p) ==
    /\ pc[p] \notin Planning
    /\ \E c \in Currency : wants' = [wants EXCEPT ![p] = c]
    /\ Goto(p, "listing")
    /\ UNCHANGED <<up, registry, todo, weighing, found, worth, plan, history>>

ListAdapters(p) ==
    /\ pc[p] = "listing"
    /\ ~ Locked
    /\ Goto(p, "looking")
    /\ todo' = [todo EXCEPT ![p] = Rail]
    /\ found' = [found EXCEPT ![p] = {}]
    /\ worth' = [worth EXCEPT ![p] = [r \in Rail |-> 0]]
    /\ plan' = [plan EXCEPT ![p] = <<>>]
    /\ always' = [always EXCEPT ![p] = up]
    /\ never' = [never EXCEPT ![p] = Rail \ up]
    /\ UNCHANGED <<up, registry, wants, weighing>>

\* Bug: break for continue.
AfterLookBreak(p, r) == IF r \in up THEN todo[p] \ {r} ELSE {}

AfterLook(p, r) == todo[p] \ {r}

\* HealthCheck of the next adapter of the list, which is in no order.
LookAt(p, r) ==
    /\ pc[p] = "looking"
    /\ weighing[p] = NoRail
    /\ r \in todo[p]
    /\ todo' = [todo EXCEPT ![p] = AfterLook(p, r)]
    /\ weighing' = [weighing EXCEPT ![p] = IF r \in up THEN r ELSE NoRail]
    /\ UNCHANGED <<up, registry, pc, wants, found, worth, plan, history>>

\* 0.15 of the score is the availability; the policy multiplies the whole.
Score(r, availability) == (Static[r] + (15 * availability) \div 100) * Modifier[r]

\* Only rails that may fail can have been re-scored.
Lowest(r) == IF r \in Failing THEN 0 ELSE Full

\* What the weights and modifiers of the rails are chosen for: of two rails for
\* one currency the better one stays so, whatever its availability.
Spread ==
    \A c \in Currency : \A q, r \in Supports[c] :
        Score(q, Full) < Score(r, Full) => Score(q, Full) < Score(r, Lowest(r))

\* GetAvailabilityScore, and then what decides on the candidate.
Weigh(p) ==
    LET r == weighing[p]
    IN  /\ pc[p] = "looking"
        /\ r # NoRail
        /\ ~ Locked
        /\ IF r \in Supports[wants[p]]
           THEN /\ found' = [found EXCEPT ![p] = @ \cup {r}]
                /\ worth' = [worth EXCEPT ![p][r] = Score(r, score[r])]
           ELSE UNCHANGED <<found, worth>>
        /\ weighing' = [weighing EXCEPT ![p] = NoRail]
        /\ UNCHANGED <<up, registry, pc, wants, todo, plan, history>>

LoopOver(p) == pc[p] = "looking" /\ todo[p] = {} /\ weighing[p] = NoRail

NoCandidates(p) ==
    /\ LoopOver(p)
    /\ found[p] = {}
    /\ Goto(p, "refused")
    /\ UNCHANGED <<up, registry, wants, todo, weighing, found, worth, plan, history>>

\* Bug: the candidates are sorted ascending.
MakePlanAscending(p) ==
    /\ LoopOver(p)
    /\ found[p] # {}
    /\ ~ Locked
    /\ \E order \in Bijection(1 .. Cardinality(found[p]), found[p]) :
           /\ \A i, j \in DOMAIN order :
                  i < j => worth[p][order[i]] <= worth[p][order[j]]
           /\ plan' = [plan EXCEPT ![p] = order]
    /\ Goto(p, "planned")
    /\ UNCHANGED <<up, registry, wants, todo, weighing, found, worth, history>>

\* sort.Slice, which is not stable, and GetAdapter of the first one.
MakePlan(p) ==
    /\ LoopOver(p)
    /\ found[p] # {}
    /\ ~ Locked
    /\ \E order \in Bijection(1 .. Cardinality(found[p]), found[p]) :
           /\ \A i, j \in DOMAIN order :
                  i < j => worth[p][order[i]] >= worth[p][order[j]]
           /\ plan' = [plan EXCEPT ![p] = order]
    /\ Goto(p, "planned")
    /\ UNCHANGED <<up, registry, wants, todo, weighing, found, worth, history>>

ComputePlan(p) ==
    \/ ListAdapters(p) \/ Weigh(p) \/ NoCandidates(p) \/ MakePlan(p)
    \/ \E r \in Rail : LookAt(p, r)

Next ==
    \/ BeginRound
    \/ \E r \in Rail : CheckRail(r) \/ BreakerOpens(r) \/ BreakerLeavesOpen(r)
    \/ \E p \in Planner : Ask(p) \/ ComputePlan(p)

Spec == Init /\ [][Next]_vars

\* Health checks return; Unlock lets the readers in that wait for it, before
\* the next writer.
FairSpec ==
    /\ Spec
    /\ WF_vars(\E r \in Rail : CheckRail(r))
    /\ \A p \in Planner : SF_vars(ComputePlan(p))
-----------------------------------------------------------------------------
(* Properties.                                                             *)

\* A plan is about rails as they were while it was made: it has every rail
\* for the currency that was healthy all the time and none that was not at
\* any time, and only without such a rail is there no plan.  Breakers, rounds
\* of discovery and other planners move on meanwhile.
PlanIsOfItsTime ==
    \A p \in Planner :
        LET steady == Supports[wants[p]] \cap always[p]
        IN  /\ pc[p] = "planned" => /\ steady \subseteq Range(plan[p])
                                    /\ Range(plan[p]) \subseteq Supports[wants[p]] \ never[p]
            /\ pc[p] = "refused" => steady = {}

\* With the default registry and the modifiers of mockPolicyCall, whatever
\* discovery has seen, rails are tried in the order of their scores at full
\* availability: re-scoring never moves a failing rail back.
OrderIsStatic ==
    \A p \in Planner : pc[p] = "planned" =>
        \A i, j \in DOMAIN plan[p] :
            i < j => Score(plan[p][i], Full) >= Score(plan[p][j], Full)

\* A request waits for a round of discovery, but gets its plan or its refusal.
PlansEnd == \A p \in Planner : pc[p] \in Planning ~> pc[p] \notin Planning
=============================================================================
