--------------------------- MODULE PolicyPipeline ---------------------------
(***************************************************************************)
(* Transactions on the topic transaction-events: the transaction handler   *)
(* and other services write pending ones, the policy engine consumes them  *)
(* and produces a decision on each to the same topic.  An evaluation asks  *)
(* the auth service for the policy, the risk service for a score and the   *)
(* database for rules, while administrators create policies and decide     *)
(* their changes (module PolicyApprovals).                                 *)
(*                                                                         *)
(* The consumer commits the offsets of what it has processed when it polls;*)
(* the producer sends from a buffer, once, and reports to nobody.          *)
(***************************************************************************)
EXTENDS PolicyApprovals, Sequences

CONSTANTS
    Tx,
    AgentOf,         \* AgentOf[t]: agent_id of t, None if the event has none
    WorkflowOf,      \* WorkflowOf[t]: metadata.workflow_id, None without one
    NoMetadata,      \* transactions whose event says "metadata": null
    NoNumber,        \* transactions whose amount is no number
    None,            \* NULL, which sorts behind every id
    Active,          \* policies that their creators give the status 'active'
    PolicyAgent,     \* PolicyAgent[p]: column agent_id
    PolicyWorkflow,  \* PolicyWorkflow[p]: column workflow_id
    Roles,           \* Roles[p]: "executor" among p's, "others", or "NULL"
    Permits,         \* Permits[p][a]: transactions that p's attributes let
                     \* pass when the change in force is a
    RuleTables,      \* what the table of rules may hold: active rules by
                     \* priority, with whom they match and what they say
    MaxCopies,       \* bound: writes of a pending event per transaction
    MaxRestarts      \* bound: restarts of the engine

\* Ids are numbers in the order of their UUIDs.
ASSUME PipelineAssumption ==
    /\ None \in Nat
    /\ AgentOf \in [Tx -> 0 .. None] /\ WorkflowOf \in [Tx -> 0 .. None]
    /\ NoMetadata \subseteq Tx /\ NoNumber \subseteq Tx
    /\ Active \subseteq Policy
    /\ PolicyAgent \in [Policy -> 0 .. None] /\ PolicyWorkflow \in [Policy -> 0 .. None]
    /\ Roles \in [Policy -> {"executor", "others", "NULL"}]
    /\ Permits \in [Policy -> [Approval \cup {NoApproval} -> SUBSET Tx]]
    /\ RuleTables \subseteq Seq([matches : SUBSET Tx, type : {"approve", "reject"}])
    /\ MaxCopies \in Nat /\ MaxRestarts \in Nat

VARIABLES
    log,        \* the topic's messages
    position,   \* messages the consumer has handed out
    committed,  \* the group's offset
    engine,     \* where the engine is
    policy,     \* policies that GetEffectivePolicy returned, one or none, ...
    attributes, \* ... and the change whose attributes it had
    buffer,     \* decisions the producer has not sent yet
    lost,       \* history: transactions a decision on which was lost
    moved,      \* history: policies have changed during the evaluation
    restarts

kafka == <<log, committed, buffer, lost>>
evaluation == <<policy, attributes, moved>>
pipeline == <<kafka, position, engine, evaluation, restarts>>

Message == [tx : Tx, status : {"PENDING", "APPROVED", "REJECTED"}]

\* Waiting for a message; for the policy, the risk score, the rules; ended.
EngineStates == {"polling", "policy", "risk", "rules", "down"}

Evaluating == engine \in {"policy", "risk", "rules"}

PipelineTypeOK ==
    /\ log \in Seq(Message) /\ buffer \in Seq(Message)
    /\ position \in 0 .. Len(log)
    /\ committed \in 0 .. Len(log)
    /\ engine \in EngineStates
    /\ policy \subseteq Policy /\ Cardinality(policy) <= 1
    /\ attributes \in Approval \cup {NoApproval}
    /\ lost \subseteq Tx
    /\ moved \in BOOLEAN
    /\ restarts \in 0 .. MaxRestarts

PipelineInit ==
    /\ Init
    /\ log = <<>> /\ buffer = <<>>
    /\ position = 0 /\ committed = 0
    /\ engine = "polling"
    /\ policy = {} /\ attributes = NoApproval /\ moved = FALSE
    /\ lost = {}
    /\ restarts = 0

Copies(t) == {i \in DOMAIN log : log[i] = [tx |-> t, status |-> "PENDING"]}
-----------------------------------------------------------------------------
(* Policies.                                                               *)

\* No operation changes the status that a policy was created with.
Matches(p, agent, workflow) ==
    /\ p \in Active
    /\ \/ PolicyAgent[p] = agent
       \/ workflow # None /\ PolicyWorkflow[p] = workflow

\* ORDER BY agent_id NULLS LAST, workflow_id NULLS LAST.
SortsBefore(p, q) ==
    \/ PolicyAgent[p] < PolicyAgent[q]
    \/ PolicyAgent[p] = PolicyAgent[q] /\ PolicyWorkflow[p] < PolicyWorkflow[q]

\* The rows PostgreSQL may return for LIMIT 1.
EffectivePolicies(agent, workflow) ==
    LET matching == {p \in created : Matches(p, agent, workflow)}
    IN  {p \in matching : \A q \in matching : ~ SortsBefore(q, p)}

\* Administrators and approvers go on during an evaluation.
Administration ==
    /\ Next
    /\ moved' = \/ moved
                \/ Evaluating /\ <<created, inForce>>' # <<created, inForce>>
    /\ UNCHANGED <<kafka, position, engine, policy, attributes, restarts>>
-----------------------------------------------------------------------------
(* The topic.                                                              *)

\* A pending event is written; the writer repeats it when it has seen no
\* acknowledgement, and whoever posted it may get an error all the same.
Publish(t) ==
    /\ Cardinality(Copies(t)) < MaxCopies
    /\ log' = Append(log, [tx |-> t, status |-> "PENDING"])
    /\ UNCHANGED <<vars, position, committed, engine, evaluation, buffer, lost, restarts>>

\* The producer's thread sends a message, without retries.
Deliver ==
    /\ buffer # <<>>
    /\ log' = Append(log, Head(buffer))
    /\ buffer' = Tail(buffer)
    /\ UNCHANGED <<vars, position, committed, engine, evaluation, lost, restarts>>

LoseDecision ==
    /\ buffer # <<>>
    /\ lost' = lost \cup {Head(buffer).tx}
    /\ buffer' = Tail(buffer)
    /\ UNCHANGED <<vars, log, position, committed, engine, evaluation, restarts>>

\* Bug: commits while a message is being evaluated.
PollsAnyTime == engine # "down"

Polls == engine = "polling"

\* The consumer commits its position when it polls, now and then.
CommitOffset ==
    /\ Polls
    /\ committed' = position
    /\ UNCHANGED <<vars, log, position, engine, evaluation, buffer, lost, restarts>>
-----------------------------------------------------------------------------
(* The engine.                                                             *)

\* The transaction being evaluated.
Taken == log[position].tx

\* Bug: only pending messages move the consumer on.
NextPositionIfPending == IF log[position + 1].status = "PENDING" THEN position + 1 ELSE position

NextPosition == position + 1

\* The process ends, by an exception that nobody catches or otherwise; its
\* producer is closed without waiting for the buffer.
Dies ==
    /\ engine' = "down"
    /\ buffer' = <<>>
    /\ lost' = lost \cup {buffer[i].tx : i \in DOMAIN buffer}
    /\ policy' = {} /\ attributes' = NoApproval /\ moved' = FALSE

Decides(verdict) ==
    /\ engine' = "polling"
    /\ buffer' = Append(buffer, [tx |-> Taken, status |-> verdict])
    /\ policy' = {} /\ attributes' = NoApproval /\ moved' = FALSE
    /\ UNCHANGED lost

GoesOn(state) ==
    /\ engine' = state
    /\ UNCHANGED <<buffer, lost, moved>>

\* The next message: a decision is skipped; null has no workflow_id to get.
TakeMessage ==
    /\ engine = "polling"
    /\ position < Len(log)
    /\ position' = NextPosition
    /\ LET m == log[position + 1]
       IN  IF m.status = "PENDING" /\ m.tx \in NoMetadata
           THEN Dies
           ELSE /\ GoesOn(IF m.status = "PENDING" THEN "policy" ELSE "polling")
                /\ UNCHANGED <<policy, attributes>>
    /\ UNCHANGED <<vars, log, committed, restarts>>

\* _get_auth_policy; without an agent_id the engine asks for "default", which
\* the auth service refuses.
FetchPolicy(away) ==
    LET answers == IF away \/ AgentOf[Taken] = None THEN {}
                   ELSE EffectivePolicies(AgentOf[Taken], WorkflowOf[Taken])
    IN  /\ engine = "policy"
        /\ IF answers = {}
           THEN Decides("REJECTED")
           ELSE \E p \in answers :
                    /\ policy' = {p}
                    /\ attributes' = inForce[p]
                    /\ GoesOn("risk")
        /\ UNCHANGED <<vars, log, position, committed, restarts>>

\* Bug: the attributes the policy was created with.
AcceptsAsCreated(t) == \A p \in policy : t \in Permits[p][NoApproval]

Accepts(t) == \A p \in policy : t \in Permits[p][attributes]

\* _get_external_risk_score, low when the service is away, and the checks of
\* ceiling, context and daily budget, of which nothing is ever used up.
AskRisk(high) ==
    /\ engine = "risk"
    /\ CASE high -> Decides("REJECTED")
         [] ~ high /\ Taken \in NoNumber -> Dies
         [] ~ high /\ Taken \notin NoNumber /\ ~ Accepts(Taken) -> Decides("REJECTED")
         [] OTHER -> GoesOn("rules") /\ UNCHANGED <<policy, attributes>>
    /\ UNCHANGED <<vars, log, position, committed, restarts>>

\* The first rule that matches decides.
Approve(rules, t) ==
    \E i \in DOMAIN rules :
        /\ t \in rules[i].matches /\ rules[i].type # "reject"
        /\ \A j \in 1 .. i - 1 : t \notin rules[j].matches

HasRole(role) == \A p \in policy : Roles[p] = role

\* get_active_rules: a database error reads like a table without rules, and
\* then the policy's roles decide; "executor" is not in None, it raises.
FetchRules(rules) ==
    /\ engine = "rules"
    /\ IF rules # <<>>
       THEN Decides(IF Approve(rules, Taken) THEN "APPROVED" ELSE "REJECTED")
       ELSE IF HasRole("NULL") THEN Dies
       ELSE Decides(IF HasRole("executor") THEN "APPROVED" ELSE "REJECTED")
    /\ UNCHANGED <<vars, log, position, committed, restarts>>

Crash ==
    /\ engine # "down"
    /\ Dies
    /\ UNCHANGED <<vars, log, position, committed, restarts>>

\* Bug: the consumer believes to have handled the message it goes on from.
RestartAfter == committed + 1

RestartAt == committed

\* Somebody starts the process again, or the consumer joins its group again
\* after an evaluation longer than the group allows.
Restart ==
    /\ engine \in {"down", "polling"}
    /\ restarts < MaxRestarts
    /\ restarts' = restarts + 1
    /\ engine' = "polling"
    /\ position' = RestartAt
    /\ UNCHANGED <<vars, kafka, evaluation>>

Evaluate ==
    \/ \E answer \in BOOLEAN : FetchPolicy(answer) \/ AskRisk(answer)
    \/ \E rules \in RuleTables \cup {<<>>} : FetchRules(rules)

PipelineNext ==
    \/ Administration
    \/ \E t \in Tx : Publish(t)
    \/ TakeMessage \/ Evaluate \/ Deliver \/ LoseDecision \/ CommitOffset
    \/ Crash \/ Restart

PipelineSpec == PipelineInit /\ [][PipelineNext]_<<vars, pipeline>>

\* The loop runs, its calls have timeouts, the producer's thread sends or
\* gives up, offsets are committed every five seconds.
PipelineFairSpec ==
    /\ PipelineSpec
    /\ WF_pipeline(TakeMessage) /\ WF_pipeline(Evaluate)
    /\ WF_pipeline(Deliver \/ LoseDecision)
    /\ WF_pipeline(CommitOffset)
-----------------------------------------------------------------------------
(* Properties.                                                             *)

Decisions(s, t) == {i \in DOMAIN s : s[i].tx = t /\ s[i].status # "PENDING"}

\* A pending event whose offset is committed has been decided, though the
\* decision may be lost: whenever the engine dies, none is skipped.
AtLeastOnce ==
    \A i \in 1 .. committed : log[i].status = "PENDING" =>
        \/ log[i].tx \in lost
        \/ Decisions(log, log[i].tx) \cup Decisions(buffer, log[i].tx) # {}

\* Each copy of an event is decided at most once in each life of the engine:
\* it never takes its own messages for work.
OncePerCopyAndLife ==
    \A t \in Tx : Cardinality(Decisions(log, t)) + Cardinality(Decisions(buffer, t))
                      <= Cardinality(Copies(t)) * (1 + restarts)

\* An event without metadata kills the engine in every life, before its
\* offset can be committed: nothing behind it is ever decided.
NothingBehindPoison ==
    \A i \in DOMAIN log : log[i].status = "PENDING" /\ log[i].tx \in NoMetadata =>
        /\ committed < i
        /\ \A t \in Tx : Decisions(log, t) \cup Decisions(buffer, t) # {} =>
               \E j \in Copies(t) : j < i

\* What becomes of pending events through crashes, restarts and copies.
DecisionsAccounted == AtLeastOnce /\ OncePerCopyAndLife /\ NothingBehindPoison

\* A transaction is approved only for an agent, and only if the policy that is
\* effective for it lets it pass with the attributes now in force, unless
\* policies have moved since the engine took the event.
ApprovedByPolicy ==
    [][ \A t \in Tx : buffer' = Append(buffer, [tx |-> t, status |-> "APPROVED"]) =>
            /\ AgentOf[t] # None
            /\ moved \/ \E p \in EffectivePolicies(AgentOf[t], WorkflowOf[t]) :
                            t \in Permits[p][inForce[p]] ]_pipeline

\* When no more is published, the engine has in the end decided everything,
\* sent it and committed it, unless it is down.
EngineCatchesUp ==
    <>[](engine = "down" \/ /\ engine = "polling" /\ buffer = <<>>
                            /\ committed = Len(log))
=============================================================================
