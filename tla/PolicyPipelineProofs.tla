------------------------ MODULE PolicyPipelineProofs ------------------------
(***************************************************************************)
(* Theorems about PolicyPipeline, for any transactions, policies, rules    *)
(* and restarts.                                                           *)
(***************************************************************************)
EXTENDS PolicyPipeline, PolicyApprovalsProofs

\* What the engine waits for concerns a pending event that has metadata.
PlaceInv ==
    Evaluating => /\ position # 0 /\ log[position].status = "PENDING"
                  /\ Taken \notin NoMetadata

\* The policy in hand, and what has been found out with it.
EvalInv ==
    /\ engine \in {"risk", "rules"} =>
           /\ AgentOf[Taken] # None
           /\ \E p \in Policy :
                  /\ policy = {p}
                  /\ moved \/ /\ p \in EffectivePolicies(AgentOf[Taken], WorkflowOf[Taken])
                              /\ attributes = inForce[p]
    /\ engine = "rules" => Accepts(Taken)

\* The producer has decisions only.
BufferInv == \A i \in DOMAIN buffer : buffer[i].status # "PENDING"

TypesInv == TypeOK /\ PipelineTypeOK /\ BufferInv /\ PlaceInv

LEMMA MessageFields ==
    \A m \in Message : /\ m.tx \in Tx /\ m.status \in {"PENDING", "APPROVED", "REJECTED"}
                       /\ m = [tx |-> m.tx, status |-> m.status]
BY DEF Message

LEMMA Effective ==
    \A agent, workflow : EffectivePolicies(agent, workflow) \subseteq created
BY DEF EffectivePolicies

LEMMA InitTypes == PipelineInit => TypesInv
<1> SUFFICES ASSUME PipelineInit PROVE TypesInv
  OBVIOUS
<1>1. TypeOK
  BY InitApproval DEF PipelineInit, ApprovalInv
<1>2. PipelineTypeOK
  <2>1. Cardinality({}) = 0 /\ MaxRestarts \in Nat /\ Len(<<>>) = 0
    BY FS_EmptySet, PipelineAssumption
  <2>2. log \in Seq(Message) /\ buffer \in Seq(Message)
    BY DEF PipelineInit
  <2>3. position = 0 /\ committed = 0 /\ Len(log) = 0 /\ restarts \in 0 .. MaxRestarts
    BY <2>1 DEF PipelineInit
  <2>4. policy \subseteq Policy /\ Cardinality(policy) <= 1 /\ lost \subseteq Tx
    BY <2>1 DEF PipelineInit
  <2>5. attributes \in Approval \cup {NoApproval} /\ moved \in BOOLEAN /\ engine \in EngineStates
    BY DEF PipelineInit, EngineStates
  <2> QED
    BY <2>2, <2>3, <2>4, <2>5 DEF PipelineTypeOK
<1>3. BufferInv /\ PlaceInv
  BY DEF PipelineInit, BufferInv, PlaceInv, Evaluating
<1> QED
  BY <1>1, <1>2, <1>3 DEF TypesInv

\* The three ways in which a step of an evaluation ends.
LEMMA EvaluateShape ==
    ASSUME TypesInv, Evaluate
    PROVE  /\ Evaluating
           /\ UNCHANGED <<vars, log, position, committed, restarts>>
           /\ policy' \subseteq Policy /\ Cardinality(policy') <= 1
           /\ attributes' \in Approval \cup {NoApproval}
           /\ \/ engine' \in {"risk", "rules"} /\ UNCHANGED <<buffer, lost, moved>>
              \/ \E verdict \in {"APPROVED", "REJECTED"} : Decides(verdict)
              \/ Dies
<1>0. /\ policy \subseteq Policy /\ Cardinality(policy) <= 1
      /\ attributes \in Approval \cup {NoApproval}
  BY DEF TypesInv, PipelineTypeOK
<1>1. ASSUME (\E verdict \in {"APPROVED", "REJECTED"} : Decides(verdict)) \/ Dies
      PROVE  /\ policy' \subseteq Policy /\ Cardinality(policy') <= 1
             /\ attributes' \in Approval \cup {NoApproval}
  <2>1. policy' = {} /\ attributes' = NoApproval
    BY <1>1 DEF Decides, Dies
  <2>2. Cardinality({}) = 0
    BY FS_EmptySet
  <2> QED
    BY <2>1, <2>2
<1>2. ASSUME NEW away \in BOOLEAN, FetchPolicy(away)
      PROVE  /\ engine = "policy"
             /\ UNCHANGED <<vars, log, position, committed, restarts>>
             /\ \/ Decides("REJECTED")
                \/ \E p \in created : /\ policy' = {p} /\ attributes' = inForce[p]
                                      /\ GoesOn("risk")
  BY <1>2, Effective DEF FetchPolicy
<1>3. ASSUME NEW high \in BOOLEAN, AskRisk(high)
      PROVE  /\ engine = "risk"
             /\ UNCHANGED <<vars, log, position, committed, restarts>>
             /\ \/ Decides("REJECTED") \/ Dies
                \/ GoesOn("rules") /\ UNCHANGED <<policy, attributes>>
  BY <1>3 DEF AskRisk
<1>4. ASSUME NEW rules, FetchRules(rules)
      PROVE  /\ engine = "rules"
             /\ UNCHANGED <<vars, log, position, committed, restarts>>
             /\ Decides("REJECTED") \/ Decides("APPROVED") \/ Dies
  BY <1>4 DEF FetchRules
<1>5. ASSUME NEW p \in created, policy' = {p}, attributes' = inForce[p]
      PROVE  /\ policy' \subseteq Policy /\ Cardinality(policy') <= 1
             /\ attributes' \in Approval \cup {NoApproval}
  <2>1. p \in Policy /\ inForce[p] \in Approval \cup {NoApproval}
    BY DEF TypesInv, TypeOK
  <2>2. Cardinality({p}) = 1
    BY FS_Singleton
  <2> QED
    BY <1>5, <2>1, <2>2
<1> QED
  BY <1>0, <1>1, <1>2, <1>3, <1>4, <1>5 DEF Evaluate, Evaluating, GoesOn

\* What the other steps do; they leave policies alone, and the evaluation too.
LEMMA OtherShapes ==
    ASSUME TypesInv,
           Deliver \/ LoseDecision \/ CommitOffset \/ (\E t \in Tx : Publish(t))
    PROVE  /\ UNCHANGED <<vars, position, engine, evaluation, restarts>>
           /\ \/ UNCHANGED <<log, committed>> /\ buffer # <<>> /\ buffer' = Tail(buffer)
                 /\ lost' = lost \cup {Head(buffer).tx}
              \/ /\ UNCHANGED <<committed, lost>> /\ buffer # <<>> /\ buffer' = Tail(buffer)
                 /\ log' = Append(log, Head(buffer))
              \/ /\ UNCHANGED <<committed, lost, buffer>>
                 /\ \E t \in Tx : log' = Append(log, [tx |-> t, status |-> "PENDING"])
              \/ /\ UNCHANGED <<log, lost, buffer>> /\ engine = "polling"
                 /\ committed' = position
BY DEF Deliver, LoseDecision, CommitOffset, Publish, Polls

LEMMA AppendMessage ==
    ASSUME NEW s \in Seq(Message), NEW m \in Message
    PROVE  /\ Append(s, m) \in Seq(Message) /\ Len(Append(s, m)) = Len(s) + 1
           /\ Append(s, m)[Len(s) + 1] = m
           /\ \A i \in 1 .. Len(s) : Append(s, m)[i] = s[i]
OBVIOUS

LEMMA TailMessage ==
    ASSUME NEW s \in Seq(Message), s # <<>>
    PROVE  /\ Tail(s) \in Seq(Message) /\ Len(s) \in Nat \ {0} /\ Len(Tail(s)) = Len(s) - 1
           /\ Head(s) = s[1] /\ s[1] \in Message
           /\ \A i \in 1 .. Len(Tail(s)) : Tail(s)[i] = s[i + 1]
OBVIOUS

\* Every step keeps the types, and what the engine evaluates.
LEMMA TypesStep == TypesInv /\ [PipelineNext]_<<vars, pipeline>> => TypesInv'
<1> SUFFICES ASSUME TypesInv, [PipelineNext]_<<vars, pipeline>> PROVE TypesInv'
  OBVIOUS
<1>0. TypeOK /\ PipelineTypeOK /\ BufferInv /\ PlaceInv
  BY DEF TypesInv
<1>a. ASSUME UNCHANGED vars PROVE TypeOK'
  BY <1>0, <1>a DEF TypeOK, vars, rows
<1>b. log \in Seq(Message) /\ buffer \in Seq(Message) /\ Len(log) \in Nat /\ position \in Nat
      /\ committed \in Nat /\ position <= Len(log) /\ committed <= Len(log)
  BY <1>0 DEF PipelineTypeOK
<1>c. ASSUME UNCHANGED <<policy, attributes>>
      PROVE  /\ policy' \subseteq Policy /\ Cardinality(policy') <= 1
             /\ attributes' \in Approval \cup {NoApproval}
  BY <1>0, <1>c DEF PipelineTypeOK
<1>d. ASSUME Dies
      PROVE  /\ policy' \subseteq Policy /\ Cardinality(policy') <= 1
             /\ attributes' \in Approval \cup {NoApproval}
             /\ engine' \in EngineStates /\ ~ Evaluating' /\ moved' \in BOOLEAN
             /\ buffer' = <<>> /\ buffer' \in Seq(Message)
             /\ lost' \subseteq Tx
  <2>1. policy' = {} /\ attributes' = NoApproval /\ buffer' = <<>> /\ moved' = FALSE
        /\ engine' = "down" /\ lost' = lost \cup {buffer[i].tx : i \in DOMAIN buffer}
    BY <1>d DEF Dies
  <2>2. \A i \in DOMAIN buffer : buffer[i].tx \in Tx
    BY <1>b, MessageFields
  <2>3. Cardinality({}) = 0
    BY FS_EmptySet
  <2>4. lost' \subseteq Tx
    BY <1>0, <2>1, <2>2 DEF PipelineTypeOK
  <2>5. buffer' \in Seq(Message)
    BY <2>1
  <2>6. engine' \in EngineStates /\ ~ Evaluating'
    BY <2>1 DEF EngineStates, Evaluating
  <2>7. policy' \subseteq Policy /\ Cardinality(policy') <= 1
    BY <2>1, <2>3
  <2>8. attributes' \in Approval \cup {NoApproval} /\ moved' \in BOOLEAN /\ buffer' = <<>>
    BY <2>1
  <2> QED
    BY <2>4, <2>5, <2>6, <2>7, <2>8
<1>1. CASE Administration
  <2>1. TypeOK'
    BY <1>0, <1>1, TypeStep DEF Administration
  <2>2. UNCHANGED <<kafka, position, engine, policy, attributes, restarts>>
    BY <1>1 DEF Administration
  <2>3. moved' \in BOOLEAN
    BY <1>1, Zenon DEF Administration
  <2> QED
    BY <1>0, <2>1, <2>2, <2>3
       DEF TypesInv, PipelineTypeOK, BufferInv, PlaceInv, Evaluating, Taken, kafka
<1>2. CASE Deliver \/ LoseDecision \/ CommitOffset \/ \E t \in Tx : Publish(t)
  <2>1. UNCHANGED <<vars, position, engine, policy, attributes, moved, restarts>>
    BY <1>2, OtherShapes DEF evaluation
  <2>2. /\ log' \in Seq(Message) /\ Len(log') \in Nat /\ Len(log) <= Len(log')
        /\ \A i \in 1 .. Len(log) : log'[i] = log[i]
    <3>1. CASE log' = log
      BY <1>b, <3>1
    <3>2. ASSUME NEW m \in Message, log' = Append(log, m)
          PROVE  <2>2
      BY <1>b, <3>2, AppendMessage
    <3>3. ASSUME buffer # <<>> PROVE Head(buffer) \in Message
      BY <1>b, <3>3, TailMessage
    <3>4. \A t \in Tx : [tx |-> t, status |-> "PENDING"] \in Message
      BY DEF Message
    <3> QED
      BY <1>2, <3>1, <3>2, <3>3, <3>4, OtherShapes
  <2>3. /\ buffer' \in Seq(Message) /\ lost' \subseteq Tx
        /\ BufferInv'
    <3>1. CASE buffer' = buffer /\ lost' = lost
      BY <1>0, <1>b, <3>1 DEF BufferInv, PipelineTypeOK
    <3>2. CASE /\ buffer # <<>> /\ buffer' = Tail(buffer)
               /\ lost' = lost \/ lost' = lost \cup {Head(buffer).tx}
      <4>1. Head(buffer).tx \in Tx
        BY <1>b, <3>2, TailMessage, MessageFields
      <4>2. buffer' \in Seq(Message)
        BY <1>b, <3>2, TailMessage
      <4>3. ASSUME NEW i \in DOMAIN buffer' PROVE buffer'[i].status # "PENDING"
        <5>1. i \in 1 .. Len(Tail(buffer)) /\ i + 1 \in 1 .. Len(buffer)
          BY <1>b, <3>2, <4>2, <4>3, TailMessage
        <5>2. buffer'[i] = buffer[i + 1] /\ i + 1 \in DOMAIN buffer
          BY <1>b, <3>2, <5>1, TailMessage
        <5> QED
          BY <1>0, <5>2 DEF BufferInv
      <4> QED
        BY <1>0, <3>2, <4>1, <4>2, <4>3 DEF BufferInv, PipelineTypeOK
    <3> QED
      BY <1>2, <3>1, <3>2, OtherShapes
  <2>4. committed' \in 0 .. Len(log')
    BY <1>2, <1>b, <2>2, OtherShapes
  <2>5. PipelineTypeOK'
    BY <1>0, <1>b, <2>1, <2>2, <2>3, <2>4 DEF PipelineTypeOK
  <2>6. PlaceInv'
    BY <1>0, <1>b, <2>1, <2>2 DEF PlaceInv, Evaluating, Taken
  <2> QED
    BY <1>a, <2>1, <2>3, <2>5, <2>6 DEF TypesInv
<1>3. CASE TakeMessage
  <2>1. UNCHANGED <<vars, log, committed, restarts>> /\ position' = position + 1
        /\ position < Len(log)
    BY <1>3 DEF TakeMessage, NextPosition
  <2>2. CASE log[position + 1].status = "PENDING" /\ log[position + 1].tx \in NoMetadata
    <3>1. Dies
      BY <1>3, <2>2 DEF TakeMessage
    <3> QED
      BY <1>0, <1>a, <1>b, <1>d, <2>1, <3>1
         DEF TypesInv, PipelineTypeOK, BufferInv, PlaceInv
  <2>3. CASE ~ (log[position + 1].status = "PENDING" /\ log[position + 1].tx \in NoMetadata)
    <3>1. /\ engine' = IF log[position + 1].status = "PENDING" THEN "policy" ELSE "polling"
          /\ UNCHANGED <<buffer, lost, moved, policy, attributes>>
      BY <1>3, <2>3 DEF TakeMessage, GoesOn
    <3>2. PlaceInv'
      BY <1>b, <2>1, <2>3, <3>1 DEF PlaceInv, Evaluating, Taken
    <3>3. PipelineTypeOK'
      BY <1>0, <1>b, <2>1, <3>1 DEF PipelineTypeOK, EngineStates
    <3> QED
      BY <1>0, <1>a, <2>1, <3>1, <3>2, <3>3 DEF TypesInv, BufferInv
  <2> QED
    BY <2>2, <2>3
<1>4. CASE Evaluate
  <2>1. /\ Evaluating
        /\ UNCHANGED <<vars, log, position, committed, restarts>>
        /\ policy' \subseteq Policy /\ Cardinality(policy') <= 1
        /\ attributes' \in Approval \cup {NoApproval}
    BY <1>4, EvaluateShape
  <2>2. CASE engine' \in {"risk", "rules"} /\ UNCHANGED <<buffer, lost, moved>>
    <3>1. PlaceInv'
      BY <1>0, <2>1, <2>2 DEF PlaceInv, Evaluating, Taken
    <3> QED
      BY <1>0, <1>a, <2>1, <2>2, <3>1 DEF TypesInv, PipelineTypeOK, EngineStates, BufferInv
  <2>3. ASSUME NEW verdict \in {"APPROVED", "REJECTED"}, Decides(verdict) PROVE TypesInv'
    <3>1. /\ engine' = "polling" /\ moved' = FALSE /\ lost' = lost
          /\ buffer' = Append(buffer, [tx |-> Taken, status |-> verdict])
      BY <2>3 DEF Decides
    <3>2. position \in 1 .. Len(log) /\ log[position] \in Message
      BY <1>0, <1>b, <2>1 DEF PlaceInv
    <3>3. Taken \in Tx
      BY <3>2, MessageFields DEF Taken
    <3>4. [tx |-> Taken, status |-> verdict] \in Message
      BY <3>3 DEF Message
    <3>5. buffer' \in Seq(Message)
      BY <1>b, <3>1, <3>4, AppendMessage
    <3>6. BufferInv'
      <4> SUFFICES ASSUME NEW i \in DOMAIN buffer' PROVE buffer'[i].status # "PENDING"
        BY DEF BufferInv
      <4>1. i \in 1 .. Len(buffer) \/ i = Len(buffer) + 1
        BY <1>b, <3>1, <3>4, <3>5, AppendMessage
      <4>2. CASE i \in 1 .. Len(buffer)
        BY <1>0, <1>b, <3>1, <3>4, <4>2, AppendMessage DEF BufferInv
      <4>3. CASE i = Len(buffer) + 1
        BY <1>b, <3>1, <3>4, <4>3, AppendMessage
      <4> QED
        BY <4>1, <4>2, <4>3
    <3>7. PlaceInv'
      BY <3>1 DEF PlaceInv, Evaluating
    <3> QED
      BY <1>0, <1>a, <2>1, <3>1, <3>5, <3>6, <3>7 DEF TypesInv, PipelineTypeOK, EngineStates
  <2>4. CASE Dies
    BY <1>0, <1>a, <1>b, <1>d, <2>1, <2>4 DEF TypesInv, PipelineTypeOK, BufferInv, PlaceInv
  <2> QED
    BY <1>4, <2>2, <2>3, <2>4, EvaluateShape
<1>5. CASE Crash
  <2>1. Dies /\ UNCHANGED <<vars, log, position, committed, restarts>>
    BY <1>5 DEF Crash
  <2> QED
    BY <1>0, <1>a, <1>b, <1>d, <2>1 DEF TypesInv, PipelineTypeOK, BufferInv, PlaceInv
<1>6. CASE Restart
  <2>1. /\ UNCHANGED <<vars, log, committed, buffer, lost, policy, attributes, moved>>
        /\ engine' = "polling" /\ position' = committed
        /\ restarts < MaxRestarts /\ restarts' = restarts + 1
    BY <1>6 DEF Restart, RestartAt, kafka, evaluation
  <2>2. restarts' \in 0 .. MaxRestarts
    BY <1>0, <2>1, PipelineAssumption DEF PipelineTypeOK
  <2> QED
    BY <1>0, <1>a, <1>b, <2>1, <2>2
       DEF TypesInv, PipelineTypeOK, EngineStates, BufferInv, PlaceInv, Evaluating
<1>7. CASE UNCHANGED <<vars, pipeline>>
  BY <1>0, <1>a, <1>7
     DEF pipeline, kafka, evaluation, TypesInv, PipelineTypeOK, BufferInv, PlaceInv, Evaluating, Taken
<1> QED
  BY <1>1, <1>2, <1>3, <1>4, <1>5, <1>6, <1>7 DEF PipelineNext
-----------------------------------------------------------------------------
(* What is approved.                                                       *)

\* Every step keeps what is known of the policy in hand.
LEMMA EvalStep ==
    TypesInv /\ EvalInv /\ [PipelineNext]_<<vars, pipeline>> => EvalInv'
<1> SUFFICES ASSUME TypesInv, EvalInv, [PipelineNext]_<<vars, pipeline>> PROVE EvalInv'
  OBVIOUS
<1>0. TypeOK /\ PipelineTypeOK /\ PlaceInv
  BY DEF TypesInv
<1>a. ASSUME engine' \notin {"risk", "rules"} PROVE EvalInv'
  BY <1>a DEF EvalInv
<1>b. ASSUME UNCHANGED <<created, inForce>>, UNCHANGED <<engine, policy, attributes, moved>>,
             Evaluating => Taken' = Taken
      PROVE  EvalInv'
  <2>1. \A agent, workflow : EffectivePolicies(agent, workflow)' = EffectivePolicies(agent, workflow)
    BY <1>b DEF EffectivePolicies
  <2> QED
    BY <1>b, <2>1 DEF EvalInv, Accepts, Evaluating
<1>1. CASE Administration
  <2>1. UNCHANGED <<engine, policy, attributes, Taken>>
    BY <1>1 DEF Administration, Taken, kafka
  <2>2. CASE UNCHANGED <<created, inForce>>
    <3>1. CASE moved' = moved
      BY <1>b, <2>1, <2>2, <3>1
    <3>2. CASE moved'
      BY <2>1, <3>2 DEF EvalInv, Accepts
    <3>3. moved' <=> moved
      BY <1>1, <2>2, Zenon DEF Administration
    <3>4. moved \in BOOLEAN /\ moved' \in BOOLEAN
      BY <1>0, <1>1, Zenon DEF PipelineTypeOK, Administration
    <3> QED
      BY <3>1, <3>3, <3>4, Zenon
  <2>3. CASE ~ UNCHANGED <<created, inForce>>
    <3>1. CASE Evaluating
      <4>1. moved'
        BY <1>1, <2>3, <3>1, Zenon DEF Administration
      <4> QED
        BY <2>1, <4>1 DEF EvalInv, Accepts
    <3>2. CASE ~ Evaluating
      BY <1>a, <2>1, <3>2 DEF Evaluating
    <3> QED
      BY <3>1, <3>2
  <2> QED
    BY <2>2, <2>3
<1>2. CASE Deliver \/ LoseDecision \/ CommitOffset \/ \E t \in Tx : Publish(t)
  <2>1. UNCHANGED <<created, inForce, position, engine, policy, attributes, moved>>
    BY <1>2, OtherShapes DEF vars, rows, evaluation
  <2>2. ASSUME Evaluating PROVE position \in 1 .. Len(log) /\ log \in Seq(Message)
    BY <1>0, <2>2 DEF PlaceInv, PipelineTypeOK
  <2>3. ASSUME Evaluating, NEW m \in Message, log' = Append(log, m) PROVE Taken' = Taken
    BY <2>1, <2>2, <2>3, AppendMessage DEF Taken
  <2>4. ASSUME buffer # <<>> PROVE Head(buffer) \in Message
    BY <1>0, <2>4, TailMessage DEF PipelineTypeOK
  <2>5. \A t \in Tx : [tx |-> t, status |-> "PENDING"] \in Message
    BY DEF Message
  <2>6. Evaluating => log' = log \/ \E m \in Message : log' = Append(log, m)
    BY <1>2, <2>4, <2>5, OtherShapes
  <2>7. Evaluating => Taken' = Taken
    <3>1. CASE log' = log
      BY <2>1, <3>1 DEF Taken
    <3> QED
      BY <2>3, <2>6, <3>1
  <2> QED
    BY <1>b, <2>1, <2>7
<1>3. CASE TakeMessage \/ Crash \/ Restart
  BY <1>3, <1>a DEF TakeMessage, Crash, Restart, Dies, GoesOn
<1>4. ASSUME NEW away \in BOOLEAN, FetchPolicy(away) PROVE EvalInv'
  <2> DEFINE answers == IF away \/ AgentOf[Taken] = None THEN {}
                        ELSE EffectivePolicies(AgentOf[Taken], WorkflowOf[Taken])
  <2>1. Taken' = Taken /\ UNCHANGED <<created, inForce>>
    BY <1>4 DEF FetchPolicy, Taken, vars, rows
  <2>2. CASE answers = {}
    BY <1>4, <1>a, <2>2 DEF FetchPolicy, Decides
  <2>3. CASE answers # {}
    <3>1. PICK p \in answers : policy' = {p} /\ attributes' = inForce[p] /\ engine' = "risk"
      BY <1>4, <2>3 DEF FetchPolicy, GoesOn
    <3>2. /\ AgentOf[Taken] # None
          /\ p \in EffectivePolicies(AgentOf[Taken], WorkflowOf[Taken])
      BY <3>1
    <3>3. p \in Policy
      BY <1>0, <3>2, Effective DEF TypeOK
    <3>4. EffectivePolicies(AgentOf[Taken], WorkflowOf[Taken])'
             = EffectivePolicies(AgentOf[Taken], WorkflowOf[Taken])
      BY <2>1 DEF EffectivePolicies
    <3> QED
      BY <2>1, <3>1, <3>2, <3>3, <3>4 DEF EvalInv
  <2> QED
    BY <2>2, <2>3
<1>5. ASSUME NEW high \in BOOLEAN, AskRisk(high) PROVE EvalInv'
  <2>1. Taken' = Taken /\ UNCHANGED <<created, inForce>> /\ engine = "risk"
    BY <1>5 DEF AskRisk, Taken, vars, rows
  <2>2. CASE engine' = "rules"
    <3>1. Accepts(Taken) /\ UNCHANGED <<policy, attributes, moved>>
      BY <1>5, <2>2 DEF AskRisk, Decides, Dies, GoesOn
    <3>2. \A agent, workflow :
             EffectivePolicies(agent, workflow)' = EffectivePolicies(agent, workflow)
      BY <2>1 DEF EffectivePolicies
    <3>3. Accepts(Taken)'
      BY <2>1, <3>1 DEF Accepts
    <3> QED
      BY <2>1, <3>1, <3>2, <3>3 DEF EvalInv
  <2>3. CASE engine' # "rules"
    BY <1>5, <1>a, <2>3 DEF AskRisk, Decides, Dies, GoesOn
  <2> QED
    BY <2>2, <2>3
<1>6. ASSUME NEW rules, FetchRules(rules) PROVE EvalInv'
  BY <1>6, <1>a DEF FetchRules, Decides, Dies
<1>7. CASE UNCHANGED <<vars, pipeline>>
  BY <1>7, <1>b DEF vars, rows, pipeline, kafka, evaluation, Taken
<1> QED
  BY <1>1, <1>2, <1>3, <1>4, <1>5, <1>6, <1>7 DEF PipelineNext, Evaluate

\* The types of the pipeline's variables; the group's offset and the engine's
\* position stay within the topic.
THEOREM PipelineTypeCorrect == PipelineSpec => []PipelineTypeOK
<1>1. TypesInv => PipelineTypeOK
  BY DEF TypesInv
<1> QED
  BY <1>1, InitTypes, TypesStep, PTL DEF PipelineSpec

\* Only FetchRules produces an approval, and for the event it was called with.
LEMMA ApprovalShape ==
    ASSUME TypesInv, EvalInv, [PipelineNext]_<<vars, pipeline>>, NEW t \in Tx,
           buffer' = Append(buffer, [tx |-> t, status |-> "APPROVED"])
    PROVE  engine = "rules" /\ Taken = t
<1>0. buffer \in Seq(Message)
  BY DEF TypesInv, PipelineTypeOK
<1>1. [tx |-> t, status |-> "APPROVED"] \in Message
  BY DEF Message
<1>2. /\ Len(buffer') = Len(buffer) + 1 /\ Len(buffer) \in Nat
      /\ buffer'[Len(buffer) + 1] = [tx |-> t, status |-> "APPROVED"]
  BY <1>0, <1>1, AppendMessage
<1>3. buffer' # buffer /\ buffer' # <<>>
  BY <1>2
<1>4. ASSUME buffer # <<>> PROVE buffer' # Tail(buffer)
  BY <1>0, <1>2, <1>4, TailMessage
<1>5. \E away \in BOOLEAN : FetchPolicy(away) \/ AskRisk(away) \/ \E rules : FetchRules(rules)
  <2>1. ~ Administration /\ ~ UNCHANGED <<vars, pipeline>> /\ ~ Restart
    BY <1>3 DEF Administration, kafka, pipeline, Restart
  <2>2. ~ (Deliver \/ LoseDecision \/ CommitOffset \/ \E u \in Tx : Publish(u))
    BY <1>3, <1>4, OtherShapes
  <2>3. ~ Crash /\ ~ TakeMessage
    BY <1>3 DEF Crash, Dies, TakeMessage, GoesOn
  <2> QED
    BY <2>1, <2>2, <2>3 DEF PipelineNext, Evaluate
<1>6. ASSUME NEW verdict \in {"APPROVED", "REJECTED"}, Decides(verdict)
      PROVE  Taken = t /\ verdict = "APPROVED"
  <2>1. buffer' = Append(buffer, [tx |-> Taken, status |-> verdict])
    BY <1>6 DEF Decides
  <2>2. Evaluating
    BY <1>5 DEF Evaluating, FetchPolicy, AskRisk, FetchRules
  <2>3. position \in 1 .. Len(log) /\ log \in Seq(Message)
    BY <2>2 DEF TypesInv, PlaceInv, PipelineTypeOK
  <2>4. Taken \in Tx
    BY <2>3, MessageFields DEF Taken
  <2>5. [tx |-> Taken, status |-> verdict] \in Message
    BY <2>4 DEF Message
  <2>6. [tx |-> Taken, status |-> verdict] = [tx |-> t, status |-> "APPROVED"]
    BY <1>0, <1>2, <2>1, <2>5, AppendMessage
  <2> QED
    BY <2>6
<1>7. ASSUME NEW away \in BOOLEAN PROVE ~ FetchPolicy(away) /\ ~ AskRisk(away)
  <2>1. ~ Decides("REJECTED")
    BY <1>6
  <2> QED
    BY <1>3, <2>1 DEF FetchPolicy, AskRisk, Dies, GoesOn
<1>8. PICK rules : FetchRules(rules)
  BY <1>5, <1>7
<1>9. \E verdict \in {"APPROVED", "REJECTED"} : Decides(verdict)
  BY <1>3, <1>8 DEF FetchRules, Dies
<1> QED
  BY <1>6, <1>8, <1>9 DEF FetchRules

\* Whatever administrators do during an evaluation, and whatever is read from
\* services that are away: what the engine approves, the policy effective for
\* it lets pass as it is now, unless policies have moved meanwhile.
THEOREM ApprovalsLawful == PipelineSpec => ApprovedByPolicy
<1> DEFINE Lawful == \A t \in Tx :
               buffer' = Append(buffer, [tx |-> t, status |-> "APPROVED"]) =>
                   /\ AgentOf[t] # None
                   /\ moved \/ \E p \in EffectivePolicies(AgentOf[t], WorkflowOf[t]) :
                                   t \in Permits[p][inForce[p]]
<1>1. PipelineInit => EvalInv
  BY DEF PipelineInit, EvalInv
<1>2. TypesInv /\ EvalInv /\ [PipelineNext]_<<vars, pipeline>> => [Lawful]_pipeline
  <2> SUFFICES ASSUME TypesInv, EvalInv, [PipelineNext]_<<vars, pipeline>>, NEW t \in Tx,
                      buffer' = Append(buffer, [tx |-> t, status |-> "APPROVED"])
               PROVE  /\ AgentOf[t] # None
                      /\ moved \/ \E p \in EffectivePolicies(AgentOf[t], WorkflowOf[t]) :
                                      t \in Permits[p][inForce[p]]
    OBVIOUS
  <2>1. engine = "rules" /\ Taken = t
    BY ApprovalShape
  <2> QED
    BY <2>1 DEF EvalInv, Accepts
<1> QED
  BY <1>1, <1>2, InitTypes, TypesStep, EvalStep, PTL DEF PipelineSpec, ApprovedByPolicy
-----------------------------------------------------------------------------
(* What becomes of pending events: at least once, and the poison.          *)

\* Transactions with a decision, be it lost.
Settled == lost \cup {t \in Tx : Decisions(log, t) \cup Decisions(buffer, t) # {}}

\* Pending events that the consumer has passed are settled, that in hand apart;
\* after the engine's death this is known of committed offsets only.
ProgressInv ==
    /\ \A i \in 1 .. committed : log[i].status = "PENDING" => log[i].tx \in Settled
    /\ engine # "down" => \A i \in 1 .. position :
           log[i].status = "PENDING" => log[i].tx \in Settled \/ (Evaluating /\ i = position)

\* Only a dead engine has passed an event without metadata, and what is
\* decided has been published.
PoisonInv ==
    /\ NothingBehindPoison
    /\ \A t \in Tx : Decisions(log, t) \cup Decisions(buffer, t) # {} => Copies(t) # {}
    /\ engine # "down" => \A i \in DOMAIN log :
           log[i].status = "PENDING" /\ log[i].tx \in NoMetadata => position < i

LEMMA DecisionsAppend ==
    ASSUME NEW s \in Seq(Message), NEW m \in Message, NEW t
    PROVE  Decisions(Append(s, m), t) =
             IF m.tx = t /\ m.status # "PENDING" THEN Decisions(s, t) \cup {Len(s) + 1}
             ELSE Decisions(s, t)
<1>1. /\ DOMAIN Append(s, m) = 1 .. (Len(s) + 1) /\ DOMAIN s = 1 .. Len(s) /\ Len(s) \in Nat
      /\ Append(s, m)[Len(s) + 1] = m /\ \A i \in 1 .. Len(s) : Append(s, m)[i] = s[i]
  BY AppendMessage
<1> QED
  BY <1>1 DEF Decisions

LEMMA DecisionsTail ==
    ASSUME NEW s \in Seq(Message), s # <<>>, NEW t
    PROVE  /\ \A i : i \in Decisions(Tail(s), t) <=> i \in Nat /\ i + 1 \in Decisions(s, t) \ {1}
           /\ 1 \in Decisions(s, t) <=> Head(s).tx = t /\ Head(s).status # "PENDING"
           /\ Decisions(s, t) \subseteq 1 .. Len(s)
<1>1. /\ DOMAIN Tail(s) = 1 .. (Len(s) - 1) /\ DOMAIN s = 1 .. Len(s) /\ Len(s) \in Nat \ {0}
      /\ Head(s) = s[1] /\ \A i \in 1 .. (Len(s) - 1) : Tail(s)[i] = s[i + 1]
  BY TailMessage
<1> QED
  BY <1>1 DEF Decisions

\* A decision that moves from the buffer to the topic, or gets lost, still counts.
LEMMA SettledStays ==
    TypesInv /\ [PipelineNext]_<<vars, pipeline>> => Settled \subseteq Settled'
<1> SUFFICES ASSUME TypesInv, [PipelineNext]_<<vars, pipeline>>,
                    NEW t \in Tx, t \in Settled
             PROVE  t \in Settled'
  BY DEF TypesInv, PipelineTypeOK, Settled
<1>0. log \in Seq(Message) /\ buffer \in Seq(Message)
  BY DEF TypesInv, PipelineTypeOK
<1>1. CASE t \in lost
  <2>1. lost \subseteq lost'
    <3>1. CASE Evaluate
      BY <3>1, EvaluateShape DEF Decides, Dies
    <3>2. CASE Deliver \/ LoseDecision \/ CommitOffset \/ \E u \in Tx : Publish(u)
      BY <3>2, OtherShapes
    <3>3. CASE Administration \/ TakeMessage \/ Crash \/ Restart \/ UNCHANGED <<vars, pipeline>>
      BY <3>3 DEF Administration, TakeMessage, Crash, Restart, GoesOn, Dies, kafka, pipeline
    <3> QED
      BY <3>1, <3>2, <3>3 DEF PipelineNext
  <2> QED
    BY <1>1, <2>1 DEF Settled
<1>2. CASE Decisions(log, t) # {}
  <2>1. log' = log \/ \E m \in Message : log' = Append(log, m)
    <3>1. CASE Evaluate
      BY <3>1, EvaluateShape
    <3>2. CASE Deliver \/ LoseDecision \/ CommitOffset \/ \E u \in Tx : Publish(u)
      <4>1. \A u \in Tx : [tx |-> u, status |-> "PENDING"] \in Message
        BY DEF Message
      <4>2. buffer # <<>> => Head(buffer) \in Message
        BY <1>0, TailMessage
      <4> QED
        BY <3>2, <4>1, <4>2, OtherShapes
    <3>3. CASE Administration \/ TakeMessage \/ Crash \/ Restart \/ UNCHANGED <<vars, pipeline>>
      BY <3>3 DEF Administration, TakeMessage, Crash, Restart, kafka, pipeline
    <3> QED
      BY <3>1, <3>2, <3>3 DEF PipelineNext
  <2>2. CASE log' = log
    BY <1>2, <2>2 DEF Settled
  <2>3. ASSUME NEW m \in Message, log' = Append(log, m) PROVE t \in Settled'
    <3>1. Decisions(log, t) \subseteq Decisions(log', t)
      BY <1>0, <2>3, DecisionsAppend
    <3> QED
      BY <1>2, <3>1 DEF Settled
  <2> QED
    BY <2>1, <2>2, <2>3
<1>3. CASE Decisions(buffer, t) # {}
  <2>1. CASE buffer' = buffer
    BY <1>3, <2>1 DEF Settled
  <2>2. CASE Dies
    BY <1>3, <2>2 DEF Dies, Settled, Decisions
  <2>3. CASE Evaluate
    <3>1. ASSUME NEW verdict \in {"APPROVED", "REJECTED"}, Decides(verdict)
          PROVE  t \in Settled'
      <4>1. position \in 1 .. Len(log)
        BY <2>3, EvaluateShape DEF TypesInv, PlaceInv, PipelineTypeOK
      <4>2. Taken \in Tx
        BY <1>0, <4>1, MessageFields DEF Taken
      <4>3. [tx |-> Taken, status |-> verdict] \in Message
        BY <4>2 DEF Message
      <4>4. Decisions(buffer, t) \subseteq Decisions(buffer', t)
        BY <1>0, <3>1, <4>3, DecisionsAppend DEF Decides
      <4> QED
        BY <1>3, <4>4 DEF Settled
    <3> QED
      BY <2>1, <2>2, <2>3, <3>1, EvaluateShape
  <2>4. CASE Deliver \/ LoseDecision \/ CommitOffset \/ \E u \in Tx : Publish(u)
    <3>1. CASE buffer # <<>> /\ buffer' = Tail(buffer)
      <4>1. CASE 1 \in Decisions(buffer, t)
        <5>1. Head(buffer).tx = t /\ Head(buffer).status # "PENDING" /\ Head(buffer) \in Message
          BY <1>0, <3>1, <4>1, DecisionsTail, TailMessage
        <5>2. CASE log' = Append(log, Head(buffer))
          BY <1>0, <5>1, <5>2, DecisionsAppend DEF Settled
        <5>3. CASE lost' = lost \cup {Head(buffer).tx}
          BY <5>1, <5>3 DEF Settled
        <5>4. CASE UNCHANGED buffer
          BY <2>1, <5>4
        <5> QED
          BY <2>4, <5>2, <5>3, <5>4, OtherShapes
      <4>2. CASE 1 \notin Decisions(buffer, t)
        <5>1. PICK i \in Decisions(buffer, t) : i # 1 /\ i \in 1 .. Len(buffer)
          BY <1>0, <1>3, <3>1, <4>2, DecisionsTail
        <5>2. i - 1 \in Nat /\ (i - 1) + 1 = i
          BY <1>0, <5>1
        <5>3. i - 1 \in Decisions(Tail(buffer), t)
          BY <1>0, <3>1, <5>1, <5>2, DecisionsTail
        <5> QED
          BY <3>1, <5>3 DEF Settled
      <4> QED
        BY <4>1, <4>2
    <3> QED
      BY <2>1, <2>4, <3>1, OtherShapes
  <2>5. CASE Administration \/ TakeMessage \/ Crash \/ Restart \/ UNCHANGED <<vars, pipeline>>
    <3>1. buffer' = buffer \/ Dies
      BY <2>5 DEF Administration, TakeMessage, GoesOn, Crash, Restart, kafka, pipeline
    <3> QED
      BY <2>1, <2>2, <3>1
  <2> QED
    BY <2>3, <2>4, <2>5 DEF PipelineNext
<1> QED
  BY <1>1, <1>2, <1>3 DEF Settled

LEMMA ProgressStep ==
    TypesInv /\ ProgressInv /\ [PipelineNext]_<<vars, pipeline>> => ProgressInv'
<1> SUFFICES ASSUME TypesInv, ProgressInv, [PipelineNext]_<<vars, pipeline>>
             PROVE  ProgressInv'
  OBVIOUS
<1>0. /\ log \in Seq(Message) /\ buffer \in Seq(Message)
      /\ position \in Nat /\ committed \in Nat /\ Len(log) \in Nat
      /\ position <= Len(log) /\ committed <= Len(log)
  BY DEF TypesInv, PipelineTypeOK
<1>s. Settled \subseteq Settled'
  BY SettledStays
<1>a. ASSUME \A i \in 1 .. Len(log) : log'[i] = log[i],
             committed' = committed, position' = position,
             \/ engine' = engine \/ engine' = "down"
             \/ Evaluating /\ engine' \in {"risk", "rules"}
      PROVE  ProgressInv'
  BY <1>0, <1>s, <1>a DEF ProgressInv, Evaluating
<1>b. ASSUME log' = log PROVE \A i \in 1 .. Len(log) : log'[i] = log[i]
  BY <1>b
<1>1. CASE Administration \/ UNCHANGED <<vars, pipeline>>
  <2>1. log' = log /\ committed' = committed /\ position' = position /\ engine' = engine
    BY <1>1 DEF Administration, kafka, pipeline
  <2> QED
    BY <2>1, <1>a, <1>b
<1>2. CASE Deliver \/ LoseDecision \/ CommitOffset \/ \E u \in Tx : Publish(u)
  <2>1. position' = position /\ engine' = engine
    BY <1>2, OtherShapes
  <2>2. CASE UNCHANGED log /\ engine = "polling" /\ committed' = position
    BY <1>0, <1>s, <2>1, <2>2 DEF ProgressInv, Evaluating
  <2>3. CASE committed' = committed
    <3>1. CASE log' = log
      BY <1>a, <1>b, <2>1, <2>3, <3>1
    <3>2. ASSUME NEW m \in Message, log' = Append(log, m) PROVE ProgressInv'
      <4>1. \A i \in 1 .. Len(log) : log'[i] = log[i]
        BY <1>0, <3>2, AppendMessage
      <4> QED
        BY <1>a, <2>1, <2>3, <4>1
    <3>3. \A u \in Tx : [tx |-> u, status |-> "PENDING"] \in Message
      BY DEF Message
    <3>4. buffer # <<>> => Head(buffer) \in Message
      BY <1>0, TailMessage
    <3> QED
      BY <1>2, <2>2, <3>1, <3>2, <3>3, <3>4, OtherShapes
  <2> QED
    BY <1>2, <2>2, <2>3, OtherShapes
<1>3. CASE TakeMessage
  <2>1. /\ log' = log /\ committed' = committed /\ position' = position + 1
        /\ engine = "polling" /\ position < Len(log)
        /\ \/ engine' = "down"
           \/ engine' = IF log[position + 1].status = "PENDING" THEN "policy" ELSE "polling"
    BY <1>3 DEF TakeMessage, NextPosition, Dies, GoesOn
  <2>2. ASSUME NEW i \in 1 .. committed, log[i].status = "PENDING"
        PROVE  log[i].tx \in Settled'
    BY <1>s, <2>2 DEF ProgressInv
  <2>3. ASSUME NEW i \in 1 .. (position + 1), log[i].status = "PENDING", engine' # "down"
        PROVE  log[i].tx \in Settled' \/ (Evaluating' /\ i = position + 1)
    <3>1. CASE i = position + 1
      BY <2>1, <2>3, <3>1 DEF Evaluating
    <3>2. CASE i # position + 1
      <4>1. i \in 1 .. position
        BY <1>0, <3>2
      <4>2. engine # "down" /\ ~ Evaluating
        BY <2>1 DEF Evaluating
      <4>3. log[i].tx \in Settled
        BY <2>3, <4>1, <4>2 DEF ProgressInv
      <4> QED
        BY <1>s, <4>3
    <3> QED
      BY <3>1, <3>2
  <2> QED
    BY <2>1, <2>2, <2>3 DEF ProgressInv
<1>4. CASE Evaluate
  <2>1. Evaluating /\ UNCHANGED <<log, position, committed>>
    BY <1>4, EvaluateShape
  <2>2. CASE engine' \in {"risk", "rules"} \/ Dies
    <3>1. engine' = "down" \/ engine' \in {"risk", "rules"}
      BY <2>2 DEF Dies
    <3> QED
      BY <1>a, <1>b, <2>1, <3>1
  <2>3. ASSUME NEW verdict \in {"APPROVED", "REJECTED"}, Decides(verdict)
        PROVE  ProgressInv'
    <3>1. position \in 1 .. Len(log)
      BY <1>0, <2>1 DEF TypesInv, PlaceInv
    <3>2. Taken \in Tx
      BY <1>0, <3>1, MessageFields DEF Taken
    <3>3. [tx |-> Taken, status |-> verdict] \in Message
      BY <3>2 DEF Message
    <3>4. Len(buffer) + 1 \in Decisions(buffer', Taken)
      BY <1>0, <2>3, <3>3, DecisionsAppend DEF Decides
    <3>5. log[position].tx \in Settled'
      BY <3>2, <3>4 DEF Settled, Taken
    <3> QED
      BY <1>0, <1>s, <2>1, <2>3, <3>1, <3>5 DEF ProgressInv, Evaluating, Decides
  <2> QED
    BY <1>4, <2>2, <2>3, EvaluateShape
<1>5. CASE Crash
  <2>1. log' = log /\ committed' = committed /\ position' = position /\ engine' = "down"
    BY <1>5 DEF Crash, Dies
  <2> QED
    BY <2>1, <1>a, <1>b
<1>6. CASE Restart
  <2>1. log' = log /\ committed' = committed /\ position' = committed
    BY <1>6 DEF Restart, RestartAt, kafka
  <2>2. ASSUME NEW i \in 1 .. committed, log[i].status = "PENDING"
        PROVE  log[i].tx \in Settled'
    BY <1>s, <2>2 DEF ProgressInv
  <2>3. \A i \in 1 .. committed' : log'[i].status = "PENDING" => log'[i].tx \in Settled'
    BY <2>1, <2>2
  <2>4. \A i \in 1 .. position' : log'[i].status = "PENDING" => log'[i].tx \in Settled'
    BY <2>1, <2>2
  <2> QED
    BY <2>3, <2>4 DEF ProgressInv
<1> QED
  BY <1>1, <1>2, <1>3, <1>4, <1>5, <1>6 DEF PipelineNext
-----------------------------------------------------------------------------
(* How many decisions are made.                                            *)

\* Decisions on t that are in the topic or about to be.
Made(t) == Cardinality(Decisions(log, t)) + Cardinality(Decisions(buffer, t))

\* Copies of t that the consumer has passed.
Past(t) == {i \in Copies(t) : i <= position}

\* The evaluation in hand is one of t.
InHand(t) == IF Evaluating /\ Taken = t THEN 1 ELSE 0

\* In each life a copy is passed once and decided at most once; all copies may
\* have been passed in each of the earlier lives.
CountInv ==
    \A t \in Tx : Made(t) + InHand(t) <= restarts * Cardinality(Copies(t)) + Cardinality(Past(t))

LEMMA CountFinite ==
    ASSUME NEW s \in Seq(Message), NEW t
    PROVE  /\ IsFiniteSet(Decisions(s, t)) /\ Cardinality(Decisions(s, t)) \in Nat
           /\ Cardinality(Decisions(s, t)) = 0 <=> Decisions(s, t) = {}
<1>1. Decisions(s, t) \in SUBSET (1 .. Len(s)) /\ Len(s) \in Int
  BY DEF Decisions
<1> QED
  <2>1. IsFiniteSet(1 .. Len(s))
    BY <1>1, FS_Interval
  <2>2. IsFiniteSet(Decisions(s, t))
    BY <1>1, <2>1, FS_Subset
  <2> QED
    BY <2>2, FS_CardinalityType, FS_EmptySet

LEMMA CountAppend ==
    ASSUME NEW s \in Seq(Message), NEW m \in Message, NEW t
    PROVE  Cardinality(Decisions(Append(s, m), t)) = Cardinality(Decisions(s, t))
               + IF m.tx = t /\ m.status # "PENDING" THEN 1 ELSE 0
<1>1. Len(s) + 1 \notin Decisions(s, t)
  BY DEF Decisions
<1>2. Cardinality(Decisions(s, t) \cup {Len(s) + 1}) = Cardinality(Decisions(s, t)) + 1
  BY <1>1, CountFinite, FS_AddElement
<1>3. Cardinality(Decisions(s, t)) \in Nat
  BY CountFinite
<1>4. CASE m.tx = t /\ m.status # "PENDING"
  BY <1>2, <1>4, DecisionsAppend
<1>5. CASE ~ (m.tx = t /\ m.status # "PENDING")
  BY <1>3, <1>5, DecisionsAppend
<1> QED
  BY <1>4, <1>5

LEMMA CountTail ==
    ASSUME NEW s \in Seq(Message), s # <<>>, NEW t
    PROVE  Cardinality(Decisions(s, t)) = Cardinality(Decisions(Tail(s), t))
               + IF Head(s).tx = t /\ Head(s).status # "PENDING" THEN 1 ELSE 0
<1> DEFINE S == Decisions(Tail(s), t)
           T == Decisions(s, t) \ {1}
           f == [i \in S |-> i + 1]
<1>1. /\ \A i : i \in S <=> i \in Nat /\ i + 1 \in T
      /\ 1 \in Decisions(s, t) <=> Head(s).tx = t /\ Head(s).status # "PENDING"
      /\ Decisions(s, t) \subseteq 1 .. Len(s)
  BY DecisionsTail
<1>2. IsFiniteSet(S) /\ Cardinality(S) \in Nat
  BY TailMessage, CountFinite
<1>3. f \in Bijection(S, T)
  <2>1. f \in [S -> T]
    BY <1>1
  <2>2. \A i, j \in S : f[i] = f[j] => i = j
    BY <1>1
  <2>3. \A k \in T : \E i \in S : f[i] = k
    <3> TAKE k \in T
    <3>1. k \in Nat /\ k - 1 \in Nat /\ (k - 1) + 1 = k
      BY <1>1, TailMessage
    <3>2. k - 1 \in S
      BY <1>1, <3>1
    <3> QED
      BY <3>1, <3>2
  <2> HIDE DEF f
  <2>4. f \in Injection(S, T)
    BY <2>1, <2>2 DEF Injection, IsInjective
  <2>5. f \in Surjection(S, T)
    BY <2>1, <2>3 DEF Surjection
  <2> QED
    BY <2>4, <2>5 DEF Bijection
<1>4. Cardinality(T) = Cardinality(S)
  BY <1>2, <1>3, FS_Bijection DEF ExistsBijection
<1>5. Cardinality(T) = IF 1 \in Decisions(s, t) THEN Cardinality(Decisions(s, t)) - 1
                       ELSE Cardinality(Decisions(s, t))
  BY CountFinite, FS_RemoveElement
<1>6. Cardinality(Decisions(s, t)) \in Nat
  BY CountFinite
<1> HIDE DEF S, T
<1> QED
  BY <1>1, <1>2, <1>4, <1>5, <1>6 DEF S

\* Only a decision adds one, and on what the engine had in hand.
LEMMA MadeStep ==
    ASSUME TypesInv, [PipelineNext]_<<vars, pipeline>>, NEW t \in Tx
    PROVE  /\ Made(t) \in Nat /\ Made(t)' \in Nat
           /\ \/ Made(t)' <= Made(t)
              \/ /\ Evaluating /\ Taken = t /\ engine' = "polling"
                 /\ Made(t)' = Made(t) + 1
<1>0. log \in Seq(Message) /\ buffer \in Seq(Message)
  BY DEF TypesInv, PipelineTypeOK
<1>1. log' \in Seq(Message) /\ buffer' \in Seq(Message)
  BY TypesStep DEF TypesInv, PipelineTypeOK
<1> DEFINE L == Cardinality(Decisions(log, t))
           B == Cardinality(Decisions(buffer, t))
           L2 == Cardinality(Decisions(log', t))
           B2 == Cardinality(Decisions(buffer', t))
<1>2. L \in Nat /\ B \in Nat
  BY <1>0, CountFinite
<1>3. L2 \in Nat /\ B2 \in Nat
  BY <1>1, CountFinite
<1> HIDE DEF L, B, L2, B2
<1>4. Made(t) = L + B /\ Made(t)' = L2 + B2
  BY DEF Made, L, B, L2, B2
<1>5. log' = log => L2 = L
  BY DEF L, L2
<1>6. buffer' = buffer => B2 = B
  BY DEF B, B2
<1>7. CASE log' = log /\ (buffer' = buffer \/ buffer' = <<>>)
  <2>1. buffer' = <<>> => B2 = 0
    BY FS_EmptySet DEF B2, Decisions
  <2> QED
    BY <1>2, <1>3, <1>4, <1>5, <1>6, <1>7, <2>1
<1>8. CASE buffer # <<>> /\ buffer' = Tail(buffer) /\ log' = log
  <2>1. B2 <= B
    BY <1>0, <1>2, <1>3, <1>8, CountTail DEF B, B2
  <2> QED
    BY <1>2, <1>3, <1>4, <1>5, <1>8, <2>1
<1>9. CASE buffer # <<>> /\ buffer' = Tail(buffer) /\ log' = Append(log, Head(buffer))
  <2> DEFINE one == IF Head(buffer).tx = t /\ Head(buffer).status # "PENDING" THEN 1 ELSE 0
  <2>1. Head(buffer) \in Message
    BY <1>0, <1>9, TailMessage
  <2>a. one \in {0, 1}
    OBVIOUS
  <2>2. B = B2 + one
    BY <1>0, <1>9, CountTail DEF B, B2
  <2>3. L2 = L + one
    BY <1>0, <1>9, <2>1, CountAppend DEF L, L2
  <2> HIDE DEF one
  <2> QED
    BY <1>2, <1>3, <1>4, <2>a, <2>2, <2>3
<1>10. ASSUME NEW u \in Tx, log' = Append(log, [tx |-> u, status |-> "PENDING"]), buffer' = buffer
       PROVE  Made(t)' <= Made(t)
  <2>1. [tx |-> u, status |-> "PENDING"] \in Message
    BY DEF Message
  <2>2. L2 = L
    BY <1>0, <1>2, <1>10, <2>1, CountAppend DEF L, L2
  <2> QED
    BY <1>2, <1>4, <1>6, <1>10, <2>2
<1>11. CASE Deliver \/ LoseDecision \/ CommitOffset \/ \E u \in Tx : Publish(u)
  <2>1. CASE UNCHANGED log /\ buffer # <<>> /\ buffer' = Tail(buffer)
    BY <1>8, <2>1
  <2>2. CASE buffer # <<>> /\ buffer' = Tail(buffer) /\ log' = Append(log, Head(buffer))
    BY <1>9, <2>2
  <2>3. CASE UNCHANGED buffer /\ \E u \in Tx : log' = Append(log, [tx |-> u, status |-> "PENDING"])
    BY <1>2, <1>3, <1>4, <1>10, <2>3
  <2>4. CASE UNCHANGED <<log, buffer>>
    BY <1>7, <2>4
  <2> QED
    BY <1>11, <2>1, <2>2, <2>3, <2>4, OtherShapes
<1>12. CASE Evaluate
  <2>1. Evaluating /\ log' = log
    BY <1>12, EvaluateShape
  <2>2. ASSUME NEW verdict \in {"APPROVED", "REJECTED"}, Decides(verdict)
        PROVE  \/ Made(t)' <= Made(t)
               \/ engine' = "polling" /\ Taken = t /\ Made(t)' = Made(t) + 1
    <3>1. position \in 1 .. Len(log)
      BY <2>1 DEF TypesInv, PlaceInv, PipelineTypeOK
    <3>2. Taken \in Tx
      BY <1>0, <3>1, MessageFields DEF Taken
    <3>3. [tx |-> Taken, status |-> verdict] \in Message
      BY <3>2 DEF Message
    <3>4. B2 = B + IF Taken = t THEN 1 ELSE 0
      BY <1>0, <2>2, <3>3, CountAppend DEF B, B2, Decides
    <3>5. engine' = "polling" /\ L2 = L
      BY <1>5, <2>1, <2>2 DEF Decides
    <3>6. CASE Taken = t
      BY <1>2, <1>4, <3>4, <3>5, <3>6
    <3>7. CASE Taken # t
      BY <1>2, <1>4, <3>4, <3>5, <3>7
    <3> QED
      BY <3>6, <3>7
  <2>3. CASE engine' \in {"risk", "rules"} /\ UNCHANGED <<buffer, lost, moved>>
    BY <1>7, <2>1, <2>3
  <2>4. CASE Dies
    BY <1>7, <2>1, <2>4 DEF Dies
  <2>5. Made(t) \in Nat /\ Made(t)' \in Nat
    BY <1>2, <1>3, <1>4
  <2> QED
    BY <1>12, <2>1, <2>2, <2>3, <2>4, <2>5, EvaluateShape
<1>13. CASE Administration \/ TakeMessage \/ Crash \/ Restart \/ UNCHANGED <<vars, pipeline>>
  <2>1. log' = log /\ (buffer' = buffer \/ buffer' = <<>>)
    BY <1>13 DEF Administration, TakeMessage, GoesOn, Crash, Dies, Restart, kafka, pipeline
  <2> QED
    BY <1>2, <1>3, <1>4, <1>7, <2>1
<1> QED
  BY <1>2, <1>3, <1>4, <1>11, <1>12, <1>13 DEF PipelineNext

\* The topic only grows.
LEMMA LogGrows ==
    ASSUME TypesInv, [PipelineNext]_<<vars, pipeline>>
    PROVE  /\ Len(log') \in Nat /\ Len(log) \in Nat /\ Len(log) <= Len(log')
           /\ \A i \in 1 .. Len(log) : log'[i] = log[i]
           /\ \A t \in Tx : Copies(t) \subseteq Copies(t)'
<1>0. log \in Seq(Message) /\ buffer \in Seq(Message)
  BY DEF TypesInv, PipelineTypeOK
<1>1. log' = log \/ \E m \in Message : log' = Append(log, m)
  <2>1. CASE Evaluate
    BY <2>1, EvaluateShape
  <2>2. CASE Deliver \/ LoseDecision \/ CommitOffset \/ \E u \in Tx : Publish(u)
    <3>1. \A u \in Tx : [tx |-> u, status |-> "PENDING"] \in Message
      BY DEF Message
    <3>2. buffer # <<>> => Head(buffer) \in Message
      BY <1>0, TailMessage
    <3> QED
      BY <2>2, <3>1, <3>2, OtherShapes
  <2>3. CASE Administration \/ TakeMessage \/ Crash \/ Restart \/ UNCHANGED <<vars, pipeline>>
    BY <2>3 DEF Administration, TakeMessage, Crash, Restart, kafka, pipeline
  <2> QED
    BY <2>1, <2>2, <2>3 DEF PipelineNext
<1>2. CASE log' = log
  BY <1>0, <1>2 DEF Copies
<1>3. ASSUME NEW m \in Message, log' = Append(log, m)
      PROVE  /\ Len(log') \in Nat /\ Len(log) \in Nat /\ Len(log) <= Len(log')
             /\ \A i \in 1 .. Len(log) : log'[i] = log[i]
             /\ \A t \in Tx : Copies(t) \subseteq Copies(t)'
  <2>1. /\ DOMAIN log' = 1 .. (Len(log) + 1) /\ DOMAIN log = 1 .. Len(log)
        /\ Len(log) \in Nat /\ Len(log') = Len(log) + 1
        /\ \A i \in 1 .. Len(log) : log'[i] = log[i]
    BY <1>0, <1>3, AppendMessage
  <2> QED
    BY <2>1 DEF Copies
<1> QED
  BY <1>1, <1>2, <1>3

\* What is decided has been published; nothing without metadata is passed alive.
LEMMA PoisonStep ==
    TypesInv /\ PoisonInv /\ [PipelineNext]_<<vars, pipeline>> => PoisonInv'
<1> SUFFICES ASSUME TypesInv, PoisonInv, [PipelineNext]_<<vars, pipeline>>
             PROVE  PoisonInv'
  OBVIOUS
<1>0. /\ log \in Seq(Message) /\ buffer \in Seq(Message)
      /\ position \in Nat /\ committed \in Nat /\ Len(log) \in Nat
      /\ position <= Len(log) /\ committed <= Len(log)
  BY DEF TypesInv, PipelineTypeOK
<1>1. log' \in Seq(Message) /\ buffer' \in Seq(Message)
  BY TypesStep DEF TypesInv, PipelineTypeOK
<1> DEFINE Poison(i) == log[i].status = "PENDING" /\ log[i].tx \in NoMetadata
<1>2. ASSUME NEW t \in Tx, Decisions(log, t)' \cup Decisions(buffer, t)' # {}
      PROVE  \/ Decisions(log, t) \cup Decisions(buffer, t) # {}
             \/ Evaluating /\ Taken = t
  <2>1. Made(t)' # 0
    BY <1>1, <1>2, CountFinite DEF Made
  <2>2. Made(t) # 0 \/ (Evaluating /\ Taken = t)
    BY <2>1, MadeStep
  <2>3. ASSUME Made(t) # 0 PROVE Decisions(log, t) \cup Decisions(buffer, t) # {}
    BY <1>0, <2>3, CountFinite DEF Made
  <2> QED
    BY <2>2, <2>3
<1>3. ASSUME Evaluating
      PROVE  /\ engine # "down" /\ position \in DOMAIN log
             /\ \A t \in Tx : Taken = t => position \in Copies(t)
  <2>1. position \in DOMAIN log /\ log[position].status = "PENDING" /\ log[position] \in Message
    BY <1>0, <1>3 DEF TypesInv, PlaceInv
  <2>2. log[position] = [tx |-> log[position].tx, status |-> log[position].status]
    BY <2>1, MessageFields
  <2> QED
    BY <1>3, <2>1, <2>2 DEF Evaluating, Copies, Taken
<1>4. ASSUME NEW t \in Tx, Decisions(log, t)' \cup Decisions(buffer, t)' # {}
      PROVE  Copies(t) # {}
  BY <1>2, <1>3, <1>4 DEF PoisonInv
<1>5. ASSUME NEW t \in Tx, Decisions(log, t)' \cup Decisions(buffer, t)' # {},
             NEW i \in DOMAIN log, Poison(i)
      PROVE  \E j \in Copies(t) : j < i
  BY <1>2, <1>3, <1>5 DEF PoisonInv, NothingBehindPoison
<1>6. /\ committed' = committed \/ (engine # "down" /\ committed' = position)
      /\ engine' # "down" => \/ engine # "down" /\ position' = position
                             \/ engine # "down" /\ position' = position + 1
                                /\ position + 1 \in DOMAIN log /\ ~ Poison(position + 1)
                             \/ position' = committed
  <2>1. CASE Administration \/ UNCHANGED <<vars, pipeline>>
    BY <2>1 DEF Administration, kafka, pipeline
  <2>2. CASE Deliver \/ LoseDecision \/ CommitOffset \/ \E u \in Tx : Publish(u)
    BY <2>2, OtherShapes
  <2>3. CASE TakeMessage
    <3>1. /\ committed' = committed /\ position' = position + 1 /\ engine = "polling"
          /\ position < Len(log) /\ (Poison(position + 1) => engine' = "down")
      BY <2>3 DEF TakeMessage, NextPosition, Dies
    <3> QED
      BY <1>0, <3>1
  <2>4. CASE Evaluate
    BY <2>4, EvaluateShape DEF Evaluating
  <2>5. CASE Crash \/ Restart
    BY <2>5 DEF Crash, Dies, Restart, RestartAt, kafka
  <2> QED
    BY <2>1, <2>2, <2>3, <2>4, <2>5 DEF PipelineNext
<1>7. ASSUME NEW i \in DOMAIN log, Poison(i)
      PROVE  committed' < i /\ (engine' # "down" => position' < i)
  <2>1. i \in Nat /\ committed < i /\ (engine # "down" => position < i)
    BY <1>0, <1>7 DEF PoisonInv, NothingBehindPoison
  <2> QED
    BY <1>0, <1>6, <1>7, <2>1
<1>8. /\ DOMAIN log = 1 .. Len(log) /\ DOMAIN log' = 1 .. Len(log')
      /\ Len(log) \in Nat /\ Len(log') \in Nat /\ Len(log) <= Len(log')
      /\ \A i \in 1 .. Len(log) : log'[i] = log[i]
      /\ \A t \in Tx : Copies(t) \subseteq Copies(t)'
  BY <1>0, <1>1, LogGrows
<1>9. \A t \in Tx : Copies(t) \subseteq 1 .. Len(log)
  BY <1>8 DEF Copies
<1>10. ASSUME NEW i \in DOMAIN log', log'[i].status = "PENDING", log'[i].tx \in NoMetadata
       PROVE  /\ committed' < i /\ (engine' # "down" => position' < i)
              /\ \A t \in Tx : Decisions(log, t)' \cup Decisions(buffer, t)' # {} =>
                     \E j \in Copies(t)' : j < i
  <2>1. CASE i \in DOMAIN log
    BY <1>5, <1>7, <1>8, <1>10, <2>1
  <2>2. CASE i \notin DOMAIN log
    <3>1. i \in Nat /\ Len(log) < i
      BY <1>8, <2>2
    <3>2. committed' <= Len(log) /\ (engine' # "down" => position' <= Len(log))
      BY <1>0, <1>6
    <3>3. ASSUME NEW t \in Tx, Decisions(log, t)' \cup Decisions(buffer, t)' # {}
          PROVE  \E j \in Copies(t)' : j < i
      BY <1>4, <1>8, <1>9, <3>1, <3>3
    <3>4. committed' \in Nat /\ position' \in Nat
      BY TypesStep DEF TypesInv, PipelineTypeOK
    <3> QED
      BY <1>8, <3>1, <3>2, <3>3, <3>4
  <2> QED
    BY <2>1, <2>2
<1>11. \A t \in Tx : Decisions(log, t)' \cup Decisions(buffer, t)' # {} => Copies(t)' # {}
  BY <1>4, <1>8
<1>12. NothingBehindPoison'
  BY <1>10 DEF NothingBehindPoison
<1> QED
  BY <1>10, <1>11, <1>12 DEF PoisonInv

LEMMA CopiesCount ==
    ASSUME NEW s \in Seq(Message), NEW t, NEW n
    PROVE  LET copies == {i \in DOMAIN s : s[i] = [tx |-> t, status |-> "PENDING"]}
               past == {i \in copies : i <= n}
           IN  /\ IsFiniteSet(copies) /\ Cardinality(copies) \in Nat
               /\ IsFiniteSet(past) /\ Cardinality(past) \in Nat
               /\ Cardinality(past) <= Cardinality(copies)
<1> DEFINE copies == {i \in DOMAIN s : s[i] = [tx |-> t, status |-> "PENDING"]}
           past == {i \in copies : i <= n}
<1>1. copies \in SUBSET (1 .. Len(s)) /\ Len(s) \in Int /\ past \in SUBSET copies
  OBVIOUS
<1> HIDE DEF copies, past
<1>2. IsFiniteSet(1 .. Len(s))
  BY <1>1, FS_Interval
<1>3. IsFiniteSet(copies)
  BY <1>1, <1>2, FS_Subset
<1>4. IsFiniteSet(past) /\ Cardinality(past) <= Cardinality(copies)
  BY <1>1, <1>3, FS_Subset
<1>5. Cardinality(copies) \in Nat /\ Cardinality(past) \in Nat
  BY <1>3, <1>4, FS_CardinalityType
<1> QED
  BY <1>3, <1>4, <1>5 DEF copies, past

LEMMA CountStep ==
    TypesInv /\ CountInv /\ [PipelineNext]_<<vars, pipeline>> => CountInv'
<1> SUFFICES ASSUME TypesInv, CountInv, [PipelineNext]_<<vars, pipeline>>, NEW t \in Tx
             PROVE  Made(t)' + InHand(t)' <= restarts' * Cardinality(Copies(t)') + Cardinality(Past(t)')
  BY DEF CountInv
<1>0. /\ log \in Seq(Message) /\ position \in Nat /\ Len(log) \in Nat /\ position <= Len(log)
      /\ restarts \in Nat
  BY PipelineAssumption DEF TypesInv, PipelineTypeOK
<1>1. TypesInv'
  BY TypesStep
<1>t. restarts' \in Nat
  BY <1>1, PipelineAssumption DEF TypesInv, PipelineTypeOK
<1> DEFINE m == Made(t)
           h == InHand(t)
           c == Cardinality(Copies(t))
           p == Cardinality(Past(t))
           m2 == Made(t)'
           h2 == InHand(t)'
           c2 == Cardinality(Copies(t)')
           p2 == Cardinality(Past(t)')
<1> SUFFICES m2 + h2 <= restarts' * c2 + p2
  OBVIOUS
<1>2. /\ m \in Nat /\ m2 \in Nat
      /\ \/ m2 <= m
         \/ Evaluating /\ Taken = t /\ engine' = "polling" /\ m2 = m + 1
  BY MadeStep
<1>3. h \in {0, 1} /\ h2 \in {0, 1}
  BY DEF InHand
<1>4. c \in Nat /\ p \in Nat /\ p <= c /\ IsFiniteSet(Past(t))
  BY <1>0, CopiesCount DEF Copies, Past
<1>5. c2 \in Nat /\ p2 \in Nat /\ p2 <= c2 /\ IsFiniteSet(Copies(t)') /\ IsFiniteSet(Past(t)')
  <2>1. log' \in Seq(Message)
    BY <1>1 DEF TypesInv, PipelineTypeOK
  <2> QED
    BY <2>1, CopiesCount DEF Copies, Past
<1>6. Copies(t) \subseteq Copies(t)' /\ c <= c2
  BY <1>5, LogGrows, FS_Subset
<1>7. m + h <= restarts * c + p
  BY DEF CountInv
<1>8. restarts * c \in Nat /\ restarts * c2 \in Nat /\ restarts * c <= restarts * c2
  <2>1. \A r, a, b \in Nat : a <= b => r * a \in Nat /\ r * b \in Nat /\ r * a <= r * b
    OBVIOUS
  <2> QED
    BY <1>0, <1>4, <1>5, <1>6, <2>1
<1> DEFINE before == restarts * c
           now == restarts * c2
<1> HIDE DEF before, now
<1>a. before \in Nat /\ now \in Nat /\ before <= now /\ m + h <= before + p
  BY <1>7, <1>8 DEF before, now
<1>b. ASSUME restarts' = restarts, m2 + h2 <= now + p2
      PROVE  m2 + h2 <= restarts' * c2 + p2
  BY <1>b DEF now
<1>9. position' = position => p <= p2
  BY <1>5, <1>6, FS_Subset DEF Past
<1> HIDE DEF m, h, c, p, m2, h2, c2, p2
<1>10. ASSUME m2 + h2 <= m + h, position' = position, restarts' = restarts
       PROVE  m2 + h2 <= restarts' * c2 + p2
  <2>1. m2 + h2 <= now + p2
    BY <1>2, <1>3, <1>4, <1>5, <1>a, <1>9, <1>10
  <2> QED
    BY <1>b, <1>10, <2>1
<1>11. CASE Administration \/ Deliver \/ LoseDecision \/ CommitOffset \/ (\E u \in Tx : Publish(u))
            \/ UNCHANGED <<vars, pipeline>>
  <2>1. position' = position /\ restarts' = restarts /\ engine' = engine
    <3>1. CASE Deliver \/ LoseDecision \/ CommitOffset \/ \E u \in Tx : Publish(u)
      BY <3>1, OtherShapes
    <3>2. CASE Administration \/ UNCHANGED <<vars, pipeline>>
      BY <3>2 DEF Administration, pipeline
    <3> QED
      BY <1>11, <3>1, <3>2
  <2>2. Evaluating => Taken' = Taken
    BY <2>1, LogGrows DEF TypesInv, PlaceInv, PipelineTypeOK, Taken
  <2>3. h2 = h
    BY <2>1, <2>2 DEF h, h2, InHand, Evaluating
  <2>4. m2 <= m
    BY <1>2, <2>1 DEF Evaluating
  <2> QED
    BY <1>2, <1>3, <1>10, <2>1, <2>3, <2>4
<1>12. CASE Evaluate
  <2>1. Evaluating /\ UNCHANGED <<log, position, restarts>>
    BY <1>12, EvaluateShape
  <2>2. m2 + h2 <= m + h
    <3>1. h2 = h \/ h2 = 0
      BY <2>1 DEF h, h2, InHand, Taken
    <3>2. engine' = "polling" => h2 = 0
      BY DEF h2, InHand, Evaluating
    <3>3. Evaluating /\ Taken = t => h = 1
      BY DEF h, InHand
    <3> QED
      BY <1>2, <1>3, <3>1, <3>2, <3>3
  <2> QED
    BY <1>10, <2>1, <2>2
<1>13. CASE Crash
  <2>1. position' = position /\ restarts' = restarts /\ h2 = 0 /\ engine' # "polling"
    BY <1>13 DEF Crash, Dies, h2, InHand, Evaluating
  <2> QED
    BY <1>2, <1>3, <1>10, <2>1
<1>14. CASE TakeMessage
  <2>1. /\ position' = position + 1 /\ log' = log /\ restarts' = restarts
        /\ engine = "polling" /\ position + 1 \in 1 .. Len(log)
        /\ Evaluating' => log[position + 1].status = "PENDING"
    BY <1>0, <1>14 DEF TakeMessage, NextPosition, Dies, GoesOn, Evaluating
  <2>2. m2 <= m /\ h = 0
    BY <1>2, <2>1 DEF Evaluating, h, InHand
  <2>3. CASE h2 = 0
    <3>1. p <= p2
      <4>1. Past(t) \subseteq Past(t)'
        BY <1>0, <2>1 DEF Past, Copies
      <4> QED
        BY <1>5, <4>1, FS_Subset DEF p, p2
    <3>2. m2 + h2 <= now + p2
      BY <1>2, <1>4, <1>5, <1>a, <2>2, <2>3, <3>1
    <3> QED
      BY <1>b, <2>1, <3>2
  <2>4. CASE h2 = 1
    <3>1. log[position + 1].status = "PENDING" /\ log[position + 1].tx = t
      BY <2>1, <2>4 DEF h2, InHand, Taken
    <3>2. log[position + 1] = [tx |-> t, status |-> "PENDING"]
      BY <1>0, <2>1, <3>1, MessageFields
    <3>3. Past(t)' = Past(t) \cup {position + 1}
      BY <1>0, <2>1, <3>2 DEF Past, Copies
    <3>4. position + 1 \notin Past(t)
      BY <1>0 DEF Past
    <3>5. p2 = p + 1
      BY <1>4, <3>3, <3>4, FS_AddElement DEF p, p2
    <3>6. m2 + h2 <= now + p2
      BY <1>2, <1>4, <1>5, <1>a, <2>2, <2>4, <3>5
    <3> QED
      BY <1>b, <2>1, <3>6
  <2> QED
    BY <1>3, <2>3, <2>4
<1>15. CASE Restart
  <2>1. restarts' = restarts + 1 /\ log' = log /\ engine' = "polling" /\ engine \in {"down", "polling"}
    BY <1>15 DEF Restart, kafka
  <2>2. h2 = 0 /\ m2 <= m
    BY <1>2, <2>1 DEF h2, InHand, Evaluating
  <2>3. c2 = c
    BY <2>1 DEF c, c2, Copies
  <2>4. restarts' * c2 = before + c
    <3>1. \A r, a \in Nat : (r + 1) * a = r * a + a
      OBVIOUS
    <3>2. (restarts + 1) * c = restarts * c + c
      BY <1>0, <1>4, <3>1
    <3> QED
      BY <2>1, <2>3, <3>2 DEF before
  <2>5. m2 + h2 <= before + c + p2
    BY <1>2, <1>3, <1>4, <1>5, <1>a, <2>2
  <2> QED
    BY <2>4, <2>5
<1> QED
  BY <1>11, <1>12, <1>13, <1>14, <1>15 DEF PipelineNext

\* Whenever the engine dies and however often events are copied: no committed
\* event is without a decision that was made, no copy is decided twice in a
\* life, and nothing is decided behind an event without metadata unless
\* a copy of it came before.
THEOREM DecisionsAccountedFor == PipelineSpec => []DecisionsAccounted
<1>1. PipelineInit => ProgressInv /\ CountInv /\ PoisonInv
  <2> SUFFICES ASSUME PipelineInit PROVE ProgressInv /\ CountInv /\ PoisonInv
    OBVIOUS
  <2>1. log = <<>> /\ buffer = <<>> /\ position = 0 /\ committed = 0 /\ engine = "polling"
        /\ restarts = 0
    BY DEF PipelineInit
  <2>2. ProgressInv
    BY <2>1 DEF ProgressInv
  <2>3. \A t \in Tx : Decisions(log, t) = {} /\ Decisions(buffer, t) = {} /\ Copies(t) = {}
    BY <2>1 DEF Decisions, Copies
  <2>4. CountInv
    <3>1. Cardinality({}) = 0
      BY FS_EmptySet
    <3>2. ASSUME NEW t \in Tx
          PROVE  Made(t) = 0 /\ InHand(t) = 0 /\ Cardinality(Copies(t)) = 0 /\ Cardinality(Past(t)) = 0
      <4>1. Past(t) = {}
        BY <2>3 DEF Past
      <4>2. InHand(t) = 0
        BY <2>1 DEF InHand, Evaluating
      <4>3. Decisions(log, t) = {} /\ Decisions(buffer, t) = {} /\ Copies(t) = {}
        BY <2>3
      <4>4. Made(t) = 0
        BY <3>1, <4>3 DEF Made
      <4> QED
        BY <3>1, <4>1, <4>2, <4>3, <4>4
    <3> QED
      BY <2>1, <3>2 DEF CountInv
  <2>5. PoisonInv
    BY <2>1, <2>3 DEF PoisonInv, NothingBehindPoison
  <2> QED
    BY <2>2, <2>4, <2>5
<1>2. TypesInv /\ ProgressInv /\ CountInv /\ PoisonInv => DecisionsAccounted
  <2> SUFFICES ASSUME TypesInv, ProgressInv, CountInv, PoisonInv PROVE DecisionsAccounted
    OBVIOUS
  <2>1. AtLeastOnce
    <3> SUFFICES ASSUME NEW i \in 1 .. committed, log[i].status = "PENDING"
                 PROVE  \/ log[i].tx \in lost
                        \/ Decisions(log, log[i].tx) \cup Decisions(buffer, log[i].tx) # {}
      BY DEF AtLeastOnce
    <3> QED
      BY DEF ProgressInv, Settled
  <2>2. OncePerCopyAndLife
    <3> SUFFICES ASSUME NEW t \in Tx
                 PROVE  Made(t) <= Cardinality(Copies(t)) * (1 + restarts)
      BY DEF OncePerCopyAndLife, Made
    <3>1. Made(t) \in Nat /\ InHand(t) \in Nat /\ restarts \in Nat
      BY MadeStep, CountFinite, PipelineAssumption
         DEF Made, InHand, TypesInv, PipelineTypeOK
    <3>2. \A r, a \in Nat : a * (1 + r) = r * a + a /\ r * a \in Nat
      OBVIOUS
    <3> DEFINE c == Cardinality(Copies(t))
               p == Cardinality(Past(t))
               n == Made(t)
               h == InHand(t)
    <3>3. c \in Nat /\ p \in Nat /\ p <= c
      <4>1. log \in Seq(Message)
        BY DEF TypesInv, PipelineTypeOK
      <4> QED
        BY <4>1, CopiesCount DEF Copies, Past
    <3>4. n + h <= restarts * c + p
      BY DEF CountInv
    <3>5. n \in Nat /\ h \in Nat
      BY <3>1
    <3> HIDE DEF c, p, n, h
    <3>6. n <= c * (1 + restarts)
      <4> DEFINE w == restarts * c
      <4>1. w \in Nat /\ c * (1 + restarts) = w + c
        BY <3>1, <3>2, <3>3
      <4>2. n + h <= w + p
        BY <3>4
      <4> HIDE DEF w
      <4>3. n <= w + c
        BY <3>3, <3>5, <4>1, <4>2
      <4> QED
        BY <4>1, <4>3
    <3> QED
      BY <3>6 DEF n, c
  <2> QED
    BY <2>1, <2>2 DEF DecisionsAccounted, PoisonInv
<1> QED
  BY <1>1, <1>2, InitTypes, TypesStep, ProgressStep, CountStep, PoisonStep, PTL DEF PipelineSpec
-----------------------------------------------------------------------------
(* Policies, with the engine around them.                                  *)

\* Whatever the engine and the topic do, policies and approvals move as
\* PolicyApprovals says: the pipeline only reads them.
THEOREM ApprovalsUndisturbed == PipelineSpec => Spec
<1>1. PipelineInit => Init
  BY DEF PipelineInit
<1>2. [PipelineNext]_<<vars, pipeline>> => [Next]_vars
  BY DEF PipelineNext, Administration, Publish, TakeMessage, Evaluate, FetchPolicy, AskRisk,
         FetchRules, Deliver, LoseDecision, CommitOffset, Crash, Restart
<1> QED
  BY <1>1, <1>2, PTL DEF PipelineSpec, Spec

\* So what is proved of approvals holds beside a running engine.
THEOREM ApprovalsStillHold ==
    PipelineSpec => /\ [](OneDecider /\ InForceApproved /\ NoVersionWithoutApproval)
                    /\ DecidedOnce
BY ApprovalsUndisturbed, OneDeciderOnly, AttributesApproved, VersionsEarned, VerdictsFinal, PTL
=============================================================================
