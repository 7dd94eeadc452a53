------------------------------ MODULE AgentRun ------------------------------
(***************************************************************************)
(* One run of the research agent: the planner turns what the LLM answered  *)
(* into a plan, the executor runs its steps in waves with retries and      *)
(* timeouts, the orchestrator composes the answer and its citations.       *)
(*                                                                         *)
(* An item of the LLM's answer is seen by what the planner checks of it:   *)
(* its id, whether its tool and args pass, and the ids it depends on.      *)
(***************************************************************************)
EXTENDS Integers, Sequences, FiniteSets, SequencesExt, Selection

CONSTANTS Ids,        \* step ids the LLM may use
          NoId,       \* a missing, empty or ill-typed id
          Fallback,   \* the one step of the fallback plan
          MaxItems,   \* bound: items in the LLM's answer
          MaxDeps,    \* bound: ids an item depends on
          MaxSteps,   \* settings.agent_max_steps
          Retries,    \* ToolSpec.retries
          HasTimeout, \* whether ToolSpec.timeout_seconds is positive
          Unfinished, \* bound: the ids whose items name a placeholder tool
          Hits        \* lists of chunks that retrieval may give a step

ASSUME IdsAssumption ==
  NoId \notin Ids /\ Fallback \notin Ids /\ IsFiniteSet(Ids) /\ Unfinished \subseteq Ids
ASSUME BoundsAssumption ==
  /\ MaxItems \in Nat /\ MaxDeps \in Nat
  /\ MaxSteps \in Nat \ {0} /\ Retries \in Nat
  /\ HasTimeout \in BOOLEAN
\* A retrieval gives a list of different chunks, best first.
ASSUME HitsAssumption == \A list \in Hits : list \in Seq(ToSet(list)) /\ IsInjective(list)

VARIABLES phase,      \* planning, indexing, scheduling, running, composing, or
                      \* how it ended
          plan,       \* the steps, in declaration order
          remaining,  \* ids of steps without a result
          wave,       \* the ready steps of this wave still to run
          attempt,    \* attempts made at the step in hand, 0 if not started
          results,    \* status of each step's ToolResult
          found,      \* chunks cited in each step's ToolResult, best first
          answer,     \* what the run answers
          late,       \* does an abandoned tool thread still run
          trace       \* the decision trace: <<event, step id>>

outcome == <<found, answer>>
vars == <<phase, plan, remaining, wave, attempt, results, outcome, late, trace>>

-----------------------------------------------------------------------------
(* The planner: _parse_steps and the fallback *)

\* Of an item that the planner drops only the id matters.
Item ==
  [id : Ids, valid : {TRUE}, deps : {D \in SUBSET Ids : Cardinality(D) <= MaxDeps}]
    \cup [id : Ids \cup {NoId}, valid : {FALSE}, deps : {{}}]

Answers == UNION {[1..n -> Item] : n \in 0..MaxItems}

KnownIds(raw) == {raw[k].id : k \in DOMAIN raw} \ {NoId}

\* Items past max_steps are cut, invalid ones dropped; dependencies are kept
\* if any item of the whole answer has that id.
ParseSteps(raw) ==
  LET cut  == SubSeq(raw, 1, IF Len(raw) < MaxSteps THEN Len(raw) ELSE MaxSteps)
      kept == Selected(cut, {k \in DOMAIN cut : cut[k].valid})
  IN  [k \in 1..Len(kept) |->
        [id |-> kept[k].id,
         deps |-> (kept[k].deps \cap KnownIds(raw)) \ {kept[k].id},
         visible |-> TRUE]]

\* An answer without items is a plan without steps; one that has items but
\* none that is usable is no plan.
LLMPlans == {ParseSteps(raw) : raw \in {r \in Answers : r # <<>> => ParseSteps(r) # <<>>}}

\* rag_tool may be missing from the registry.
FallbackPlan(visible) == <<[id |-> Fallback, deps |-> {}, visible |-> visible]>>

-----------------------------------------------------------------------------
(* Tools and their results *)

ToolStatus == {"ok", "error"}

\* The registry: retrieval, and the vision and nlp tools to come.
Tool(id) == IF id \in Unfinished THEN "placeholder" ELSE "rag_tool"

\* Retrieval cites what it finds; an error it raises becomes an error result,
\* and so does a timeout, which leaves the tool's thread running.
RagToolResults ==
  [status : {"ok"}, hits : Hits, late : {FALSE}]
    \cup [status : {"error"}, hits : {<<>>}, late : {FALSE, HasTimeout}]

\* "not implemented in this phase"
PlaceholderResults == [status : {"error"}, hits : {<<>>}, late : {FALSE}]

ToolResults(id) == IF Tool(id) = "rag_tool" THEN RagToolResults ELSE PlaceholderResults

Record(event, id) == trace' = Append(trace, <<event, id>>)

-----------------------------------------------------------------------------

Chunks == UNION {ToSet(list) : list \in Hits}

NoAnswer == [says |-> NoId, note |-> FALSE, citations |-> <<>>]

PlanIds == {plan[k].id : k \in DOMAIN plan}
StepOf(id) == CHOOSE s \in {plan[k] : k \in DOMAIN plan} : s.id = id
Deps(id) == StepOf(id).deps

Init ==
  /\ phase = "planning"
  /\ plan = <<>>
  /\ remaining = {}
  /\ wave = <<>>
  /\ attempt = 0
  /\ results = [id \in Ids \cup {Fallback} |-> "none"]
  /\ found = [id \in Ids \cup {Fallback} |-> <<>>]
  /\ answer = NoAnswer
  /\ late = FALSE
  /\ trace = <<>>

\* A query of white space is rejected before anything is planned.
RejectBlank ==
  /\ phase = "planning"
  /\ phase' = "rejected"
  /\ UNCHANGED <<plan, remaining, wave, attempt, results, outcome, late, trace>>

\* No provider, a provider error, no JSON, or no usable step.
PlanFallback ==
  /\ phase = "planning"
  /\ phase' = "indexing"
  /\ \E visible \in BOOLEAN : plan' = FallbackPlan(visible)
  /\ UNCHANGED <<remaining, wave, attempt, results, outcome, late, trace>>

PlanFromLLM ==
  /\ phase = "planning"
  /\ phase' = "indexing"
  /\ plan' \in LLMPlans
  /\ UNCHANGED <<remaining, wave, attempt, results, outcome, late, trace>>

Duplicated == \E j, k \in DOMAIN plan : j # k /\ plan[j].id = plan[k].id

\* _index_steps raises on a duplicate id.
IndexSteps ==
  /\ phase = "indexing"
  /\ \/ /\ ~Duplicated
        /\ phase' = "scheduling"
        /\ remaining' = PlanIds
     \/ /\ Duplicated
        /\ phase' = "failed"
        /\ UNCHANGED remaining
  /\ UNCHANGED <<plan, wave, attempt, results, outcome, late, trace>>

-----------------------------------------------------------------------------
(* The executor *)

\* plan_order: the ids in declaration order.
PlanOrder == [k \in DOMAIN plan |-> plan[k].id]

\* Mutant: dependencies are not looked at.
ReadyAtOnce == Selected(PlanOrder, {k \in DOMAIN plan : plan[k].id \in remaining})

\* Mutant: a dependency must have run, not merely not remain.
ReadyWhenRun ==
  Selected(PlanOrder, {k \in DOMAIN plan : /\ plan[k].id \in remaining
                                           /\ \A d \in plan[k].deps : results[d] # "none"})

\* Steps of the plan none of whose dependencies remain.
Ready ==
  Selected(PlanOrder, {k \in DOMAIN plan : /\ plan[k].id \in remaining
                                           /\ plan[k].deps \cap remaining = {}})

Schedule ==
  /\ phase = "scheduling"
  /\ \/ /\ remaining = {}
        /\ phase' = "composing"
        /\ UNCHANGED wave
     \/ /\ Ready # <<>>
        /\ phase' = "running"
        /\ wave' = Ready
     \/ /\ remaining # {} /\ Ready = <<>>
        /\ phase' = "failed"
        /\ UNCHANGED wave
  /\ UNCHANGED <<plan, remaining, attempt, results, outcome, late, trace>>

\* The step in hand has its result; the wave goes on or a new one is made.
Conclude(status, hits) ==
  /\ results' = [results EXCEPT ![Head(wave)] = status]
  /\ found' = [found EXCEPT ![Head(wave)] = hits]
  /\ remaining' = remaining \ {Head(wave)}
  /\ wave' = Tail(wave)
  /\ phase' = IF Tail(wave) = <<>> THEN "scheduling" ELSE "running"
  /\ attempt' = 0
  /\ UNCHANGED answer

SkipStep ==
  /\ phase = "running"
  /\ ~StepOf(Head(wave)).visible
  /\ Conclude("error", <<>>)
  /\ Record("skipped", Head(wave))
  /\ UNCHANGED <<plan, late>>

StartStep ==
  /\ phase = "running"
  /\ attempt = 0
  /\ StepOf(Head(wave)).visible
  /\ attempt' = 1
  /\ Record("started", Head(wave))
  /\ UNCHANGED <<phase, plan, remaining, wave, results, outcome, late>>

\* Mutant: one attempt too many (retries + 3 in the range).
AttemptOnceMore ==
  /\ phase = "running"
  /\ attempt > 0
  /\ UNCHANGED <<plan, late>>
  /\ \/ /\ Conclude("ok", <<>>)
        /\ Record("finished", Head(wave))
     \/ /\ attempt <= Retries + 1
        /\ attempt' = attempt + 1
        /\ Record("retrying", Head(wave))
        /\ UNCHANGED <<phase, remaining, wave, results, outcome>>

\* Mutant: a failing attempt is repeated without counting it.
AttemptForever ==
  /\ phase = "running"
  /\ attempt > 0
  /\ \/ /\ Conclude("ok", <<>>)
        /\ Record("finished", Head(wave))
        /\ UNCHANGED late
     \/ /\ late' = ~late
        /\ UNCHANGED <<phase, remaining, wave, attempt, results, outcome, trace>>
  /\ UNCHANGED plan

\* The executor keeps the first good result, or the last one.
Attempt ==
  /\ phase = "running"
  /\ attempt > 0
  /\ \E result \in ToolResults(Head(wave)) :
       /\ late' = (late \/ result.late)
       /\ \/ /\ result.status = "ok" \/ attempt > Retries
             /\ Conclude(result.status, result.hits)
             /\ Record("finished", Head(wave))
          \/ /\ result.status # "ok" /\ attempt <= Retries
             /\ attempt' = attempt + 1
             /\ Record("retrying", Head(wave))
             /\ UNCHANGED <<phase, remaining, wave, results, outcome>>
  /\ UNCHANGED plan

\* Mutant: the abandoned thread files its answer for the first step.
LateAnswerFiled ==
  /\ late
  /\ late' = FALSE
  /\ \E id \in PlanIds : results' = [results EXCEPT ![id] = "ok"]
  /\ UNCHANGED <<outcome, phase, plan, remaining, wave, attempt, trace>>

\* The last abandoned thread ends; nobody waits for its answer.
LateAnswer ==
  /\ late
  /\ late' = FALSE
  /\ UNCHANGED <<phase, plan, remaining, wave, attempt, results, outcome, trace>>

-----------------------------------------------------------------------------
(* The orchestrator: _compose_answer and _collect_citations *)

\* CitationGenerator numbers the hits of one retrieval.
Numbered(hits) == [k \in DOMAIN hits |-> [chunk |-> hits[k], index |-> k]]

\* What a retrieval that succeeded contributes; a citation keeps its number.
CitationsOf(id) ==
  IF results[id] = "ok" /\ Tool(id) = "rag_tool" THEN Numbered(found[id]) ELSE <<>>

Cites(citations, chunk) == \E k \in DOMAIN citations : citations[k].chunk = chunk

\* Mutant: citations that differ in their number are both kept.
ExtendedByNumber(before, new) ==
  before \o Selected(new, {j \in DOMAIN new : ~Contains(before, new[j])})

\* Of the citations of one more step, those of chunks not cited before.
Extended(before, new) ==
  before \o Selected(new, {j \in DOMAIN new : ~Cites(before, new[j].chunk)})

\* The citations of the first k steps of the plan, for every k.
Merged ==
  LET merged[k \in 0..Len(plan)] ==
        IF k = 0 THEN <<>> ELSE Extended(merged[k - 1], CitationsOf(plan[k].id))
  IN  merged

\* The last step of the plan speaks, whatever came of it.
Compose ==
  /\ phase = "composing"
  /\ phase' = "done"
  /\ answer' = [says |-> IF plan = <<>> THEN NoId ELSE Last(plan).id,
                note |-> \E id \in PlanIds : results[id] = "error",
                citations |-> Merged[Len(plan)]]
  /\ UNCHANGED <<plan, remaining, wave, attempt, results, found, late, trace>>

-----------------------------------------------------------------------------

RunStep == RejectBlank \/ PlanFallback \/ PlanFromLLM \/ IndexSteps \/ Schedule
           \/ SkipStep \/ StartStep \/ Attempt \/ Compose

Next == RunStep \/ LateAnswer

\* The request thread runs on; a provider or a tool without a timeout is
\* taken to return in the end.
Spec == Init /\ [][Next]_vars /\ WF_vars(RunStep)

-----------------------------------------------------------------------------
(* Safety *)

Ended == phase \in {"done", "failed", "rejected"}

StepIds == Ids \cup {Fallback}

TypeOK ==
  /\ phase \in {"planning", "indexing", "scheduling", "running", "composing"} \/ Ended
  /\ plan \in Seq([id : StepIds, deps : SUBSET Ids, visible : BOOLEAN])
  /\ remaining \subseteq StepIds
  /\ wave \in Seq(StepIds)
  /\ attempt \in 0..(Retries + 1)
  /\ results \in [StepIds -> ToolStatus \cup {"none"}]
  /\ found \in [StepIds -> Hits \cup {<<>>}]
  /\ answer.says \in StepIds \cup {NoId} /\ answer.note \in BOOLEAN
  /\ answer.citations \in Seq([chunk : Chunks, index : Nat])
  /\ late \in BOOLEAN
  /\ trace \in Seq({"started", "retrying", "finished", "skipped"} \X StepIds)

\* Where the trace has an event of a step.
Events(event, id) == {k \in DOMAIN trace : trace[k] = <<event, id>>}

Settles(event, id) == event \in {<<"finished", id>>, <<"skipped", id>>}

\* "Dependent steps wait": a step is started only after every step of the
\* plan that it depends on has its outcome in the trace, across waves.
DependenciesFirst ==
  \A k \in DOMAIN trace : trace[k][1] = "started" =>
    \A d \in Deps(trace[k][2]) \cap PlanIds : \E j \in 1..(k - 1) : Settles(trace[j], d)

\* "Every attempt is recorded": the events of a step are contiguous, one
\* start, at most Retries retries, one finish, and a step has a result exactly
\* when its finish (or its being skipped) is in the trace.
TraceTellsTheRun ==
  /\ \A id \in StepIds :
       /\ Cardinality(Events("retrying", id)) <= Retries
       /\ Cardinality(Events("finished", id) \cup Events("skipped", id))
            = (IF results[id] = "none" THEN 0 ELSE 1)
  /\ \A k \in DOMAIN trace : trace[k][1] \in {"retrying", "finished"} =>
       k > 1 /\ trace[k - 1] \in {<<"started", trace[k][2]>>, <<"retrying", trace[k][2]>>}

Circular == \E S \in (SUBSET PlanIds) \ {{}} : \A id \in S : Deps(id) \cap S # {}

\* A run fails exactly when the plan repeats an id or its dependencies go
\* round in a circle; otherwise it ends with a result for every step.
EndsAsThePlanAllows ==
  /\ phase = "failed" => Duplicated \/ Circular
  /\ phase = "done" => ~Duplicated /\ ~Circular /\ \A id \in PlanIds : results[id] # "none"

\* A step's result is never changed, by a late answer of a timed-out attempt
\* or by anything else, and a result is never given to a step not in the plan.
ResultsAreFinal ==
  [][\A id \in StepIds :
       /\ results[id] # "none" => results'[id] = results[id] /\ found'[id] = found[id]
       /\ id \notin PlanIds => results'[id] = "none"]_vars

\* The citations of a run are those of its successful steps, each chunk once,
\* as the first step of the plan that found it cites it and in that order;
\* failed, skipped and timed-out steps are cited for nothing.
CitationsAreMerged ==
  phase = "done" =>
    LET cited == answer.citations
        finders(c) == {k \in DOMAIN plan : Contains(found[plan[k].id], c)}
        first(c) == CHOOSE k \in finders(c) : \A j \in finders(c) : k <= j
    IN
    /\ {cited[k].chunk : k \in DOMAIN cited} = {c \in Chunks : finders(c) # {}}
    /\ \A k \in DOMAIN cited :
         /\ results[plan[first(cited[k].chunk)].id] = "ok"
         /\ cited[k].index \in DOMAIN found[plan[first(cited[k].chunk)].id]
         /\ found[plan[first(cited[k].chunk)].id][cited[k].index] = cited[k].chunk
    /\ \A j, k \in DOMAIN cited : j < k =>
         \/ first(cited[j].chunk) < first(cited[k].chunk)
         \/ /\ first(cited[j].chunk) = first(cited[k].chunk)
            /\ cited[j].index < cited[k].index

\* Every run ends, whatever times out.
RunEnds == <>Ended

\* "The agent always has a path to an answer": no run fails.
AlwaysAnswers == phase # "failed"
=============================================================================
