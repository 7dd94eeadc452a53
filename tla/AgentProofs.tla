----------------------------- MODULE AgentProofs -----------------------------
(***************************************************************************)
(* Theorems about AgentRun: types, the results and the order of the steps, *)
(* the trace, how a run ends and what it cites, for every set of ids,      *)
(* every plan and any number of retries.                                   *)
(***************************************************************************)
EXTENDS AgentRun, SelectionProofs, SequenceTheorems, FiniteSetTheorems, TLAPS

StepType == [id : StepIds, deps : SUBSET Ids, visible : BOOLEAN]

LEMMA PlanSteps ==
  ASSUME TypeOK
  PROVE  /\ plan \in Seq(StepType) /\ Len(plan) \in Nat /\ DOMAIN plan = 1..Len(plan)
         /\ \A k \in DOMAIN plan : plan[k] \in StepType /\ plan[k].id \in StepIds
         /\ PlanIds \subseteq StepIds
<1>1. plan \in Seq(StepType)
  BY DEF TypeOK, StepType
<1>2. Len(plan) \in Nat /\ DOMAIN plan = 1..Len(plan) /\ \A k \in 1..Len(plan) : plan[k] \in StepType
  BY <1>1
<1>3. \A s \in StepType : s.id \in StepIds
  BY DEF StepType
<1>4. QED
  BY <1>1, <1>2, <1>3 DEF PlanIds

\* What the planner makes of the LLM's answer is a plan.
LEMMA ParsedIsPlan ==
  ASSUME NEW raw \in Answers
  PROVE  ParseSteps(raw) \in Seq(StepType)
<1> DEFINE cut  == SubSeq(raw, 1, IF Len(raw) < MaxSteps THEN Len(raw) ELSE MaxSteps)
           kept == Selected(cut, {k \in DOMAIN cut : cut[k].valid})
<1>1. raw \in Seq(Item)
  BY BoundsAssumption DEF Answers
<1>2. cut \in Seq(Item)
  BY <1>1, BoundsAssumption
<1>3. kept \in Seq(Item)
  <2> HIDE DEF cut
  <2> QED BY <1>2, SelectedPicks
<1>4. \A k \in DOMAIN kept : kept[k] \in Item /\ kept[k].valid
  <2> DEFINE P == {k \in DOMAIN cut : cut[k].valid}
  <2>1. {kept[j] : j \in DOMAIN kept} = {cut[k] : k \in DOMAIN cut \cap P}
    <3> HIDE DEF cut, P
    <3>1. {Selected(cut, P)[j] : j \in DOMAIN Selected(cut, P)} = {cut[k] : k \in DOMAIN cut \cap P}
      BY <1>2, SelectedElements
    <3>2. QED
      BY <3>1 DEF P
  <2> HIDE DEF cut, kept
  <2>2. QED
    BY <2>1, <1>3
<1> HIDE DEF kept
<1>5. \A k \in 1..Len(kept) :
        [id |-> kept[k].id,
         deps |-> (kept[k].deps \cap KnownIds(raw)) \ {kept[k].id},
         visible |-> TRUE] \in StepType
  <2>1. \A k \in 1..Len(kept) : kept[k] \in Item /\ kept[k].valid
    BY <1>3, <1>4
  <2>2. \A item \in Item : item.valid => item.id \in Ids /\ item.deps \subseteq Ids
    BY DEF Item
  <2>3. QED
    BY <2>1, <2>2 DEF StepType, StepIds
<1>6. Len(kept) \in Nat
  BY <1>3
<1> DEFINE steps == [k \in 1..Len(kept) |->
                      [id |-> kept[k].id,
                       deps |-> (kept[k].deps \cap KnownIds(raw)) \ {kept[k].id},
                       visible |-> TRUE]]
<1>7. steps \in Seq(StepType)
  BY <1>5, <1>6
<1>8. ParseSteps(raw) = steps
  BY DEF ParseSteps, kept, cut
<1>9. QED
  BY <1>7, <1>8

-----------------------------------------------------------------------------
(* Citations *)

CitationType == [chunk : Chunks, index : Nat \ {0}]

\* What a step cites is numbered from one, in the order of its result.
LEMMA CitationsOfStep ==
  ASSUME TypeOK, NEW id \in StepIds
  PROVE  /\ CitationsOf(id) \in Seq(CitationType)
         /\ \A k \in DOMAIN CitationsOf(id) :
              /\ k \in DOMAIN found[id]
              /\ CitationsOf(id)[k] = [chunk |-> found[id][k], index |-> k]
         /\ results[id] = "ok" /\ Tool(id) = "rag_tool" =>
              DOMAIN CitationsOf(id) = DOMAIN found[id]
<1> DEFINE hits == found[id]
<1>1. hits \in Seq(Chunks)
  <2>1. hits \in Hits \cup {<<>>}
    BY DEF TypeOK
  <2>2. ASSUME hits \in Hits
        PROVE  hits \in Seq(Chunks)
    <3>1. hits \in Seq(ToSet(hits)) /\ ToSet(hits) \subseteq Chunks
      BY <2>2, HitsAssumption DEF Chunks
    <3>2. QED
      BY <3>1
  <2>3. <<>> \in Seq(Chunks)
    OBVIOUS
  <2> HIDE DEF hits
  <2>4. QED
    BY <2>1, <2>2, <2>3
<1> HIDE DEF hits
<1>2. /\ Numbered(hits) \in Seq(CitationType)
      /\ DOMAIN Numbered(hits) = DOMAIN hits
      /\ \A k \in DOMAIN hits : Numbered(hits)[k] = [chunk |-> hits[k], index |-> k]
  <2>1. \A k \in 1..Len(hits) : [chunk |-> hits[k], index |-> k] \in CitationType
    BY <1>1 DEF CitationType
  <2>2. DOMAIN hits = 1..Len(hits) /\ Len(hits) \in Nat
    BY <1>1
  <2>3. QED
    BY <2>1, <2>2 DEF Numbered
<1>3. CASE results[id] = "ok" /\ Tool(id) = "rag_tool"
  <2>1. CitationsOf(id) = Numbered(hits)
    BY <1>3 DEF CitationsOf, hits
  <2>2. QED
    BY <1>2, <2>1 DEF hits
<1>4. CASE ~(results[id] = "ok" /\ Tool(id) = "rag_tool")
  <2>1. CitationsOf(id) = <<>>
    BY <1>4 DEF CitationsOf
  <2>2. QED
    BY <1>4, <2>1
<1>5. QED
  BY <1>3, <1>4

\* The equation of the recursive definition of Merged.
LEMMA MergedDef ==
  ASSUME TypeOK
  PROVE  Merged = [k \in 0..Len(plan) |->
                     IF k = 0 THEN <<>>
                     ELSE Extended(Merged[k - 1], CitationsOf(plan[k].id))]
<1> DEFINE n == Len(plan)
           Body(f, k) == IF k = 0 THEN <<>>
                         ELSE Extended(f[k - 1], CitationsOf(plan[k].id))
           T == {m \in 0..n : \E f : f = [k \in 0..m |-> Body(f, k)]}
<1>0. n \in Nat
  BY DEF TypeOK
<1>1. 0 \in T
  <2> DEFINE f == [k \in 0..0 |-> <<>>]
  <2>1. \A k \in 0..0 : <<>> = Body(f, k)
    OBVIOUS
  <2>2. f = [k \in 0..0 |-> Body(f, k)]
    <3> HIDE DEF Body
    <3> QED BY <2>1
  <2> HIDE DEF f, n
  <2>3. QED
    BY <1>0, <2>2
<1> HIDE DEF n
<1>2. ASSUME NEW m \in 0..(n - 1), m \in T
      PROVE  m + 1 \in T
  <2>1. PICK f : f = [k \in 0..m |-> Body(f, k)]
    BY <1>2
  <2> DEFINE g == [k \in 0..(m + 1) |-> IF k = m + 1 THEN Body(f, m + 1) ELSE f[k]]
  <2>2. \A k \in 0..m : g[k] = f[k]
    OBVIOUS
  <2>3. \A k \in 0..(m + 1) : g[k] = Body(g, k)
    <3>1. \A k \in 0..m : f[k] = Body(f, k)
      BY <2>1
    <3>2. \A k \in 0..m : Body(f, k) = Body(g, k)
      BY <2>2
    <3>3. Body(f, m + 1) = Body(g, m + 1)
      BY <2>2
    <3>4. QED
      BY <3>1, <3>2, <3>3, <2>2
  <2>4. g = [k \in 0..(m + 1) |-> Body(g, k)]
    <3>1. g = [k \in 0..(m + 1) |-> g[k]]
      OBVIOUS
    <3> HIDE DEF g
    <3> QED BY <2>3, <3>1
  <2>5. m + 1 \in 0..n
    BY <1>0
  <2> HIDE DEF g
  <2>6. QED
    BY <2>4, <2>5
<1>3. n \in T
  <2> HIDE DEF T
  <2>1. 0..n \subseteq T
    BY <1>0, <1>1, <1>2, UpToInduction
  <2>2. QED
    BY <1>0, <2>1
<1>4. PICK f : f = [k \in 0..n |-> Body(f, k)]
  BY <1>3
<1>5. QED
  BY <1>4, Zenon DEF Merged, n

\* Where the citations merged from the first k steps come from: o tells the
\* step of each of them, which is the first that cites its chunk; they are in
\* the order of the steps and of their numbers, and no chunk is left out.
Collected(o, cited, k) ==
  /\ cited \in Seq(CitationType)
  /\ o \in [1..Len(cited) -> 1..k]
  /\ \A p \in 1..Len(cited) :
       /\ cited[p].index \in DOMAIN CitationsOf(plan[o[p]].id)
       /\ cited[p] = CitationsOf(plan[o[p]].id)[cited[p].index]
       /\ \A j \in 1..k : Cites(CitationsOf(plan[j].id), cited[p].chunk) => o[p] <= j
  /\ \A p, q \in 1..Len(cited) : p < q =>
       o[p] < o[q] \/ (o[p] = o[q] /\ cited[p].index < cited[q].index)
  /\ \A j \in 1..k : \A i \in DOMAIN CitationsOf(plan[j].id) :
       Cites(cited, CitationsOf(plan[j].id)[i].chunk)

\* Adding the citations of one more step.
LEMMA ExtendedCollects ==
  ASSUME TypeOK, NEW k \in 0..(Len(plan) - 1), NEW before, NEW o,
         Collected(o, before, k)
  PROVE  \E g : Collected(g, Extended(before, CitationsOf(plan[k + 1].id)), k + 1)
<1> DEFINE new == CitationsOf(plan[k + 1].id)
           P   == {j \in DOMAIN new : ~Cites(before, new[j].chunk)}
           sel == Selected(new, P)
           n   == Len(before)
           all == before \o sel
           g   == [p \in 1..Len(all) |-> IF p <= n THEN o[p] ELSE k + 1]
<1>1. /\ new \in Seq(CitationType)
      /\ \A j \in DOMAIN new : new[j].index = j
  <2>1. k + 1 \in DOMAIN plan
    BY PlanSteps
  <2>2. plan[k + 1].id \in StepIds
    BY <2>1, PlanSteps
  <2>3. QED
    BY <2>2, CitationsOfStep
<1>2. Extended(before, new) = all
  BY DEF Extended
<1> HIDE DEF new
<1>3. sel \in Seq(CitationType)
  BY <1>1, SelectedPicks
<1>4. PICK f : Picks(f, sel, new, P, Len(new))
  BY <1>1, SelectedPicks
<1> HIDE DEF sel
<1>5. before \in Seq(CitationType) /\ o \in [1..n -> 1..k] /\ n \in Nat
  BY DEF Collected
<1>6. /\ all \in Seq(CitationType)
      /\ Len(all) = n + Len(sel) /\ Len(sel) \in Nat
      /\ \A p \in 1..n : all[p] = before[p]
      /\ \A p \in 1..Len(all) : p > n => all[p] = sel[p - n] /\ p - n \in 1..Len(sel)
      /\ \A p \in 1..Len(sel) : n + p \in 1..Len(all) /\ all[n + p] = sel[p]
  BY <1>3, <1>5
<1> HIDE DEF all
<1>7. g \in [1..Len(all) -> 1..(k + 1)]
  BY <1>5, <1>6
<1>8. /\ \A p \in 1..n : g[p] = o[p] /\ p \in 1..Len(all)
      /\ \A p \in 1..Len(all) : p > n => g[p] = k + 1
  BY <1>5, <1>6
<1> HIDE DEF g
<1> HIDE DEF n
\* A citation that is added, by its position among those of the step.
<1>9. ASSUME NEW p \in 1..Len(all), p > n
      PROVE  /\ f[p - n] \in DOMAIN new /\ f[p - n] \in P
             /\ all[p] = new[f[p - n]] /\ all[p].index = f[p - n]
  <2>1. p - n \in 1..Len(sel) /\ all[p] = sel[p - n]
    BY <1>6, <1>9
  <2>2. DOMAIN new = 1..Len(new)
    BY <1>1
  <2> HIDE DEF P
  <2>3. f[p - n] \in DOMAIN new /\ f[p - n] \in P /\ sel[p - n] = new[f[p - n]]
    BY <2>1, <2>2, <1>4 DEF Picks
  <2>4. QED
    BY <2>1, <2>3, <1>1
<1>10. ASSUME NEW p \in 1..Len(all)
       PROVE  /\ all[p].index \in DOMAIN CitationsOf(plan[g[p]].id)
              /\ all[p] = CitationsOf(plan[g[p]].id)[all[p].index]
              /\ \A j \in 1..(k + 1) : Cites(CitationsOf(plan[j].id), all[p].chunk) => g[p] <= j
  <2>1. CASE p <= n
    <3>1. p \in 1..n /\ all[p] = before[p] /\ g[p] = o[p] /\ o[p] \in 1..k
      BY <2>1, <1>5, <1>6, <1>8
    <3>2. QED
      BY <3>1 DEF Collected, n
  <2>2. CASE p > n
    <3>1. g[p] = k + 1
      BY <2>2, <1>8
    <3>2. all[p].index \in DOMAIN new /\ all[p] = new[all[p].index]
      BY <2>2, <1>9
    <3>3. ~Cites(before, all[p].chunk)
      BY <2>2, <1>9
    <3>4. ASSUME NEW j \in 1..k, Cites(CitationsOf(plan[j].id), all[p].chunk)
          PROVE  FALSE
      <4>1. PICK i \in DOMAIN CitationsOf(plan[j].id) :
              CitationsOf(plan[j].id)[i].chunk = all[p].chunk
        BY <3>4 DEF Cites
      <4>2. Cites(before, CitationsOf(plan[j].id)[i].chunk)
        BY DEF Collected
      <4>3. QED
        BY <4>1, <4>2, <3>3
    <3>5. QED
      BY <3>1, <3>2, <3>4 DEF new
  <2>3. QED
    BY <2>1, <2>2, <1>5, <1>6
<1>11. ASSUME NEW p \in 1..Len(all), NEW q \in 1..Len(all), p < q
       PROVE  g[p] < g[q] \/ (g[p] = g[q] /\ all[p].index < all[q].index)
  <2>1. CASE q <= n
    <3>1. p \in 1..n /\ q \in 1..n
      BY <2>1, <1>11, <1>5
    <3>2. g[p] = o[p] /\ g[q] = o[q] /\ all[p] = before[p] /\ all[q] = before[q]
      BY <3>1, <1>6, <1>8
    <3>3. QED
      BY <3>1, <3>2, <1>11 DEF Collected, n
  <2>2. CASE p <= n /\ q > n
    <3>1. p \in 1..n /\ g[p] = o[p] /\ o[p] \in 1..k /\ g[q] = k + 1
      BY <2>2, <1>5, <1>8
    <3>2. QED
      BY <3>1
  <2>3. CASE p > n
    <3>1. q > n /\ p - n \in 1..Len(sel) /\ q - n \in 1..Len(sel) /\ p - n < q - n
      BY <2>3, <1>11, <1>5, <1>6
    <3>2. f[p - n] < f[q - n]
      <4> HIDE DEF P
      <4> QED BY <3>1, <1>4 DEF Picks
    <3>3. g[p] = k + 1 /\ g[q] = k + 1 /\ all[p].index = f[p - n] /\ all[q].index = f[q - n]
      BY <2>3, <3>1, <1>8, <1>9
    <3>4. QED
      BY <3>2, <3>3
  <2>4. QED
    BY <2>1, <2>2, <2>3, <1>5, <1>6
<1>12. ASSUME NEW j \in 1..(k + 1), NEW i \in DOMAIN CitationsOf(plan[j].id)
       PROVE  Cites(all, CitationsOf(plan[j].id)[i].chunk)
  <2>0. DOMAIN all = 1..Len(all) /\ DOMAIN before = 1..n
    BY <1>5, <1>6 DEF n
  <2>1. ASSUME NEW c, Cites(before, c)
        PROVE  Cites(all, c)
    <3>1. PICK p \in 1..n : before[p].chunk = c
      BY <2>0, <2>1 DEF Cites
    <3>2. p \in DOMAIN all /\ all[p].chunk = c
      BY <3>1, <2>0, <1>6, <1>8
    <3>3. QED
      BY <3>2 DEF Cites
  <2>2. CASE j \in 1..k
    BY <2>1, <2>2 DEF Collected
  <2>3. CASE j = k + 1 /\ ~Cites(before, new[i].chunk)
    <3>1. i \in P /\ i \in 1..Len(new)
      BY <2>3, <1>1 DEF new
    <3>2. PICK p \in 1..Len(sel) : f[p] = i
      <4> HIDE DEF P
      <4> QED BY <3>1, <1>4 DEF Picks
    <3>3. sel[p] = new[i]
      <4> HIDE DEF P
      <4> QED BY <3>2, <1>4 DEF Picks
    <3>4. n + p \in DOMAIN all /\ all[n + p] = new[i]
      BY <3>3, <2>0, <1>6
    <3>5. QED
      BY <3>4, <2>3 DEF Cites, new
  <2>4. CASE j = k + 1 /\ Cites(before, new[i].chunk)
    BY <2>1, <2>4 DEF new
  <2>5. QED
    BY <2>2, <2>3, <2>4
<1>13. Collected(g, all, k + 1)
  BY <1>6, <1>7, <1>10, <1>11, <1>12 DEF Collected
<1>14. QED
  BY <1>2, <1>13 DEF new

\* And so for the whole plan.
LEMMA MergedCollects ==
  ASSUME TypeOK
  PROVE  \E o : Collected(o, Merged[Len(plan)], Len(plan))
<1> DEFINE T == {k \in 0..Len(plan) : \E o : Collected(o, Merged[k], k)}
<1>0. /\ Len(plan) \in Nat
      /\ Merged[0] = <<>>
      /\ \A k \in 0..(Len(plan) - 1) :
           Merged[k + 1] = Extended(Merged[k], CitationsOf(plan[k + 1].id))
  <2> DEFINE Body(k) == IF k = 0 THEN <<>>
                        ELSE Extended(Merged[k - 1], CitationsOf(plan[k].id))
  <2>1. Merged = [k \in 0..Len(plan) |-> Body(k)]
    BY MergedDef
  <2> HIDE DEF Body
  <2>2. \A k \in 0..Len(plan) : Merged[k] = Body(k)
    BY <2>1
  <2>3. Len(plan) \in Nat
    BY DEF TypeOK
  <2>4. 0 \in 0..Len(plan) /\ \A k \in 0..(Len(plan) - 1) :
          k + 1 \in 0..Len(plan) /\ k + 1 # 0 /\ (k + 1) - 1 = k
    BY <2>3
  <2>5. QED
    BY <2>2, <2>3, <2>4 DEF Body
<1>1. 0 \in T
  <2>1. Collected([p \in 1..0 |-> 1], <<>>, 0)
    BY DEF Collected
  <2>2. QED
    BY <2>1, <1>0
<1>2. ASSUME NEW k \in 0..(Len(plan) - 1), k \in T
      PROVE  k + 1 \in T
  <2>1. PICK o : Collected(o, Merged[k], k)
    BY <1>2
  <2>2. \E g : Collected(g, Merged[k + 1], k + 1)
    BY <2>1, <1>0, ExtendedCollects
  <2>3. k + 1 \in 0..Len(plan)
    BY <1>0
  <2>4. QED
    BY <2>2, <2>3
<1>3. Len(plan) \in T
  <2> HIDE DEF T
  <2>1. 0..Len(plan) \subseteq T
    BY <1>0, <1>1, <1>2, UpToInduction
  <2>2. QED
    BY <1>0, <2>1
<1>4. QED
  BY <1>3

-----------------------------------------------------------------------------
(* Types *)

LEMMA ConcludeTypes ==
  ASSUME TypeOK, phase = "running", wave # <<>>,
         NEW status \in ToolStatus, NEW hits \in Hits \cup {<<>>},
         Conclude(status, hits)
  PROVE  /\ phase' \in {"scheduling", "running"}
         /\ remaining' \subseteq StepIds
         /\ wave' \in Seq(StepIds)
         /\ attempt' = 0
         /\ results' \in [StepIds -> ToolStatus \cup {"none"}]
         /\ found' \in [StepIds -> Hits \cup {<<>>}]
         /\ answer' = answer
<1>1. Head(wave) \in StepIds /\ Tail(wave) \in Seq(StepIds)
  BY DEF TypeOK
<1>2. QED
  BY <1>1 DEF Conclude, TypeOK

\* A wave is made of steps of the plan that remain and whose dependencies do
\* not, each of them once.
LEMMA ReadyIsReady ==
  ASSUME TypeOK
  PROVE  /\ Ready \in Seq(StepIds)
         /\ \A j \in DOMAIN Ready : \E k \in DOMAIN plan :
              /\ Ready[j] = plan[k].id /\ plan[k].id \in remaining
              /\ plan[k].deps \cap remaining = {}
         /\ \A k \in DOMAIN plan :
              plan[k].id \in remaining /\ plan[k].deps \cap remaining = {} => Ready # <<>>
         /\ ~Duplicated => \A i, j \in DOMAIN Ready : Ready[i] = Ready[j] => i = j
<1> DEFINE P == {k \in DOMAIN plan : plan[k].id \in remaining /\ plan[k].deps \cap remaining = {}}
<1>1. /\ PlanOrder \in Seq(StepIds)
      /\ DOMAIN PlanOrder = DOMAIN plan
      /\ \A k \in DOMAIN plan : PlanOrder[k] = plan[k].id
  BY PlanSteps DEF PlanOrder
<1>2. Ready = Selected(PlanOrder, P)
  BY DEF Ready
<1> HIDE DEF P
<1>3. Ready \in Seq(StepIds)
  BY <1>1, <1>2, SelectedPicks
<1>4. {Ready[j] : j \in DOMAIN Ready} = {PlanOrder[k] : k \in DOMAIN PlanOrder \cap P}
  <2> DEFINE order == PlanOrder
  <2> HIDE DEF order
  <2>1. order \in Seq(StepIds) /\ Ready = Selected(order, P)
    BY <1>1, <1>2 DEF order
  <2>2. {Selected(order, P)[j] : j \in DOMAIN Selected(order, P)}
          = {order[k] : k \in DOMAIN order \cap P}
    BY <2>1, SelectedElements
  <2>3. QED
    BY <2>1, <2>2 DEF order
<1>5. \A j \in DOMAIN Ready : \E k \in DOMAIN plan \cap P : Ready[j] = plan[k].id
  BY <1>1, <1>4
<1>6. ASSUME NEW k \in DOMAIN plan, k \in P
      PROVE  Ready # <<>>
  <2>1. PICK j \in DOMAIN Ready : Ready[j] = PlanOrder[k]
    BY <1>1, <1>4, <1>6
  <2>2. QED
    BY <2>1, <1>3
<1>7. ASSUME ~Duplicated
      PROVE  \A i, j \in DOMAIN Ready : Ready[i] = Ready[j] => i = j
  <2>1. \A j, k \in DOMAIN PlanOrder : PlanOrder[j] = PlanOrder[k] => j = k
    BY <1>1, <1>7 DEF Duplicated
  <2>2. QED
    BY <1>1, <1>2, <2>1, SelectedInjective
<1>8. QED
  BY <1>3, <1>5, <1>6, <1>7 DEF P

LEMMA InitTypes ==
  ASSUME Init
  PROVE  TypeOK
<1>1. \A S : <<>> \in Seq(S)
  OBVIOUS
<1>2. plan \in Seq(StepType) /\ wave \in Seq(StepIds)
      /\ trace \in Seq({"started", "retrying", "finished", "skipped"} \X StepIds)
  BY <1>1 DEF Init
<1>3. /\ answer.says \in StepIds \cup {NoId} /\ answer.note \in BOOLEAN
      /\ answer.citations \in Seq([chunk : Chunks, index : Nat])
  BY <1>1 DEF Init, NoAnswer
<1>4. /\ results \in [StepIds -> ToolStatus \cup {"none"}]
      /\ found \in [StepIds -> Hits \cup {<<>>}]
  BY DEF Init, StepIds
<1>5. phase = "planning" /\ remaining \subseteq StepIds /\ attempt = 0
  BY DEF Init
<1>6. late \in BOOLEAN
  BY Zenon DEF Init
<1>7. attempt \in 0..(Retries + 1)
  BY <1>5, BoundsAssumption
<1>8. QED
  BY <1>2, <1>3, <1>4, <1>5, <1>6, <1>7 DEF TypeOK, StepType

\* Merging keeps to the chunks that were found.
LEMMA MergedTypes ==
  ASSUME TypeOK
  PROVE  Merged[Len(plan)] \in Seq([chunk : Chunks, index : Nat])
<1>1. Merged[Len(plan)] \in Seq(CitationType)
  BY MergedCollects DEF Collected
<1>2. CitationType \subseteq [chunk : Chunks, index : Nat]
  BY DEF CitationType
<1> DEFINE cited == Merged[Len(plan)]
<1> HIDE DEF cited
<1>3. cited \in Seq(CitationType)
  BY <1>1 DEF cited
<1>4. cited \in Seq([chunk : Chunks, index : Nat])
  BY <1>2, <1>3, SeqMonotonic
<1>5. QED
  BY <1>4 DEF cited

\* A wave that is running has a step in hand.
HasWave == phase = "running" <=> wave # <<>>

LEMMA StepTypes ==
  ASSUME TypeOK, HasWave, [Next]_vars
  PROVE  TypeOK' /\ HasWave'
<1> USE BoundsAssumption
<1>1. ASSUME RejectBlank PROVE TypeOK' /\ HasWave'
  BY <1>1 DEF RejectBlank, TypeOK, HasWave, outcome, Ended
<1>2. ASSUME PlanFallback PROVE TypeOK' /\ HasWave'
  <2>1. \A visible \in BOOLEAN : FallbackPlan(visible) \in Seq(StepType)
    BY DEF FallbackPlan, StepType, StepIds
  <2>2. plan' \in Seq(StepType)
    BY <1>2, <2>1 DEF PlanFallback
  <2>3. QED
    BY <1>2, <2>2 DEF PlanFallback, TypeOK, HasWave, outcome, StepType, Ended
<1>3. ASSUME PlanFromLLM PROVE TypeOK' /\ HasWave'
  <2>1. plan' \in Seq(StepType)
    BY <1>3, ParsedIsPlan DEF PlanFromLLM, LLMPlans
  <2>2. QED
    BY <1>3, <2>1 DEF PlanFromLLM, TypeOK, HasWave, outcome, StepType, Ended
<1>4. ASSUME IndexSteps PROVE TypeOK' /\ HasWave'
  <2>1. PlanIds \subseteq StepIds
    BY PlanSteps
  <2>2. QED
    BY <1>4, <2>1 DEF IndexSteps, TypeOK, HasWave, outcome, Ended
<1>5. ASSUME Schedule PROVE TypeOK' /\ HasWave'
  <2>1. Ready \in Seq(StepIds)
    BY ReadyIsReady
  <2>2. QED
    BY <1>5, <2>1 DEF Schedule, TypeOK, HasWave, outcome, Ended
<1>6. ASSUME SkipStep PROVE TypeOK' /\ HasWave'
  <2>1. phase = "running" /\ Conclude("error", <<>>) /\ wave # <<>>
    BY <1>6 DEF SkipStep, HasWave
  <2>2. Head(wave) \in StepIds
    BY <2>1 DEF TypeOK
  <2>3. trace' \in Seq({"started", "retrying", "finished", "skipped"} \X StepIds)
    BY <1>6, <2>2 DEF SkipStep, Record, TypeOK
  <2>4. HasWave'
    BY <2>1 DEF Conclude, HasWave
  <2>5. TypeOK'
    BY <1>6, <2>1, <2>3, ConcludeTypes DEF SkipStep, TypeOK, ToolStatus, Ended
  <2>6. QED
    BY <2>4, <2>5
<1>7. ASSUME StartStep PROVE TypeOK' /\ HasWave'
  <2>1. Head(wave) \in StepIds
    BY <1>7 DEF StartStep, HasWave, TypeOK
  <2>2. trace' \in Seq({"started", "retrying", "finished", "skipped"} \X StepIds)
    BY <1>7, <2>1 DEF StartStep, Record, TypeOK
  <2>3. QED
    BY <1>7, <2>2 DEF StartStep, TypeOK, HasWave, outcome, Ended
<1>8. ASSUME Attempt PROVE TypeOK' /\ HasWave'
  <2>1. phase = "running" /\ wave # <<>> /\ attempt > 0 /\ plan' = plan
    BY <1>8 DEF Attempt, HasWave
  <2>2. Head(wave) \in StepIds
    BY <2>1 DEF TypeOK
  <2>3. PICK result \in ToolResults(Head(wave)) :
          /\ late' = (late \/ result.late)
          /\ \/ /\ result.status = "ok" \/ attempt > Retries
                /\ Conclude(result.status, result.hits)
                /\ Record("finished", Head(wave))
             \/ /\ result.status # "ok" /\ attempt <= Retries
                /\ attempt' = attempt + 1
                /\ Record("retrying", Head(wave))
                /\ UNCHANGED <<phase, remaining, wave, results, outcome>>
    BY <1>8 DEF Attempt
  <2>4. result.status \in ToolStatus /\ result.hits \in Hits \cup {<<>>} /\ result.late \in BOOLEAN
    BY <2>3 DEF ToolResults, RagToolResults, PlaceholderResults, ToolStatus
  <2>5. trace' \in Seq({"started", "retrying", "finished", "skipped"} \X StepIds)
    <3>1. \E event \in {"finished", "retrying"} : Record(event, Head(wave))
      BY <2>3
    <3>2. QED
      BY <2>2, <3>1 DEF Record, TypeOK
  <2>6. late' \in BOOLEAN
    BY <2>3, <2>4 DEF TypeOK
  <2>7. CASE Conclude(result.status, result.hits)
    <3>1. HasWave'
      BY <2>7 DEF Conclude, HasWave
    <3>2. TypeOK'
      BY <2>1, <2>4, <2>5, <2>6, <2>7, ConcludeTypes DEF TypeOK, Ended
    <3>3. QED
      BY <3>1, <3>2
  <2>8. CASE /\ attempt <= Retries /\ attempt' = attempt + 1
             /\ UNCHANGED <<phase, remaining, wave, results, outcome>>
    BY <2>1, <2>5, <2>6, <2>8 DEF TypeOK, HasWave, outcome, Ended
  <2>9. QED
    BY <2>3, <2>7, <2>8
<1>9. ASSUME Compose PROVE TypeOK' /\ HasWave'
  <2>1. answer'.citations \in Seq([chunk : Chunks, index : Nat])
    BY <1>9, MergedTypes DEF Compose
  <2>2. answer'.note \in BOOLEAN
    BY <1>9 DEF Compose
  <2>3. answer'.says \in StepIds \cup {NoId}
    <3>1. plan # <<>> => Last(plan) \in StepType
      BY PlanSteps DEF Last
    <3>2. QED
      BY <1>9, <3>1 DEF Compose, StepType
  <2>4. QED
    BY <1>9, <2>1, <2>2, <2>3 DEF Compose, TypeOK, HasWave, Ended
<1>10. ASSUME LateAnswer PROVE TypeOK' /\ HasWave'
  BY <1>10 DEF LateAnswer, TypeOK, HasWave, outcome, Ended
<1>11. ASSUME UNCHANGED vars PROVE TypeOK' /\ HasWave'
  BY <1>11 DEF vars, TypeOK, HasWave, outcome, Ended
<1>12. QED
  BY <1>1, <1>2, <1>3, <1>4, <1>5, <1>6, <1>7, <1>8, <1>9, <1>10, <1>11
  DEF Next, RunStep

\* Every variable keeps its type: the trace, the results and the citations of
\* the answer stay within the steps and chunks there are.
THEOREM TypesKept == Spec => []TypeOK
<1>1. Init => TypeOK /\ HasWave
  BY InitTypes DEF Init, HasWave
<1>2. TypeOK /\ HasWave /\ [Next]_vars => (TypeOK /\ HasWave)'
  BY StepTypes
<1>3. QED
  BY <1>1, <1>2, PTL DEF Spec

-----------------------------------------------------------------------------
(* The executor's bookkeeping *)

\* Nothing is done before the plan is indexed.
Unstarted ==
  /\ remaining = {} /\ wave = <<>> /\ attempt = 0 /\ trace = <<>>
  /\ \A id \in StepIds : results[id] = "none" /\ found[id] = <<>>

\* A step of the plan has a result or remains, and no other step has one; only
\* a retrieval that succeeded found anything.
Underway ==
  /\ ~Duplicated
  /\ remaining \subseteq PlanIds
  /\ \A id \in StepIds : results[id] # "none" <=> id \in PlanIds \ remaining
  /\ \A id \in StepIds : found[id] # <<>> => results[id] = "ok" /\ Tool(id) = "rag_tool"

Indexed == phase \in {"scheduling", "running", "composing", "done"}

Staged ==
  /\ phase = "planning" => plan = <<>>
  /\ phase \in {"planning", "rejected", "indexing"} => Unstarted
  /\ Indexed => Underway
  /\ phase \in {"composing", "done"} => remaining = {}
  /\ phase = "failed" => (Duplicated /\ Unstarted) \/ (Circular /\ Underway)

\* The steps of the wave are different, remain, and wait for no step.
WaveIsReady ==
  /\ \A j \in DOMAIN wave : wave[j] \in remaining /\ Deps(wave[j]) \cap remaining = {}
  /\ \A i, j \in DOMAIN wave : wave[i] = wave[j] => i = j
  /\ attempt > 0 => wave # <<>>

\* A circle of dependencies never gets a result: its first step to be run would
\* depend on a step that remains.
CirclesRemain ==
  Indexed =>
    \A S \in SUBSET PlanIds : (\A id \in S : Deps(id) \cap S # {}) => S \subseteq remaining

Bookkeeping == TypeOK /\ HasWave /\ Staged /\ WaveIsReady /\ CirclesRemain

InHand(id) == attempt > 0 /\ id = Head(wave)

\* A step that has a result has settled in the trace.
SettledInTrace ==
  \A id \in StepIds : results[id] # "none" => \E j \in DOMAIN trace : Settles(trace[j], id)

\* The attempts at the step in hand are those in the trace, a step without a
\* result that is not in hand has none.
RetriesCounted ==
  \A id \in StepIds :
    /\ IsFiniteSet(Events("retrying", id))
    /\ Cardinality(Events("retrying", id)) <= Retries
    /\ InHand(id) => Cardinality(Events("retrying", id)) = attempt - 1
    /\ results[id] = "none" /\ ~InHand(id) => Events("retrying", id) = {}

ResultsCounted ==
  \A id \in StepIds :
    LET settled == Events("finished", id) \cup Events("skipped", id) IN
    IF results[id] = "none" THEN settled = {} ELSE \E k \in DOMAIN trace : settled = {k}

\* An attempt at a step follows its start, or the attempt before it, at once.
AttemptsFollow ==
  /\ attempt > 0 => /\ trace # <<>>
                    /\ trace[Len(trace)] \in {<<"started", Head(wave)>>, <<"retrying", Head(wave)>>}
  /\ \A k \in DOMAIN trace : trace[k][1] \in {"retrying", "finished"} =>
       k > 1 /\ trace[k - 1] \in {<<"started", trace[k][2]>>, <<"retrying", trace[k][2]>>}

LEMMA StepsAreFound ==
  ASSUME ~Duplicated, NEW k \in DOMAIN plan
  PROVE  StepOf(plan[k].id) = plan[k] /\ Deps(plan[k].id) = plan[k].deps
<1>1. \A s \in {plan[j] : j \in DOMAIN plan} : s.id = plan[k].id => s = plan[k]
  BY DEF Duplicated
<1>2. plan[k] \in {plan[j] : j \in DOMAIN plan}
  OBVIOUS
<1>3. QED
  BY <1>1, <1>2 DEF StepOf, Deps

LEMMA SamePlan ==
  ASSUME plan' = plan
  PROVE  /\ PlanIds' = PlanIds /\ (Duplicated' <=> Duplicated) /\ (Circular' <=> Circular)
         /\ \A id : Deps(id)' = Deps(id)
<1>1. PlanIds' = PlanIds /\ \A id : Deps(id)' = Deps(id)
  BY DEF PlanIds, Deps, StepOf
<1>2. QED
  BY <1>1 DEF Circular, Duplicated

LEMMA HeadOfWave ==
  ASSUME TypeOK, WaveIsReady, wave # <<>>
  PROVE  /\ Head(wave) \in StepIds /\ Head(wave) \in remaining
         /\ Deps(Head(wave)) \cap remaining = {}
         /\ Tail(wave) \in Seq(StepIds)
         /\ \A j \in DOMAIN Tail(wave) :
              /\ j + 1 \in DOMAIN wave /\ Tail(wave)[j] = wave[j + 1]
              /\ Tail(wave)[j] # Head(wave)
<1>1. wave \in Seq(StepIds)
  BY DEF TypeOK
<1>2. 1 \in DOMAIN wave /\ Head(wave) = wave[1] /\ Tail(wave) \in Seq(StepIds)
  BY <1>1
<1>3. ASSUME NEW j \in DOMAIN Tail(wave)
      PROVE  j + 1 \in DOMAIN wave /\ Tail(wave)[j] = wave[j + 1] /\ j + 1 # 1
  BY <1>1, <1>3
<1>4. QED
  BY <1>1, <1>2, <1>3 DEF WaveIsReady

\* A step that ends with its result keeps the books.
LEMMA ConcludeKeeps ==
  ASSUME TypeOK, phase = "running", wave # <<>>, plan' = plan,
         Underway, WaveIsReady, CirclesRemain,
         NEW status \in ToolStatus, NEW hits,
         hits # <<>> => status = "ok" /\ Tool(Head(wave)) = "rag_tool",
         Conclude(status, hits)
  PROVE  phase' \in {"scheduling", "running"} /\ Underway' /\ WaveIsReady' /\ CirclesRemain'
<1> DEFINE h == Head(wave)
<1>1. /\ h \in StepIds /\ h \in remaining /\ Deps(h) \cap remaining = {}
      /\ Tail(wave) \in Seq(StepIds)
      /\ \A j \in DOMAIN Tail(wave) :
           j + 1 \in DOMAIN wave /\ Tail(wave)[j] = wave[j + 1] /\ Tail(wave)[j] # h
  BY HeadOfWave
<1>2. /\ remaining' = remaining \ {h} /\ wave' = Tail(wave) /\ attempt' = 0
      /\ phase' \in {"scheduling", "running"}
      /\ \A id \in StepIds : /\ results'[id] = IF id = h THEN status ELSE results[id]
                             /\ found'[id] = IF id = h THEN hits ELSE found[id]
  BY <1>1 DEF Conclude, TypeOK
<1>3. /\ PlanIds' = PlanIds /\ (Duplicated' <=> Duplicated)
      /\ \A id : Deps(id)' = Deps(id)
  BY SamePlan
<1> HIDE DEF h
<1>4. Underway'
  <2>1. ~Duplicated' /\ remaining' \subseteq PlanIds'
    BY <1>2, <1>3 DEF Underway
  <2>2. ASSUME NEW id \in StepIds
        PROVE  results'[id] # "none" <=> id \in PlanIds' \ remaining'
    BY <1>1, <1>2, <1>3 DEF Underway, ToolStatus
  <2>3. ASSUME NEW id \in StepIds, found'[id] # <<>>
        PROVE  results'[id] = "ok" /\ Tool(id)' = "rag_tool"
    BY <1>2, <2>3 DEF Underway, Tool, h
  <2>4. QED
    BY <2>1, <2>2, <2>3 DEF Underway, StepIds
<1>5. WaveIsReady'
  <2>1. ASSUME NEW j \in DOMAIN Tail(wave)
        PROVE  Tail(wave)[j] \in remaining' /\ Deps(Tail(wave)[j]) \cap remaining' = {}
    BY <1>1, <1>2, <2>1 DEF WaveIsReady
  <2>2. ASSUME NEW i \in DOMAIN Tail(wave), NEW j \in DOMAIN Tail(wave),
               Tail(wave)[i] = Tail(wave)[j]
        PROVE  i = j
    <3>1. i + 1 = j + 1
      BY <1>1, <1>2, <2>2 DEF WaveIsReady
    <3>2. i \in Int /\ j \in Int
      BY <1>1, <1>2
    <3>3. QED
      BY <3>1, <3>2
  <2>3. QED
    BY <2>1, <2>2, <1>2, <1>3 DEF WaveIsReady
<1>6. CirclesRemain'
  <2>1. ASSUME NEW S \in SUBSET PlanIds, \A id \in S : Deps(id) \cap S # {}
        PROVE  S \subseteq remaining'
    <3>1. S \subseteq remaining
      BY <2>1 DEF CirclesRemain, Indexed
    <3>2. h \notin S
      BY <3>1, <1>1, <2>1
    <3>3. QED
      BY <3>1, <3>2, <1>2
  <2>2. QED
    BY <2>1, <1>3 DEF CirclesRemain
<1>7. QED
  BY <1>2, <1>4, <1>5, <1>6

LEMMA InitBooks ==
  ASSUME Init
  PROVE  Staged /\ WaveIsReady /\ CirclesRemain
<1>1. Unstarted
  BY DEF Init, Unstarted, StepIds
<1>2. QED
  BY <1>1 DEF Init, Staged, WaveIsReady, CirclesRemain, Indexed

\* A new wave, from the steps that are ready.
LEMMA ScheduleKeeps ==
  ASSUME Bookkeeping, Schedule
  PROVE  Staged' /\ WaveIsReady' /\ CirclesRemain'
<1>1. Underway /\ phase = "scheduling" /\ wave = <<>> /\ ~(attempt > 0)
  BY DEF Bookkeeping, Schedule, Staged, HasWave, WaveIsReady, Indexed
<1>2. UNCHANGED <<plan, remaining, attempt, results, outcome, late, trace>>
  BY DEF Schedule
<1>3. /\ PlanIds' = PlanIds /\ (Duplicated' <=> Duplicated) /\ (Circular' <=> Circular)
      /\ \A id : Deps(id)' = Deps(id)
  BY <1>2, SamePlan
<1>4. Underway'
  BY <1>1, <1>2, <1>3 DEF Underway, outcome
<1>5. CirclesRemain'
  BY <1>1, <1>2, <1>3 DEF CirclesRemain, Indexed, Bookkeeping
<1>6. CASE remaining = {} /\ phase' = "composing" /\ UNCHANGED wave
  <2>1. Staged'
    BY <1>2, <1>4, <1>6 DEF Staged, Indexed
  <2>2. WaveIsReady'
    BY <1>1, <1>2, <1>6 DEF WaveIsReady
  <2>3. QED
    BY <2>1, <2>2, <1>5
<1>7. CASE Ready # <<>> /\ phase' = "running" /\ wave' = Ready
  <2>1. Staged'
    BY <1>4, <1>7 DEF Staged, Indexed
  <2>2. ASSUME NEW j \in DOMAIN Ready
        PROVE  Ready[j] \in remaining /\ Deps(Ready[j]) \cap remaining = {}
    <3>1. PICK k \in DOMAIN plan : /\ Ready[j] = plan[k].id /\ plan[k].id \in remaining
                                   /\ plan[k].deps \cap remaining = {}
      BY <2>2, ReadyIsReady DEF Bookkeeping
    <3>2. QED
      BY <3>1, <1>1, StepsAreFound DEF Underway
  <2>3. \A i, j \in DOMAIN Ready : Ready[i] = Ready[j] => i = j
    BY <1>1, ReadyIsReady DEF Bookkeeping, Underway
  <2>4. WaveIsReady'
    BY <1>2, <1>3, <1>7, <2>2, <2>3 DEF WaveIsReady
  <2>5. QED
    BY <2>1, <2>4, <1>5
<1>8. CASE remaining # {} /\ Ready = <<>> /\ phase' = "failed" /\ UNCHANGED wave
  <2>1. ASSUME NEW id \in remaining
        PROVE  Deps(id) \cap remaining # {}
    <3>1. PICK k \in DOMAIN plan : plan[k].id = id
      BY <1>1 DEF Underway, PlanIds
    <3>2. plan[k].deps \cap remaining # {}
      BY <1>8, <3>1, ReadyIsReady DEF Bookkeeping
    <3>3. QED
      BY <3>1, <3>2, <1>1, StepsAreFound DEF Underway
  <2>2. Circular
    BY <1>1, <1>8, <2>1 DEF Circular, Underway
  <2>3. Staged'
    BY <1>3, <1>4, <1>8, <2>2 DEF Staged, Indexed
  <2>4. WaveIsReady'
    BY <1>1, <1>2, <1>8 DEF WaveIsReady
  <2>5. QED
    BY <2>3, <2>4, <1>5
<1>9. QED
  BY <1>6, <1>7, <1>8 DEF Schedule

\* What an attempt comes to: a result, or another attempt.
LEMMA AttemptEither ==
  ASSUME Attempt
  PROVE  \/ \E status \in ToolStatus, hits \in Hits \cup {<<>>} :
              /\ hits # <<>> => status = "ok" /\ Tool(Head(wave)) = "rag_tool"
              /\ Conclude(status, hits) /\ Record("finished", Head(wave))
         \/ /\ attempt <= Retries /\ attempt' = attempt + 1
            /\ Record("retrying", Head(wave))
            /\ UNCHANGED <<phase, remaining, wave, results, outcome>>
<1>1. ASSUME NEW result \in ToolResults(Head(wave))
      PROVE  /\ result.status \in ToolStatus /\ result.hits \in Hits \cup {<<>>}
             /\ result.hits # <<>> => result.status = "ok" /\ Tool(Head(wave)) = "rag_tool"
  BY <1>1 DEF ToolResults, RagToolResults, PlaceholderResults, ToolStatus
<1>2. QED
  BY <1>1 DEF Attempt

LEMMA StepBooks ==
  ASSUME Bookkeeping, [Next]_vars
  PROVE  Bookkeeping'
<1>1. TypeOK' /\ HasWave'
  BY StepTypes DEF Bookkeeping
<1> SUFFICES Staged' /\ WaveIsReady' /\ CirclesRemain'
  BY <1>1 DEF Bookkeeping
<1>2. ASSUME UNCHANGED <<plan, remaining, wave, attempt, results, outcome, trace>>
      PROVE  /\ Unstarted' <=> Unstarted
             /\ Underway' <=> Underway
             /\ WaveIsReady' <=> WaveIsReady
             /\ PlanIds' = PlanIds /\ (Duplicated' <=> Duplicated) /\ (Circular' <=> Circular)
             /\ \A id : Deps(id)' = Deps(id)
  <2>1. /\ PlanIds' = PlanIds /\ (Duplicated' <=> Duplicated) /\ (Circular' <=> Circular)
        /\ \A id : Deps(id)' = Deps(id)
    BY <1>2, SamePlan
  <2>2. QED
    BY <1>2, <2>1 DEF Unstarted, Underway, WaveIsReady, outcome
<1>3. ASSUME RejectBlank
      PROVE  Staged' /\ WaveIsReady' /\ CirclesRemain'
  BY <1>2, <1>3 DEF RejectBlank, Bookkeeping, Staged, CirclesRemain, Indexed
<1>4. ASSUME PlanFallback \/ PlanFromLLM
      PROVE  Staged' /\ WaveIsReady' /\ CirclesRemain'
  <2>1. /\ phase = "planning" /\ phase' = "indexing"
        /\ UNCHANGED <<remaining, wave, attempt, results, outcome, late, trace>>
    BY <1>4 DEF PlanFallback, PlanFromLLM
  <2>2. Unstarted
    BY <2>1 DEF Bookkeeping, Staged
  <2>3. Unstarted'
    BY <2>1, <2>2 DEF Unstarted, outcome
  <2>4. QED
    BY <2>1, <2>2, <2>3 DEF Unstarted, Staged, WaveIsReady, CirclesRemain, Indexed
<1>5. ASSUME IndexSteps
      PROVE  Staged' /\ WaveIsReady' /\ CirclesRemain'
  <2>1. phase = "indexing" /\ Unstarted
    BY <1>5 DEF IndexSteps, Bookkeeping, Staged
  <2>2. UNCHANGED <<plan, wave, attempt, results, outcome, late, trace>>
    BY <1>5 DEF IndexSteps
  <2>3. /\ PlanIds' = PlanIds /\ (Duplicated' <=> Duplicated)
    BY <2>2, SamePlan
  <2>4. WaveIsReady'
    BY <2>1, <2>2 DEF WaveIsReady, Unstarted
  <2>5. CASE ~Duplicated /\ phase' = "scheduling" /\ remaining' = PlanIds
    <3>1. Underway'
      BY <2>1, <2>2, <2>3, <2>5 DEF Underway, Unstarted, outcome
    <3>2. QED
      BY <2>3, <2>4, <2>5, <3>1 DEF Staged, CirclesRemain, Indexed
  <2>6. CASE Duplicated /\ phase' = "failed" /\ UNCHANGED remaining
    <3>1. Unstarted'
      BY <2>1, <2>2, <2>6 DEF Unstarted, outcome
    <3>2. QED
      BY <2>3, <2>4, <2>6, <3>1 DEF Staged, CirclesRemain, Indexed
  <2>7. QED
    BY <1>5, <2>5, <2>6 DEF IndexSteps
<1>6. ASSUME Schedule
      PROVE  Staged' /\ WaveIsReady' /\ CirclesRemain'
  BY <1>6, ScheduleKeeps
<1>7. ASSUME NEW status \in ToolStatus, NEW hits,
             phase = "running", plan' = plan,
             hits # <<>> => status = "ok" /\ Tool(Head(wave)) = "rag_tool",
             Conclude(status, hits)
      PROVE  Staged' /\ WaveIsReady' /\ CirclesRemain'
  <2>1. Underway /\ wave # <<>>
    BY <1>7 DEF Bookkeeping, Staged, HasWave, Indexed
  <2>2. phase' \in {"scheduling", "running"} /\ Underway' /\ WaveIsReady' /\ CirclesRemain'
    BY <1>7, <2>1, ConcludeKeeps DEF Bookkeeping
  <2>3. QED
    BY <2>2 DEF Staged
<1>8. ASSUME SkipStep
      PROVE  Staged' /\ WaveIsReady' /\ CirclesRemain'
  BY <1>7, <1>8 DEF SkipStep, ToolStatus
<1>9. ASSUME UNCHANGED <<phase, plan, remaining, wave, results, outcome>>,
             phase = "running"
      PROVE  Staged' /\ WaveIsReady' /\ CirclesRemain'
  <2>1. /\ PlanIds' = PlanIds /\ (Duplicated' <=> Duplicated)
        /\ \A id : Deps(id)' = Deps(id)
    BY <1>9, SamePlan
  <2>2. Underway /\ wave # <<>>
    BY <1>9 DEF Bookkeeping, Staged, HasWave, Indexed
  <2>3. Underway'
    BY <1>9, <2>1, <2>2 DEF Underway, outcome
  <2>4. Staged'
    BY <1>9, <2>3 DEF Staged
  <2>5. WaveIsReady'
    BY <1>9, <2>1, <2>2 DEF WaveIsReady, Bookkeeping
  <2>6. CirclesRemain'
    BY <1>9, <2>1 DEF CirclesRemain, Indexed, Bookkeeping
  <2>7. QED
    BY <2>4, <2>5, <2>6
<1>10. ASSUME StartStep
       PROVE  Staged' /\ WaveIsReady' /\ CirclesRemain'
  BY <1>9, <1>10 DEF StartStep
<1>11. ASSUME Attempt
       PROVE  Staged' /\ WaveIsReady' /\ CirclesRemain'
  <2>1. phase = "running" /\ plan' = plan
    BY <1>11 DEF Attempt
  <2>2. CASE UNCHANGED <<phase, remaining, wave, results, outcome>>
    BY <1>9, <2>1, <2>2
  <2>3. CASE \E status \in ToolStatus, hits \in Hits \cup {<<>>} :
               /\ hits # <<>> => status = "ok" /\ Tool(Head(wave)) = "rag_tool"
               /\ Conclude(status, hits)
    BY <1>7, <2>1, <2>3
  <2>4. QED
    BY <1>11, <2>2, <2>3, AttemptEither
<1>12. ASSUME Compose
       PROVE  Staged' /\ WaveIsReady' /\ CirclesRemain'
  <2>1. /\ phase = "composing" /\ phase' = "done"
        /\ UNCHANGED <<plan, remaining, wave, attempt, results, found, late, trace>>
    BY <1>12 DEF Compose
  <2>2. /\ PlanIds' = PlanIds /\ (Duplicated' <=> Duplicated)
        /\ \A id : Deps(id)' = Deps(id)
    BY <2>1, SamePlan
  <2>3. Underway' /\ remaining' = {}
    BY <2>1, <2>2 DEF Underway, Bookkeeping, Staged, Indexed
  <2>4. WaveIsReady'
    BY <2>1, <2>2 DEF WaveIsReady, Bookkeeping
  <2>5. CirclesRemain'
    BY <2>1, <2>2 DEF CirclesRemain, Indexed, Bookkeeping
  <2>6. QED
    BY <2>1, <2>3, <2>4, <2>5 DEF Staged
<1>13. ASSUME LateAnswer \/ UNCHANGED vars
       PROVE  Staged' /\ WaveIsReady' /\ CirclesRemain'
  <2>1. UNCHANGED <<phase, plan, remaining, wave, attempt, results, outcome, trace>>
    BY <1>13 DEF LateAnswer, vars
  <2>2. QED
    BY <1>2, <2>1 DEF Bookkeeping, Staged, CirclesRemain, Indexed
<1>14. QED
  BY <1>3, <1>4, <1>5, <1>6, <1>8, <1>10, <1>11, <1>12, <1>13 DEF Next, RunStep

LEMMA BooksKept == Spec => []Bookkeeping
<1>1. Init => Bookkeeping
  BY InitTypes, InitBooks DEF Init, HasWave, Bookkeeping
<1>2. Bookkeeping /\ [Next]_vars => Bookkeeping'
  BY StepBooks
<1>3. QED
  BY <1>1, <1>2, PTL DEF Spec

\* A run fails exactly when the plan repeats an id or its dependencies go round
\* in a circle, and otherwise ends with a result for every step.
THEOREM RunsEndAsThePlanAllows == Spec => []EndsAsThePlanAllows
<1>1. Bookkeeping => EndsAsThePlanAllows
  <2> SUFFICES ASSUME Bookkeeping
               PROVE  EndsAsThePlanAllows
    OBVIOUS
  <2>1. phase = "failed" => Duplicated \/ Circular
    BY DEF Bookkeeping, Staged
  <2>2. ASSUME phase = "done"
        PROVE  ~Duplicated /\ ~Circular /\ \A id \in PlanIds : results[id] # "none"
    <3>1. Underway /\ remaining = {} /\ PlanIds \subseteq StepIds
      BY <2>2, PlanSteps DEF Bookkeeping, Staged, Indexed
    <3>2. ~Circular
      <4> SUFFICES ASSUME NEW S \in (SUBSET PlanIds) \ {{}}, \A id \in S : Deps(id) \cap S # {}
                   PROVE  FALSE
        BY DEF Circular
      <4>1. S \subseteq remaining
        BY <2>2 DEF Bookkeeping, CirclesRemain, Indexed
      <4>2. QED
        BY <4>1, <3>1
    <3>3. QED
      BY <3>1, <3>2 DEF Underway
  <2>3. QED
    BY <2>1, <2>2 DEF EndsAsThePlanAllows
<1>2. QED
  BY <1>1, BooksKept, PTL

\* A step's result is final, whatever threads were abandoned, and only steps of
\* the plan are given one.
THEOREM ResultsStay == Spec => ResultsAreFinal
<1> DEFINE Final ==
      \A id \in StepIds :
        /\ results[id] # "none" => results'[id] = results[id] /\ found'[id] = found[id]
        /\ id \notin PlanIds => results'[id] = "none"
<1>1. ASSUME Bookkeeping
      PROVE  \A id \in StepIds \ PlanIds : results[id] = "none"
  BY <1>1 DEF Bookkeeping, Staged, Unstarted, Underway, Indexed, TypeOK, Ended
<1>2. ASSUME Bookkeeping, UNCHANGED <<results, found>>
      PROVE  Final
  BY <1>1, <1>2
<1>3. ASSUME Bookkeeping, phase = "running",
             NEW status \in ToolStatus, NEW hits, Conclude(status, hits)
      PROVE  Final
  <2>1. Underway /\ WaveIsReady /\ wave # <<>>
    BY <1>3 DEF Bookkeeping, Staged, HasWave, Indexed
  <2>2. Head(wave) \in StepIds /\ Head(wave) \in remaining
    BY <1>3, <2>1, HeadOfWave DEF Bookkeeping
  <2>3. results[Head(wave)] = "none" /\ Head(wave) \in PlanIds
    BY <2>1, <2>2 DEF Underway
  <2>4. \A id \in StepIds : id # Head(wave) =>
          results'[id] = results[id] /\ found'[id] = found[id]
    BY <1>3, <2>2 DEF Conclude, Bookkeeping, TypeOK
  <2>5. QED
    BY <1>1, <1>3, <2>3, <2>4
<1>4. ASSUME Bookkeeping, [Next]_vars
      PROVE  Final
  <2>1. CASE SkipStep
    BY <1>3, <1>4, <2>1 DEF SkipStep, ToolStatus
  <2>2. CASE Attempt
    <3>1. phase = "running"
      BY <2>2 DEF Attempt
    <3>2. CASE UNCHANGED <<phase, remaining, wave, results, outcome>>
      BY <1>2, <1>4, <3>2 DEF outcome
    <3>3. CASE \E status \in ToolStatus, hits \in Hits \cup {<<>>} : Conclude(status, hits)
      BY <1>3, <1>4, <3>1, <3>3
    <3>4. QED
      BY <2>2, <3>2, <3>3, AttemptEither
  <2>3. CASE UNCHANGED <<results, found>>
    BY <1>2, <1>4, <2>3
  <2>4. QED
    BY <1>4, <2>1, <2>2, <2>3
    DEF Next, RunStep, RejectBlank, PlanFallback, PlanFromLLM, IndexSteps, Schedule,
        StartStep, Compose, LateAnswer, vars, outcome
<1>5. QED
  BY <1>4, BooksKept, PTL DEF Spec, ResultsAreFinal

-----------------------------------------------------------------------------
(* The trace *)

\* A record is added at the end, and leaves the others where they are.
LEMMA RecordAppends ==
  ASSUME TypeOK, NEW event \in {"started", "retrying", "finished", "skipped"},
         NEW id \in StepIds, Record(event, id)
  PROVE  /\ Len(trace) \in Nat /\ DOMAIN trace = 1..Len(trace)
         /\ DOMAIN trace' = 1..(Len(trace) + 1) /\ Len(trace') = Len(trace) + 1
         /\ \A k \in DOMAIN trace : trace'[k] = trace[k]
         /\ trace'[Len(trace) + 1] = <<event, id>>
         /\ \A e, i : Events(e, i)' = IF e = event /\ i = id
                                      THEN Events(e, i) \cup {Len(trace) + 1} ELSE Events(e, i)
         /\ \A e, i : Len(trace) + 1 \notin Events(e, i)
<1>1. /\ Len(trace) \in Nat /\ DOMAIN trace = 1..Len(trace)
      /\ DOMAIN trace' = 1..(Len(trace) + 1) /\ Len(trace') = Len(trace) + 1
      /\ \A k \in DOMAIN trace : trace'[k] = trace[k]
      /\ trace'[Len(trace) + 1] = <<event, id>>
  BY DEF TypeOK, Record
<1>2. ASSUME NEW e, NEW i
      PROVE  /\ Events(e, i)' = IF e = event /\ i = id
                                THEN Events(e, i) \cup {Len(trace) + 1} ELSE Events(e, i)
             /\ Len(trace) + 1 \notin Events(e, i)
  <2>1. Events(e, i) = {k \in 1..Len(trace) : trace[k] = <<e, i>>}
    BY <1>1 DEF Events
  <2>2. Events(e, i)' = {k \in 1..(Len(trace) + 1) : trace'[k] = <<e, i>>}
    BY <1>1 DEF Events
  <2>3. trace'[Len(trace) + 1] = <<e, i>> <=> e = event /\ i = id
    BY <1>1
  <2>4. 1..(Len(trace) + 1) = (1..Len(trace)) \cup {Len(trace) + 1}
    BY <1>1
  <2>5. Len(trace) + 1 \notin Events(e, i)
    BY <2>1, <1>1
  <2>6. \A k \in 1..Len(trace) : trace'[k] = trace[k]
    BY <1>1
  <2>7. QED
    BY <2>1, <2>2, <2>3, <2>4, <2>5, <2>6
<1>3. QED
  BY <1>1, <1>2

\* A step that records nothing, the start of a step, another attempt, and the
\* end of a step, as far as they concern the trace.
Quiet == /\ UNCHANGED <<trace, results, attempt>>
         /\ plan' = plan \/ trace = <<>>
         /\ attempt > 0 => wave' = wave
Starts == /\ attempt = 0 /\ attempt' = 1
          /\ Record("started", Head(wave)) /\ UNCHANGED <<plan, wave, results>>
Repeats == /\ attempt > 0 /\ attempt <= Retries /\ attempt' = attempt + 1
           /\ Record("retrying", Head(wave)) /\ UNCHANGED <<plan, wave, results>>
Ends(event) == /\ event = "finished" => attempt > 0
               /\ attempt' = 0 /\ plan' = plan
               /\ Record(event, Head(wave))
               /\ \E status \in ToolStatus : results' = [results EXCEPT ![Head(wave)] = status]

Unsettled == /\ Head(wave) \in StepIds /\ results[Head(wave)] = "none" /\ Underway
             /\ Deps(Head(wave)) \cap remaining = {}

LEMMA StepWrites ==
  ASSUME Bookkeeping, [Next]_vars
  PROVE  \/ Quiet
         \/ Unsettled /\ (Starts \/ Repeats \/ \E event \in {"finished", "skipped"} : Ends(event))
<1>1. ASSUME phase = "running"
      PROVE  Unsettled
  <2>1. Underway /\ WaveIsReady /\ wave # <<>>
    BY <1>1 DEF Bookkeeping, Staged, HasWave, Indexed
  <2>2. /\ Head(wave) \in StepIds /\ Head(wave) \in remaining
        /\ Deps(Head(wave)) \cap remaining = {}
    BY <2>1, HeadOfWave DEF Bookkeeping
  <2>3. QED
    BY <2>1, <2>2 DEF Underway, Unsettled
<1>2. CASE SkipStep
  <2>1. Ends("skipped")
    BY <1>2 DEF SkipStep, Ends, Conclude, ToolStatus
  <2>2. QED
    BY <1>1, <1>2, <2>1 DEF SkipStep
<1>3. CASE StartStep
  BY <1>1, <1>3 DEF StartStep, Starts, outcome
<1>4. CASE Attempt
  <2>1. phase = "running" /\ attempt > 0 /\ plan' = plan
    BY <1>4 DEF Attempt
  <2>2. CASE \E status \in ToolStatus, hits \in Hits \cup {<<>>} :
               Conclude(status, hits) /\ Record("finished", Head(wave))
    BY <1>1, <2>1, <2>2 DEF Ends, Conclude
  <2>3. CASE /\ attempt <= Retries /\ attempt' = attempt + 1
             /\ Record("retrying", Head(wave))
             /\ UNCHANGED <<phase, remaining, wave, results, outcome>>
    BY <1>1, <2>1, <2>3 DEF Repeats
  <2>4. QED
    BY <1>4, <2>2, <2>3, AttemptEither
<1>5. CASE Schedule
  <2>1. ~(attempt > 0)
    BY <1>5 DEF Schedule, Bookkeeping, HasWave, WaveIsReady
  <2>2. QED
    BY <1>5, <2>1 DEF Schedule, Quiet
<1>6. CASE PlanFallback \/ PlanFromLLM
  <2>1. trace = <<>>
    BY <1>6 DEF PlanFallback, PlanFromLLM, Bookkeeping, Staged, Unstarted
  <2>2. QED
    BY <1>6, <2>1 DEF PlanFallback, PlanFromLLM, Quiet
<1>7. CASE RejectBlank \/ IndexSteps \/ Compose \/ LateAnswer \/ UNCHANGED vars
  BY <1>7 DEF RejectBlank, IndexSteps, Compose, LateAnswer, vars, Quiet
<1>8. QED
  BY <1>2, <1>3, <1>4, <1>5, <1>6, <1>7 DEF Next, RunStep

LEMMA SettledKept ==
  ASSUME Bookkeeping, SettledInTrace, [Next]_vars
  PROVE  SettledInTrace'
<1>0. TypeOK
  BY DEF Bookkeeping
<1>1. CASE Quiet
  BY <1>1 DEF Quiet, SettledInTrace, Settles
<1>2. ASSUME NEW event \in {"started", "retrying", "finished", "skipped"},
             Unsettled, Record(event, Head(wave)),
             \A id \in StepIds : results'[id] # "none" =>
               results[id] # "none" \/ (id = Head(wave) /\ event \in {"finished", "skipped"})
      PROVE  SettledInTrace'
  <2> SUFFICES ASSUME NEW id \in StepIds, results'[id] # "none"
               PROVE  \E j \in DOMAIN trace' : Settles(trace'[j], id)
    BY DEF SettledInTrace, StepIds, Settles
  <2>1. /\ DOMAIN trace = 1..Len(trace) /\ Len(trace) \in Nat
        /\ DOMAIN trace' = 1..(Len(trace) + 1)
        /\ \A k \in DOMAIN trace : trace'[k] = trace[k]
        /\ trace'[Len(trace) + 1] = <<event, Head(wave)>>
    BY <1>0, <1>2, RecordAppends DEF Unsettled
  <2>2. CASE results[id] # "none"
    <3>1. PICK j \in DOMAIN trace : Settles(trace[j], id)
      BY <2>2 DEF SettledInTrace
    <3>2. j \in DOMAIN trace' /\ trace'[j] = trace[j]
      BY <2>1
    <3>3. QED
      BY <3>1, <3>2
  <2>3. CASE id = Head(wave) /\ event \in {"finished", "skipped"}
    <3>1. Settles(trace'[Len(trace) + 1], id) /\ Len(trace) + 1 \in DOMAIN trace'
      BY <2>1, <2>3 DEF Settles
    <3>2. QED
      BY <3>1
  <2>4. QED
    BY <1>2, <2>2, <2>3
<1>3. CASE Unsettled /\ (Starts \/ Repeats)
  BY <1>2, <1>3 DEF Starts, Repeats
<1>4. CASE Unsettled /\ \E event \in {"finished", "skipped"} : Ends(event)
  <2>1. PICK event \in {"finished", "skipped"} : Ends(event)
    BY <1>4
  <2>2. \A id \in StepIds : id # Head(wave) => results'[id] = results[id]
    BY <2>1, <1>0 DEF Ends, TypeOK
  <2>3. QED
    BY <1>2, <1>4, <2>1, <2>2 DEF Ends
<1>5. QED
  BY <1>1, <1>3, <1>4, StepWrites

LEMMA DependenciesKept ==
  ASSUME Bookkeeping, SettledInTrace, DependenciesFirst, [Next]_vars
  PROVE  DependenciesFirst'
<1>0. TypeOK
  BY DEF Bookkeeping
<1>1. CASE Quiet /\ trace = <<>>
  BY <1>1 DEF Quiet, DependenciesFirst
<1>2. CASE Quiet /\ plan' = plan
  <2>1. PlanIds' = PlanIds /\ \A id : Deps(id)' = Deps(id)
    BY <1>2, SamePlan
  <2>2. QED
    BY <1>2, <2>1 DEF Quiet, DependenciesFirst, Settles
<1>3. ASSUME NEW event \in {"started", "retrying", "finished", "skipped"},
             Unsettled, Record(event, Head(wave)), plan' = plan
      PROVE  DependenciesFirst'
  <2>1. /\ DOMAIN trace = 1..Len(trace) /\ Len(trace) \in Nat
        /\ DOMAIN trace' = 1..(Len(trace) + 1)
        /\ \A k \in DOMAIN trace : trace'[k] = trace[k]
        /\ trace'[Len(trace) + 1] = <<event, Head(wave)>>
    BY <1>0, <1>3, RecordAppends DEF Unsettled
  <2>2. PlanIds' = PlanIds /\ \A id : Deps(id)' = Deps(id)
    BY <1>3, SamePlan
  <2>3. ASSUME NEW k \in DOMAIN trace', trace'[k][1] = "started",
               NEW d \in Deps(trace'[k][2]) \cap PlanIds
        PROVE  \E j \in 1..(k - 1) : Settles(trace'[j], d)
    <3>1. CASE k \in DOMAIN trace
      <4>1. PICK j \in 1..(k - 1) : Settles(trace[j], d)
        BY <2>1, <2>3, <3>1 DEF DependenciesFirst
      <4>2. j \in DOMAIN trace
        BY <2>1, <3>1
      <4>3. QED
        BY <2>1, <4>1, <4>2
    <3>2. CASE k = Len(trace) + 1
      <4>1. d \in Deps(Head(wave)) /\ d \in PlanIds
        BY <2>1, <2>3, <3>2
      <4>2. d \in StepIds /\ results[d] # "none"
        BY <1>0, <1>3, <4>1, PlanSteps DEF Unsettled, Underway
      <4>3. PICK j \in DOMAIN trace : Settles(trace[j], d)
        BY <4>2 DEF SettledInTrace
      <4>4. QED
        BY <2>1, <3>2, <4>3
    <3>3. QED
      BY <2>1, <3>1, <3>2
  <2>4. QED
    BY <2>2, <2>3 DEF DependenciesFirst, Settles
<1>4. CASE Unsettled /\ (Starts \/ Repeats \/ \E event \in {"finished", "skipped"} : Ends(event))
  BY <1>3, <1>4 DEF Starts, Repeats, Ends
<1>5. QED
  BY <1>1, <1>2, <1>4, StepWrites DEF Quiet

LEMMA RetriesKept ==
  ASSUME Bookkeeping, RetriesCounted, [Next]_vars
  PROVE  RetriesCounted'
<1>0. TypeOK /\ Retries \in Nat /\ attempt \in Nat
  BY BoundsAssumption DEF Bookkeeping, TypeOK
<1> DEFINE Counted(id) ==
      /\ IsFiniteSet(Events("retrying", id))
      /\ Cardinality(Events("retrying", id)) <= Retries
      /\ InHand(id) => Cardinality(Events("retrying", id)) = attempt - 1
      /\ results[id] = "none" /\ ~InHand(id) => Events("retrying", id) = {}
<1>1. CASE Quiet
  <2>1. \A id : Events("retrying", id)' = Events("retrying", id)
    BY <1>1 DEF Quiet, Events
  <2>2. \A id : InHand(id)' <=> InHand(id)
    BY <1>1 DEF Quiet, InHand
  <2>3. QED
    BY <1>1, <2>1, <2>2 DEF Quiet, RetriesCounted, StepIds
\* The step in hand before and after, by what was recorded of it.
<1>2. ASSUME Unsettled, Starts, NEW id \in StepIds
      PROVE  Counted(id)'
  <2>1. Events("retrying", id)' = Events("retrying", id)
    BY <1>0, <1>2, RecordAppends DEF Starts, Unsettled
  <2>2. ~InHand(id) /\ results'[id] = results[id]
    BY <1>2 DEF Starts, InHand
  <2>3. Counted(id)
    BY DEF RetriesCounted
  <2>4. CASE id = Head(wave)
    <3>1. Events("retrying", id) = {} /\ InHand(id)'
      BY <1>2, <2>2, <2>3, <2>4 DEF Unsettled, Starts, InHand
    <3>2. Cardinality(Events("retrying", id)') = attempt' - 1
      BY <1>2, <2>1, <3>1, FS_EmptySet DEF Starts
    <3>3. QED
      BY <2>1, <2>3, <3>1, <3>2
  <2>5. CASE id # Head(wave)
    <3>1. ~InHand(id)'
      BY <1>2, <2>5 DEF Starts, InHand
    <3>2. QED
      BY <2>1, <2>2, <2>3, <3>1
  <2>6. QED
    BY <2>4, <2>5
<1>3. ASSUME Unsettled, Repeats, NEW id \in StepIds
      PROVE  Counted(id)'
  <2>1. /\ Events("retrying", id)' = IF id = Head(wave)
                                     THEN Events("retrying", id) \cup {Len(trace) + 1}
                                     ELSE Events("retrying", id)
        /\ Len(trace) + 1 \notin Events("retrying", id)
    BY <1>0, <1>3, RecordAppends DEF Repeats, Unsettled
  <2>2. (InHand(id) <=> id = Head(wave)) /\ (InHand(id)' <=> id = Head(wave))
    BY <1>0, <1>3 DEF Repeats, InHand
  <2>3. Counted(id)
    BY DEF RetriesCounted
  <2>4. CASE id = Head(wave)
    <3>1. /\ IsFiniteSet(Events("retrying", id)')
          /\ Cardinality(Events("retrying", id)') = Cardinality(Events("retrying", id)) + 1
      <4> DEFINE E == Events("retrying", id)
      <4>1. IsFiniteSet(E) /\ Len(trace) + 1 \notin E
        BY <2>1, <2>3
      <4> HIDE DEF E
      <4>2. /\ IsFiniteSet(E \cup {Len(trace) + 1})
            /\ Cardinality(E \cup {Len(trace) + 1}) = Cardinality(E) + 1
        BY <4>1, FS_AddElement
      <4>3. QED
        BY <4>2, <2>1, <2>4 DEF E
    <3>2. Cardinality(Events("retrying", id)) = attempt - 1
      BY <2>2, <2>3, <2>4
    <3>3. Cardinality(Events("retrying", id)') = attempt' - 1 /\ attempt' - 1 <= Retries
      BY <1>0, <1>3, <3>1, <3>2 DEF Repeats
    <3>4. QED
      BY <3>1, <3>3, <2>2, <2>4
  <2>5. CASE id # Head(wave)
    BY <1>3, <2>1, <2>2, <2>3, <2>5 DEF Repeats
  <2>6. QED
    BY <2>4, <2>5
<1>4. ASSUME Unsettled, NEW event \in {"finished", "skipped"}, Ends(event), NEW id \in StepIds
      PROVE  Counted(id)'
  <2>1. Events("retrying", id)' = Events("retrying", id)
    BY <1>0, <1>4, RecordAppends DEF Ends, Unsettled
  <2>2. ~InHand(id)'
    BY <1>4 DEF Ends, InHand
  <2>3. results'[id] = "none" => results[id] = "none" /\ ~InHand(id)
    BY <1>0, <1>4 DEF Ends, TypeOK, InHand, ToolStatus
  <2>4. Counted(id)
    BY DEF RetriesCounted
  <2>5. QED
    BY <2>1, <2>2, <2>3, <2>4
<1>5. QED
  <2>1. (\A id \in StepIds : Counted(id)') => RetriesCounted'
    BY DEF RetriesCounted, StepIds
  <2>2. QED
    BY <1>1, <1>2, <1>3, <1>4, <2>1, StepWrites

LEMMA ResultsKept ==
  ASSUME Bookkeeping, ResultsCounted, [Next]_vars
  PROVE  ResultsCounted'
<1>0. TypeOK
  BY DEF Bookkeeping
<1> DEFINE settled(id) == Events("finished", id) \cup Events("skipped", id)
           Counted(id) == IF results[id] = "none" THEN settled(id) = {}
                          ELSE \E k \in DOMAIN trace : settled(id) = {k}
<1>1. CASE Quiet
  BY <1>1 DEF Quiet, Events, ResultsCounted
<1>2. ASSUME Unsettled, NEW event \in {"started", "retrying"}, Record(event, Head(wave)),
             results' = results, NEW id \in StepIds
      PROVE  Counted(id)'
  <2>1. settled(id)' = settled(id) /\ DOMAIN trace \subseteq DOMAIN trace'
    BY <1>0, <1>2, RecordAppends DEF Unsettled
  <2>2. Counted(id)
    BY DEF ResultsCounted
  <2>3. QED
    BY <1>2, <2>1, <2>2
<1>3. ASSUME Unsettled, NEW event \in {"finished", "skipped"}, Ends(event), NEW id \in StepIds
      PROVE  Counted(id)'
  <2>1. /\ settled(id)' = IF id = Head(wave) THEN settled(id) \cup {Len(trace) + 1} ELSE settled(id)
        /\ DOMAIN trace \subseteq DOMAIN trace' /\ Len(trace) + 1 \in DOMAIN trace'
    BY <1>0, <1>3, RecordAppends DEF Unsettled, Ends
  <2>2. Counted(id)
    BY DEF ResultsCounted
  <2>3. CASE id = Head(wave)
    <3>1. settled(id)' = {Len(trace) + 1}
      BY <1>3, <2>1, <2>2, <2>3 DEF Unsettled
    <3>2. results'[id] # "none"
      BY <1>0, <1>3, <2>3 DEF Ends, TypeOK, ToolStatus
    <3>3. QED
      BY <2>1, <3>1, <3>2
  <2>4. CASE id # Head(wave)
    <3>1. results'[id] = results[id]
      BY <1>0, <1>3, <2>4 DEF Ends, TypeOK
    <3>2. QED
      BY <2>1, <2>2, <2>4, <3>1
  <2>5. QED
    BY <2>3, <2>4
<1>4. QED
  <2>1. (\A id \in StepIds : Counted(id)') => ResultsCounted'
    BY DEF ResultsCounted, StepIds
  <2>2. CASE Unsettled /\ (Starts \/ Repeats)
    BY <1>2, <2>1, <2>2 DEF Starts, Repeats
  <2>3. CASE Unsettled /\ \E event \in {"finished", "skipped"} : Ends(event)
    BY <1>3, <2>1, <2>3
  <2>4. QED
    BY <1>1, <2>2, <2>3, StepWrites

LEMMA AttemptsKept ==
  ASSUME Bookkeeping, AttemptsFollow, [Next]_vars
  PROVE  AttemptsFollow'
<1>0. TypeOK /\ Len(trace) \in Nat
  BY DEF Bookkeeping, TypeOK
<1>1. CASE Quiet
  BY <1>1 DEF Quiet, AttemptsFollow
<1>2. ASSUME Unsettled, NEW event \in {"started", "retrying", "finished", "skipped"},
             Record(event, Head(wave)),
             event \in {"retrying", "finished"} => attempt > 0,
             attempt' > 0 => event \in {"started", "retrying"} /\ wave' = wave
      PROVE  AttemptsFollow'
  <2>1. /\ DOMAIN trace = 1..Len(trace) /\ DOMAIN trace' = 1..(Len(trace) + 1)
        /\ Len(trace') = Len(trace) + 1
        /\ \A k \in DOMAIN trace : trace'[k] = trace[k]
        /\ trace'[Len(trace) + 1] = <<event, Head(wave)>>
    BY <1>0, <1>2, RecordAppends DEF Unsettled
  <2>2. attempt' > 0 => /\ trace' # <<>>
                        /\ trace'[Len(trace')] \in {<<"started", Head(wave')>>, <<"retrying", Head(wave')>>}
    <3>1. trace' # <<>>
      BY <1>0, <2>1
    <3>2. QED
      BY <1>2, <2>1, <3>1
  <2>3. ASSUME NEW k \in DOMAIN trace', trace'[k][1] \in {"retrying", "finished"}
        PROVE  k > 1 /\ trace'[k - 1] \in {<<"started", trace'[k][2]>>, <<"retrying", trace'[k][2]>>}
    <3>1. CASE k \in DOMAIN trace
      <4>1. /\ k > 1
            /\ trace[k - 1] \in {<<"started", trace[k][2]>>, <<"retrying", trace[k][2]>>}
        BY <2>1, <2>3, <3>1 DEF AttemptsFollow
      <4>2. k - 1 \in DOMAIN trace
        BY <1>0, <2>1, <3>1, <4>1
      <4>3. QED
        BY <2>1, <3>1, <4>1, <4>2
    <3>2. CASE k = Len(trace) + 1
      <4>1. attempt > 0
        BY <1>2, <2>1, <2>3, <3>2
      <4>2. /\ trace # <<>>
            /\ trace[Len(trace)] \in {<<"started", Head(wave)>>, <<"retrying", Head(wave)>>}
        BY <4>1 DEF AttemptsFollow
      <4>3. Len(trace) \in DOMAIN trace
        BY <1>0, <4>2 DEF TypeOK
      <4>4. QED
        BY <1>0, <2>1, <3>2, <4>2, <4>3
    <3>3. QED
      BY <1>0, <2>1, <3>1, <3>2
  <2>4. QED
    BY <2>2, <2>3 DEF AttemptsFollow
<1>3. CASE Unsettled /\ Starts
  BY <1>2, <1>3 DEF Starts
<1>4. CASE Unsettled /\ Repeats
  BY <1>2, <1>4 DEF Repeats
<1>5. CASE Unsettled /\ \E event \in {"finished", "skipped"} : Ends(event)
  BY <1>2, <1>5 DEF Ends
<1>6. QED
  BY <1>1, <1>3, <1>4, <1>5, StepWrites

TraceBooks == SettledInTrace /\ DependenciesFirst /\ RetriesCounted /\ ResultsCounted /\ AttemptsFollow

LEMMA TraceKept == Spec => [](Bookkeeping /\ TraceBooks)
<1>1. ASSUME Init
      PROVE  Bookkeeping /\ TraceBooks
  <2>1. Bookkeeping
    BY <1>1, InitTypes, InitBooks DEF Init, HasWave, Bookkeeping
  <2>2. \A e, i : Events(e, i) = {}
    BY <1>1 DEF Init, Events
  <2>3. RetriesCounted
    BY <1>1, <2>2, FS_EmptySet, BoundsAssumption DEF Init, RetriesCounted, InHand
  <2>4. \A id \in StepIds : results[id] = "none"
    BY <1>1 DEF Init, StepIds
  <2>5. SettledInTrace /\ ResultsCounted
    BY <2>2, <2>4 DEF SettledInTrace, ResultsCounted
  <2>6. DependenciesFirst /\ AttemptsFollow
    BY <1>1 DEF Init, DependenciesFirst, AttemptsFollow
  <2>7. QED
    BY <2>1, <2>3, <2>5, <2>6 DEF TraceBooks
<1>2. Bookkeeping /\ TraceBooks /\ [Next]_vars => (Bookkeeping /\ TraceBooks)'
  BY StepBooks, SettledKept, DependenciesKept, RetriesKept, ResultsKept, AttemptsKept
  DEF TraceBooks
<1>3. QED
  BY <1>1, <1>2, PTL DEF Spec

\* A step is started only after every step that it depends on has settled.
THEOREM DependentStepsWait == Spec => []DependenciesFirst
<1>1. TraceBooks => DependenciesFirst
  BY DEF TraceBooks
<1>2. QED
  BY <1>1, TraceKept, PTL

\* The decision trace has every attempt at every step, in order, and a step has
\* one result exactly when the trace says that it ended.
THEOREM TraceIsTrue == Spec => []TraceTellsTheRun
<1>1. ASSUME TraceBooks
      PROVE  TraceTellsTheRun
  <2>1. ASSUME NEW id \in StepIds
        PROVE  /\ Cardinality(Events("retrying", id)) <= Retries
               /\ Cardinality(Events("finished", id) \cup Events("skipped", id))
                    = (IF results[id] = "none" THEN 0 ELSE 1)
    <3> DEFINE settled == Events("finished", id) \cup Events("skipped", id)
    <3>1. results[id] = "none" => settled = {}
      BY <1>1 DEF TraceBooks, ResultsCounted
    <3>2. results[id] # "none" => \E k : settled = {k}
      BY <1>1 DEF TraceBooks, ResultsCounted
    <3> HIDE DEF settled
    <3>3. Cardinality(settled) = (IF results[id] = "none" THEN 0 ELSE 1)
      BY <3>1, <3>2, FS_EmptySet, FS_Singleton
    <3>4. Cardinality(Events("retrying", id)) <= Retries
      BY <1>1 DEF TraceBooks, RetriesCounted
    <3>5. QED
      BY <3>3, <3>4 DEF settled
  <2>2. \A k \in DOMAIN trace : trace[k][1] \in {"retrying", "finished"} =>
          k > 1 /\ trace[k - 1] \in {<<"started", trace[k][2]>>, <<"retrying", trace[k][2]>>}
    BY <1>1 DEF TraceBooks, AttemptsFollow
  <2>3. QED
    BY <2>1, <2>2 DEF TraceTellsTheRun
<1>2. QED
  BY <1>1, TraceKept, PTL

-----------------------------------------------------------------------------
(* The citations of the answer *)

Cited == phase = "done" => \E o : Collected(o, answer.citations, Len(plan))

LEMMA CitedKept == Spec => [](Bookkeeping /\ Cited)
<1>1. Init => Bookkeeping /\ Cited
  BY InitTypes, InitBooks DEF Init, HasWave, Bookkeeping, Cited
<1>2. ASSUME Bookkeeping, Cited, [Next]_vars
      PROVE  Cited'
  <2>1. ASSUME UNCHANGED <<plan, results, found>>
        PROVE  \A o, cited, k : Collected(o, cited, k)' <=> Collected(o, cited, k)
    BY <2>1, SMT DEF Collected, Cites, CitationsOf, Numbered, Tool, CitationType, Chunks
  <2>2. CASE Compose
    <3>1. PICK o : Collected(o, Merged[Len(plan)], Len(plan))
      BY <1>2, MergedCollects DEF Bookkeeping
    <3>2. answer'.citations = Merged[Len(plan)] /\ UNCHANGED <<plan, results, found>>
      BY <2>2 DEF Compose
    <3>3. Collected(o, answer.citations, Len(plan))'
      BY <2>1, <3>1, <3>2
    <3>4. QED
      BY <3>3 DEF Cited
  <2>3. CASE phase' # "done"
    BY <2>3 DEF Cited
  <2>4. CASE phase = "done" /\ UNCHANGED <<plan, results, found, answer>>
    <3>1. PICK o : Collected(o, answer.citations, Len(plan))
      BY <1>2, <2>4 DEF Cited
    <3>2. Collected(o, answer.citations, Len(plan))'
      BY <2>1, <2>4, <3>1
    <3>3. QED
      BY <3>2 DEF Cited
  <2>5. CASE SkipStep \/ Attempt
    <3>1. phase = "running"
      BY <2>5 DEF SkipStep, Attempt
    <3>2. phase' # "done"
      BY <2>5, <3>1, AttemptEither DEF SkipStep, Conclude
    <3>3. QED
      BY <2>3, <3>2
  <2>6. QED
    BY <1>2, <2>2, <2>3, <2>4, <2>5
    DEF Next, RunStep, RejectBlank, PlanFallback, PlanFromLLM, IndexSteps, Schedule,
        StartStep, LateAnswer, vars, outcome
<1>3. Bookkeeping /\ Cited /\ [Next]_vars => (Bookkeeping /\ Cited)'
  BY <1>2, StepBooks
<1>4. QED
  BY <1>1, <1>3, PTL DEF Spec

\* The answer cites what its successful steps found, each chunk once, as the
\* first step that found it numbers it, in the order of the steps.
THEOREM CitationsOfTheAnswer == Spec => []CitationsAreMerged
<1>1. ASSUME Bookkeeping, Cited, phase = "done"
      PROVE  CitationsAreMerged
  <2> DEFINE cited == answer.citations
             finders(c) == {k \in DOMAIN plan : Contains(found[plan[k].id], c)}
             first(c) == CHOOSE k \in finders(c) : \A j \in finders(c) : k <= j
  <2>0. TypeOK /\ DOMAIN plan = 1..Len(plan) /\ \A k \in DOMAIN plan : plan[k].id \in StepIds
    BY <1>1, PlanSteps DEF Bookkeeping
  <2>1. PICK o : Collected(o, cited, Len(plan))
    BY <1>1 DEF Cited
  <2>2. /\ cited \in Seq(CitationType) /\ DOMAIN cited = 1..Len(cited)
        /\ o \in [1..Len(cited) -> DOMAIN plan]
    BY <2>0, <2>1 DEF Collected
  \* What was found is what is cited of a step.
  <2>3. ASSUME NEW k \in DOMAIN plan, NEW c
        PROVE  k \in finders(c) <=> Cites(CitationsOf(plan[k].id), c)
    <3> DEFINE id == plan[k].id
    <3>1. id \in StepIds
      BY <2>0
    <3>2. /\ CitationsOf(id) \in Seq(CitationType)
          /\ \A i \in DOMAIN CitationsOf(id) :
               i \in DOMAIN found[id] /\ CitationsOf(id)[i] = [chunk |-> found[id][i], index |-> i]
          /\ results[id] = "ok" /\ Tool(id) = "rag_tool" =>
               DOMAIN CitationsOf(id) = DOMAIN found[id]
      BY <2>0, <3>1, CitationsOfStep
    <3>3. found[id] # <<>> => results[id] = "ok" /\ Tool(id) = "rag_tool"
      BY <1>1, <3>1 DEF Bookkeeping, Staged, Underway, Indexed
    <3>4. /\ DOMAIN found[id] = 1..Len(found[id])
          /\ DOMAIN found[id] # {} => found[id] # <<>>
      BY <2>0, <3>1, HitsAssumption DEF TypeOK
    <3> HIDE DEF id
    <3>5. Contains(found[id], c) <=> Cites(CitationsOf(id), c)
      <4>1. ASSUME Contains(found[id], c)
            PROVE  Cites(CitationsOf(id), c)
        <5>1. PICK i \in 1..Len(found[id]) : found[id][i] = c
          BY <4>1 DEF Contains
        <5>2. i \in DOMAIN CitationsOf(id)
          BY <5>1, <3>2, <3>3, <3>4
        <5>3. QED
          BY <5>1, <5>2, <3>2 DEF Cites
      <4>2. ASSUME Cites(CitationsOf(id), c)
            PROVE  Contains(found[id], c)
        <5>1. PICK i \in DOMAIN CitationsOf(id) : CitationsOf(id)[i].chunk = c
          BY <4>2 DEF Cites
        <5>2. i \in 1..Len(found[id]) /\ found[id][i] = c
          BY <5>1, <3>2, <3>4
        <5>3. QED
          BY <5>2 DEF Contains
      <4>3. QED
        BY <4>1, <4>2
    <3>6. QED
      BY <3>5 DEF id
  <2>4. ASSUME NEW p \in DOMAIN cited
        PROVE  /\ cited[p].index \in DOMAIN found[plan[o[p]].id]
               /\ found[plan[o[p]].id][cited[p].index] = cited[p].chunk
               /\ results[plan[o[p]].id] = "ok"
               /\ cited[p].chunk \in Chunks
               /\ o[p] \in finders(cited[p].chunk)
               /\ first(cited[p].chunk) = o[p]
    <3> DEFINE id == plan[o[p]].id
               i  == cited[p].index
               c  == cited[p].chunk
    <3>1. o[p] \in DOMAIN plan /\ id \in StepIds
      BY <2>0, <2>2
    <3>2. i \in DOMAIN CitationsOf(id) /\ cited[p] = CitationsOf(id)[i]
      BY <2>1, <2>2 DEF Collected
    <3>3. i \in DOMAIN found[id] /\ CitationsOf(id)[i] = [chunk |-> found[id][i], index |-> i]
      BY <2>0, <3>1, <3>2, CitationsOfStep
    <3>4. results[id] = "ok"
      BY <3>2 DEF CitationsOf
    <3>5. c \in Chunks
      <4> HIDE DEF cited
      <4>1. cited[p] \in CitationType
        BY <2>2
      <4>2. QED
        BY <4>1 DEF CitationType
    <3>6. o[p] \in finders(c)
      <4>1. Cites(CitationsOf(id), c)
        BY <3>2 DEF Cites
      <4> HIDE DEF finders, c
      <4>2. QED
        BY <3>1, <4>1, <2>3
    <3>7. \A j \in finders(c) : o[p] <= j
      <4>1. \A j \in 1..Len(plan) : Cites(CitationsOf(plan[j].id), c) => o[p] <= j
        BY <2>1, <2>2 DEF Collected
      <4>2. \A j \in finders(c) : j \in DOMAIN plan
        OBVIOUS
      <4> HIDE DEF finders, c
      <4>3. QED
        BY <4>1, <4>2, <2>0, <2>3
    <3>8. first(c) = o[p]
      <4>1. finders(c) \subseteq Int
        BY <2>0
      <4> HIDE DEF finders, c
      <4>2. QED
        BY <3>6, <3>7, <4>1
    <3>9. QED
      BY <3>3, <3>2, <3>4, <3>5, <3>6, <3>8
  <2>5. {cited[k].chunk : k \in DOMAIN cited} = {c \in Chunks : finders(c) # {}}
    <3>1. \A p \in DOMAIN cited : cited[p].chunk \in Chunks /\ finders(cited[p].chunk) # {}
      BY <2>4
    <3>2. ASSUME NEW c, finders(c) # {}
          PROVE  \E p \in DOMAIN cited : cited[p].chunk = c
      <4>1. PICK k \in DOMAIN plan : k \in finders(c)
        BY <3>2
      <4>2. Cites(CitationsOf(plan[k].id), c)
        <5> HIDE DEF finders
        <5> QED BY <4>1, <2>3
      <4>3. PICK i \in DOMAIN CitationsOf(plan[k].id) : CitationsOf(plan[k].id)[i].chunk = c
        BY <4>2 DEF Cites
      <4>4. Cites(cited, c)
        BY <2>0, <2>1, <4>1, <4>3 DEF Collected
      <4>5. QED
        BY <4>4 DEF Cites
    <3> HIDE DEF finders
    <3>3. QED
      BY <3>1, <3>2
  <2>6. ASSUME NEW j \in DOMAIN cited, NEW k \in DOMAIN cited, j < k
        PROVE  \/ first(cited[j].chunk) < first(cited[k].chunk)
               \/ /\ first(cited[j].chunk) = first(cited[k].chunk)
                  /\ cited[j].index < cited[k].index
    <3>1. o[j] < o[k] \/ (o[j] = o[k] /\ cited[j].index < cited[k].index)
      BY <2>1, <2>2, <2>6 DEF Collected
    <3>2. first(cited[j].chunk) = o[j] /\ first(cited[k].chunk) = o[k]
      BY <2>4
    <3>3. QED
      BY <3>1, <3>2
  <2>7. ASSUME NEW k \in DOMAIN cited
        PROVE  /\ results[plan[first(cited[k].chunk)].id] = "ok"
               /\ cited[k].index \in DOMAIN found[plan[first(cited[k].chunk)].id]
               /\ found[plan[first(cited[k].chunk)].id][cited[k].index] = cited[k].chunk
    <3>1. first(cited[k].chunk) = o[k]
      BY <2>4
    <3> HIDE DEF first
    <3>2. QED
      BY <3>1, <2>4
  <2>8. QED
    BY <2>5, <2>6, <2>7, Zenon DEF CitationsAreMerged
<1>2. Bookkeeping /\ Cited => CitationsAreMerged
  BY <1>1 DEF CitationsAreMerged
<1>3. QED
  BY <1>2, CitedKept, PTL

-----------------------------------------------------------------------------
(* How long a run can be *)

\* A step of the plan is scheduled, started, attempted Retries + 1 times at
\* most, and leaves a step to spare.
PerStep == Retries + 4

\* The steps that a run has still before it.
StepsLeft ==
  IF phase = "planning" THEN MaxSteps * PerStep + 4
  ELSE IF phase = "indexing" THEN Len(plan) * PerStep + 3
  ELSE IF phase = "scheduling" THEN Cardinality(remaining) * PerStep + 2
  ELSE IF phase = "running" THEN Cardinality(remaining) * PerStep + 1 - attempt
  ELSE IF phase = "composing" THEN 1
  ELSE 0

\* Whatever fails or times out, every step of the run uses up one at least of
\* those it had, and an abandoned thread that ends gives it none back.
RunsDown ==
  [][/\ StepsLeft \in Nat /\ StepsLeft' \in Nat
     /\ RunStep => StepsLeft' < StepsLeft
     /\ LateAnswer => StepsLeft' = StepsLeft]_vars

\* The planner cuts what the LLM answered.
LEMMA ParsedIsShort ==
  ASSUME NEW raw \in Answers
  PROVE  Len(ParseSteps(raw)) <= MaxSteps
<1> DEFINE n    == IF Len(raw) < MaxSteps THEN Len(raw) ELSE MaxSteps
           cut  == SubSeq(raw, 1, n)
           kept == Selected(cut, {k \in DOMAIN cut : cut[k].valid})
<1>1. raw \in Seq(Item) /\ Len(raw) \in Nat /\ MaxSteps \in Nat
  BY BoundsAssumption DEF Answers
<1>2. n \in Nat /\ n <= MaxSteps /\ n <= Len(raw)
  BY <1>1
<1>3. cut \in Seq(Item) /\ Len(cut) = n
  <2> HIDE DEF n
  <2> QED BY <1>1, <1>2
<1>4. kept \in Seq(Item) /\ Len(kept) <= Len(cut)
  <2> HIDE DEF cut
  <2> QED BY <1>3, SelectedPicks, SelectedIsShorter
<1>5. Len(kept) \in Nat /\ Len(kept) <= MaxSteps
  <2> HIDE DEF kept, cut, n
  <2> QED BY <1>1, <1>2, <1>3, <1>4
<1> DEFINE steps == [k \in 1..Len(kept) |->
                      [id |-> kept[k].id,
                       deps |-> (kept[k].deps \cap KnownIds(raw)) \ {kept[k].id},
                       visible |-> TRUE]]
<1>6. ParseSteps(raw) = steps
  BY DEF ParseSteps, kept, cut, n
<1>7. Len(steps) = Len(kept)
  <2> HIDE DEF kept
  <2> QED BY <1>5
<1>8. QED
  <2> HIDE DEF steps, kept
  <2> QED BY <1>5, <1>6, <1>7

PlanIsShort == Len(plan) <= MaxSteps

LEMMA ShortKept == Spec => [](Bookkeeping /\ PlanIsShort)
<1>1. Init => PlanIsShort
  BY BoundsAssumption DEF Init, PlanIsShort
<1>2. PlanIsShort /\ [Next]_vars => PlanIsShort'
  <2> SUFFICES ASSUME PlanIsShort, [Next]_vars
               PROVE  PlanIsShort'
    OBVIOUS
  <2>1. CASE PlanFallback
    <3>1. PICK visible \in BOOLEAN : plan' = FallbackPlan(visible)
      BY <2>1 DEF PlanFallback
    <3>2. Len(plan') = 1
      BY <3>1 DEF FallbackPlan
    <3>3. QED
      BY <3>2, BoundsAssumption DEF PlanIsShort
  <2>2. CASE PlanFromLLM
    BY <2>2, ParsedIsShort DEF PlanFromLLM, LLMPlans, PlanIsShort
  <2>3. CASE plan' = plan
    BY <2>3 DEF PlanIsShort
  <2>4. QED
    BY <2>1, <2>2, <2>3 DEF Next, RunStep, RejectBlank, IndexSteps, Schedule, SkipStep,
                            StartStep, Attempt, Compose, LateAnswer, vars
<1>3. QED
  BY <1>1, <1>2, BooksKept, PTL DEF Spec

\* A plan has as many ids as steps at most.
LEMMA IdsAreCounted ==
  ASSUME TypeOK
  PROVE  IsFiniteSet(PlanIds) /\ Cardinality(PlanIds) \in Nat /\ Cardinality(PlanIds) <= Len(plan)
<1>1. Len(plan) \in Nat /\ DOMAIN plan = 1..Len(plan)
  BY PlanSteps
<1> DEFINE f == [k \in 1..Len(plan) |-> plan[k].id]
<1>2. f \in Surjection(1..Len(plan), PlanIds)
  BY <1>1 DEF PlanIds, Surjection
<1>3. IsFiniteSet(1..Len(plan)) /\ Cardinality(1..Len(plan)) = Len(plan)
  <2>1. Cardinality(1..Len(plan)) = IF 1 > Len(plan) THEN 0 ELSE Len(plan) - 1 + 1
    BY <1>1, FS_Interval
  <2>2. QED
    BY <1>1, <2>1, FS_Interval
<1>4. IsFiniteSet(PlanIds) /\ Cardinality(PlanIds) <= Cardinality(1..Len(plan))
  BY <1>2, <1>3, FS_Surjection
<1>5. QED
  BY <1>3, <1>4, FS_CardinalityType

\* One step less to go is worth as much as any number of attempts at it.
LEMMA LessByOne ==
  ASSUME NEW c \in Nat \ {0}, NEW w \in Nat
  PROVE  (c - 1) * w = c * w - w /\ c * w \in Nat /\ (c - 1) * w \in Nat
<1>1. (c - 1) * w = c * w - w
  BY Z3
<1>2. c * w \in Nat /\ (c - 1) * w \in Nat
  <2>1. c \in Nat /\ c - 1 \in Nat
    OBVIOUS
  <2>2. \A a, b \in Nat : a * b \in Nat
    OBVIOUS
  <2>3. QED
    BY <2>1, <2>2
<1>3. QED
  BY <1>1, <1>2

LEMMA ConcludeRunsDown ==
  ASSUME Bookkeeping, phase = "running",
         NEW status \in ToolStatus, NEW hits, Conclude(status, hits)
  PROVE  StepsLeft \in Nat /\ StepsLeft' \in Nat /\ StepsLeft' < StepsLeft
<1> DEFINE c == Cardinality(remaining)
           w == PerStep
<1>1. wave # <<>> /\ Head(wave) \in remaining
  BY HeadOfWave DEF Bookkeeping, HasWave
<1>2. remaining \subseteq PlanIds
  BY DEF Bookkeeping, Staged, Indexed, Underway
<1>3. IsFiniteSet(remaining) /\ c \in Nat
  BY <1>2, IdsAreCounted, FS_Subset, FS_CardinalityType DEF Bookkeeping
<1>4. c \in Nat \ {0}
  BY <1>1, <1>3, FS_EmptySet
<1>5. Cardinality(remaining') = c - 1
  BY <1>1, <1>3, FS_RemoveElement DEF Conclude
<1>6. w \in Nat /\ w = Retries + 4 /\ Retries \in Nat /\ attempt \in 0..(Retries + 1)
  BY BoundsAssumption DEF PerStep, Bookkeeping, TypeOK
<1>7. StepsLeft = c * w + 1 - attempt
  BY DEF StepsLeft
<1>8. \/ phase' = "scheduling" /\ StepsLeft' = (c - 1) * w + 2
      \/ phase' = "running" /\ StepsLeft' = (c - 1) * w + 1
  <2>1. attempt' = 0 /\ PerStep' = PerStep
    BY DEF Conclude, PerStep
  <2> HIDE DEF c
  <2>2. CASE phase' = "scheduling"
    BY <2>2, <1>5 DEF StepsLeft, PerStep
  <2>3. CASE phase' = "running"
    <3>1. StepsLeft' = (c - 1) * w + 1 - 0
      BY <2>1, <2>3, <1>5 DEF StepsLeft
    <3> HIDE DEF w
    <3>2. (c - 1) * w \in Int
      BY <1>4, <1>6, LessByOne
    <3>3. QED
      BY <2>3, <3>1, <3>2
  <2>4. QED
    BY <2>2, <2>3 DEF Conclude
<1> HIDE DEF c, w
<1>9. (c - 1) * w = c * w - w /\ c * w \in Nat /\ (c - 1) * w \in Nat
  BY <1>4, <1>6, LessByOne
<1>10. \A p \in Nat, q \in Nat : p = q - w =>
         q + 1 - attempt \in Nat /\ p + 2 < q + 1 - attempt /\ p + 1 < q + 1 - attempt
  BY <1>6
<1>11. QED
  BY <1>7, <1>8, <1>9, <1>10

\* A run ends within MaxSteps * PerStep + 4 steps, however the planner, the
\* tools and their threads behave.
THEOREM RunsAreBounded == Spec => RunsDown
<1>1. ASSUME Bookkeeping, PlanIsShort, [Next]_vars
      PROVE  [/\ StepsLeft \in Nat /\ StepsLeft' \in Nat
              /\ RunStep => StepsLeft' < StepsLeft
              /\ LateAnswer => StepsLeft' = StepsLeft]_vars
  <2> DEFINE Down == StepsLeft \in Nat /\ StepsLeft' \in Nat /\ StepsLeft' < StepsLeft
  <2>1. /\ PerStep \in Nat /\ PerStep' = PerStep /\ Retries \in Nat /\ MaxSteps \in Nat
        /\ PerStep = Retries + 4
    BY BoundsAssumption DEF PerStep
  <2>2. \A a, b \in Nat : a * b \in Nat
    OBVIOUS
  <2>3. Len(plan) \in Nat
    BY <1>1, PlanSteps DEF Bookkeeping
  <2>4. Cardinality(PlanIds) \in Nat /\ Cardinality(PlanIds) <= Len(plan)
    BY <1>1, IdsAreCounted DEF Bookkeeping
  <2>5. phase \in {"scheduling", "running"} => Cardinality(remaining) \in Nat
    <3>1. phase \in {"scheduling", "running"} => remaining \subseteq PlanIds
      BY <1>1 DEF Bookkeeping, Staged, Indexed, Underway
    <3>2. QED
      BY <1>1, <3>1, IdsAreCounted, FS_Subset, FS_CardinalityType DEF Bookkeeping
  <2>6. phase = "running" =>
          /\ Cardinality(remaining) \in Nat \ {0}
          /\ attempt \in 0..(Retries + 1)
    <3>1. phase = "running" => remaining # {}
      BY <1>1, HeadOfWave DEF Bookkeeping, HasWave
    <3>2. phase = "running" => remaining \subseteq PlanIds
      BY <1>1 DEF Bookkeeping, Staged, Indexed, Underway
    <3>3. phase = "running" => IsFiniteSet(remaining)
      BY <1>1, <3>2, IdsAreCounted, FS_Subset DEF Bookkeeping
    <3>4. QED
      BY <1>1, <2>5, <3>1, <3>3, FS_EmptySet DEF Bookkeeping, TypeOK
  <2>7. ASSUME phase = "running"
        PROVE  /\ Cardinality(remaining) * PerStep \in Nat
               /\ Cardinality(remaining) * PerStep >= PerStep
    <3> DEFINE c == Cardinality(remaining)
    <3>1. c \in Nat \ {0}
      BY <2>6, <2>7
    <3> HIDE DEF c
    <3>2. (c - 1) * PerStep = c * PerStep - PerStep /\ c * PerStep \in Nat /\ (c - 1) * PerStep \in Nat
      BY <3>1, <2>1, LessByOne
    <3>3. \A p, q \in Nat : p = q - PerStep => q >= PerStep
      BY <2>1
    <3>4. c * PerStep >= PerStep
      BY <3>2, <3>3
    <3>5. QED
      BY <3>2, <3>4 DEF c
  <2>8. StepsLeft \in Nat
    <3>1. CASE phase = "running"
      <4>1. StepsLeft = Cardinality(remaining) * PerStep + 1 - attempt
        BY <3>1 DEF StepsLeft
      <4>2. QED
        BY <3>1, <4>1, <2>1, <2>6, <2>7
    <3>2. CASE phase = "scheduling"
      <4>1. StepsLeft = Cardinality(remaining) * PerStep + 2
        BY <3>2 DEF StepsLeft
      <4>2. QED
        BY <3>2, <4>1, <2>1, <2>2, <2>5
    <3>3. CASE phase = "indexing"
      <4>1. StepsLeft = Len(plan) * PerStep + 3
        BY <3>3 DEF StepsLeft
      <4>2. QED
        BY <4>1, <2>1, <2>2, <2>3
    <3>4. CASE phase = "planning"
      <4>1. StepsLeft = MaxSteps * PerStep + 4
        BY <3>4 DEF StepsLeft
      <4>2. QED
        BY <4>1, <2>1, <2>2
    <3>5. QED
      BY <3>1, <3>2, <3>3, <3>4 DEF StepsLeft
  <2>9. ASSUME RejectBlank PROVE Down
    <3>1. StepsLeft' = 0 /\ StepsLeft = MaxSteps * PerStep + 4
      BY <2>9 DEF RejectBlank, StepsLeft
    <3>2. QED
      BY <3>1, <2>1, <2>2
  <2>10. ASSUME PlanFallback \/ PlanFromLLM PROVE Down
    <3>1. phase = "planning" /\ phase' = "indexing"
      BY <2>10 DEF PlanFallback, PlanFromLLM
    <3>2. StepsLeft = MaxSteps * PerStep + 4
      BY <3>1 DEF StepsLeft
    <3>3. StepsLeft' = Len(plan') * PerStep + 3
      BY <3>1, <2>1 DEF StepsLeft
    <3>4. Len(plan') \in Nat /\ Len(plan') <= MaxSteps
      <4>1. CASE PlanFallback
        <5>1. PICK visible \in BOOLEAN : plan' = FallbackPlan(visible)
          BY <4>1 DEF PlanFallback
        <5>2. Len(plan') = 1
          BY <5>1 DEF FallbackPlan
        <5>3. QED
          BY <5>2, BoundsAssumption
      <4>2. CASE PlanFromLLM
        <5>1. PICK raw \in Answers : plan' = ParseSteps(raw)
          BY <4>2 DEF PlanFromLLM, LLMPlans
        <5>2. plan' \in Seq(StepType) /\ Len(plan') <= MaxSteps
          BY <5>1, ParsedIsPlan, ParsedIsShort
        <5>3. QED
          BY <5>2
      <4>3. QED
        BY <2>10, <4>1, <4>2
    <3>5. \A a, b, w \in Nat : a <= b => a * w <= b * w
      BY Z3
    <3>6. Len(plan') * PerStep <= MaxSteps * PerStep
      BY <3>4, <3>5, <2>1
    <3>7. Len(plan') * PerStep \in Nat /\ MaxSteps * PerStep \in Nat
      BY <3>4, <2>1, <2>2
    <3>8. QED
      BY <3>2, <3>3, <3>6, <3>7
  <2>11. ASSUME IndexSteps PROVE Down
    <3>1. StepsLeft = Len(plan) * PerStep + 3 /\ Len(plan) * PerStep \in Nat
      BY <2>11, <2>1, <2>2, <2>3 DEF IndexSteps, StepsLeft
    <3>2. CASE phase' = "failed"
      <4>1. StepsLeft' = 0
        BY <3>2 DEF StepsLeft
      <4>2. QED
        BY <3>1, <4>1
    <3>3. CASE phase' = "scheduling" /\ remaining' = PlanIds
      <4>1. StepsLeft' = Cardinality(PlanIds) * PerStep + 2
        BY <3>3, <2>1 DEF StepsLeft
      <4>2. \A a, b, w \in Nat : a <= b => a * w <= b * w
        BY Z3
      <4>3. Cardinality(PlanIds) * PerStep <= Len(plan) * PerStep
        BY <4>2, <2>1, <2>3, <2>4
      <4>4. Cardinality(PlanIds) * PerStep \in Nat
        BY <2>1, <2>2, <2>4
      <4>5. QED
        BY <3>1, <4>1, <4>3, <4>4
    <3>4. QED
      BY <2>11, <3>2, <3>3 DEF IndexSteps
  <2>12. ASSUME Schedule PROVE Down
    <3>1. phase = "scheduling" /\ Cardinality(remaining) \in Nat
      BY <2>12, <2>5 DEF Schedule
    <3>2. StepsLeft = Cardinality(remaining) * PerStep + 2 /\ Cardinality(remaining) * PerStep \in Nat
      BY <3>1, <2>1, <2>2 DEF StepsLeft
    <3>3. attempt = 0 /\ UNCHANGED <<remaining, attempt>>
      BY <1>1, <2>12, <3>1 DEF Schedule, Bookkeeping, WaveIsReady, HasWave, TypeOK
    <3>4. CASE phase' = "composing"
      <4>1. StepsLeft' = 1
        BY <3>4 DEF StepsLeft
      <4>2. QED
        BY <3>2, <4>1
    <3>5. CASE phase' = "failed"
      <4>1. StepsLeft' = 0
        BY <3>5 DEF StepsLeft
      <4>2. QED
        BY <3>2, <4>1
    <3>6. CASE phase' = "running"
      <4>1. StepsLeft' = Cardinality(remaining) * PerStep + 1 - 0
        BY <3>3, <3>6, <2>1 DEF StepsLeft
      <4>2. QED
        BY <3>2, <4>1
    <3>7. QED
      BY <2>12, <3>4, <3>5, <3>6 DEF Schedule
  <2>13. ASSUME SkipStep PROVE Down
    BY <1>1, <2>13, ConcludeRunsDown DEF SkipStep, ToolStatus
  <2>14. ASSUME phase = "running", attempt' = attempt + 1, attempt <= Retries,
                UNCHANGED <<phase, remaining>>
         PROVE  Down
    <3> DEFINE m == Cardinality(remaining) * PerStep
    <3>1. StepsLeft = m + 1 - attempt /\ StepsLeft' = m + 1 - (attempt + 1)
      BY <2>14, <2>1 DEF StepsLeft
    <3>2. m \in Nat /\ m >= PerStep /\ attempt \in 0..(Retries + 1)
      BY <2>6, <2>7, <2>14
    <3> HIDE DEF m
    <3>3. QED
      BY <3>1, <3>2, <2>1, <2>14
  <2>15. ASSUME StartStep PROVE Down
    BY <2>1, <2>14, <2>15 DEF StartStep
  <2>16. ASSUME Attempt PROVE Down
    <3>1. phase = "running"
      BY <2>16 DEF Attempt
    <3>2. CASE \E status \in ToolStatus, hits \in Hits \cup {<<>>} : Conclude(status, hits)
      BY <1>1, <3>1, <3>2, ConcludeRunsDown
    <3>3. CASE /\ attempt <= Retries /\ attempt' = attempt + 1
               /\ UNCHANGED <<phase, remaining, wave, results, outcome>>
      BY <2>14, <3>1, <3>3
    <3>4. QED
      BY <2>16, <3>2, <3>3, AttemptEither
  <2>17. ASSUME Compose PROVE Down
    BY <2>17 DEF Compose, StepsLeft
  <2>18. ASSUME LateAnswer PROVE StepsLeft' = StepsLeft
    BY <2>18, <2>1 DEF LateAnswer, StepsLeft
  <2>19. CASE RunStep
    <3>1. Down
      BY <2>19, <2>9, <2>10, <2>11, <2>12, <2>13, <2>15, <2>16, <2>17 DEF RunStep
    <3>2. QED
      BY <3>1, <2>18
  <2>20. CASE LateAnswer /\ ~RunStep
    BY <2>8, <2>18, <2>20
  <2>21. QED
    BY <1>1, <2>19, <2>20 DEF Next
<1>2. QED
  BY <1>1, ShortKept, PTL DEF Spec, RunsDown
=============================================================================
