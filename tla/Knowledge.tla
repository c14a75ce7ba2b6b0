----------------------------- MODULE Knowledge -----------------------------
(***************************************************************************)
(* What the world knows, what she came to know, and her searches           *)
(* (src/app/knowledge/, src/app/runtime/knowledge.py, src/app/epistemics/, *)
(* src/app/tools/ and their repositories).                                 *)
(*                                                                         *)
(* The clock runs first through a simulated past, [0, PeriodEnd), whose    *)
(* knowledge is planned before any of it is lived and is exposed to her    *)
(* block by block, and then through ordinary life, in which a gap may send *)
(* her to search.  One handler runs at a time; each of its writes is a     *)
(* commit of its own, and the process may stop between two of them.        *)
(***************************************************************************)
EXTENDS Integers, Sequences, FiniteSets, SequencesExt

CONSTANTS
  Statement, Gap,
  From, Until,        \* what a bundle says of each statement: when it was public
  PeriodEnd,          \* the end of the simulated past
  CoverageWindow,     \* the length of one coverage request
  Leaning,            \* of each gap: the epistemic actions that score, best first
  RetryAfter,         \* retry_after_failure_hours
  ExposuresPerBlock,  \* exposures_per_block
  MaxMoment, MaxSearches, MaxKnowledgeStops   \* bounds

VARIABLES
  clockTime,     \* the moment: simulated, then real
  layer,         \* external_knowledge: the row of each statement, if it has one
  acquired,      \* knowledge_acquisitions
  noted,         \* the statements of her semantic memories
  coverageJobs,  \* historical_coverage_jobs
  gaps,          \* knowledge_gaps
  calls,         \* tool_calls, in order
  searches,      \* search_calls
  doing,         \* the handler in flight
  knowledgeStops

knowledgeVars == <<clockTime, layer, acquired, noted, coverageJobs, gaps, calls,
                   searches, doing, knowledgeStops>>

Always == 99                       \* available_until IS NULL
NoItem == [from |-> -1, until |-> -1]
Nothing == [at |-> "idle"]
Unknown == -1                      \* a result whose date nobody can say

KnowledgeInit ==
  /\ clockTime = 0
  /\ layer = [s \in Statement |-> NoItem]
  /\ acquired = {} /\ noted = {} /\ coverageJobs = {}
  /\ gaps = [g \in Gap |-> [status |-> "none", action |-> ""]]
  /\ calls = <<>> /\ searches = {}
  /\ doing = [at |-> "planning", start |-> 0]
  /\ knowledgeStops = 0

Registered(s) == layer[s] # NoItem

ExistedAt(s, t) ==
  /\ Registered(s) /\ t >= layer[s].from
  /\ layer[s].until # Always => t < layer[s].until

---------------------------------------------------------------------------
(* Coverage: one request per window, planned before the past is lived.     *)

\* A short remainder of the period is folded into the last window.
WindowEnd(start) ==
  IF PeriodEnd - (start + CoverageWindow) < CoverageWindow \div 2 \/ start + CoverageWindow > PeriodEnd
  THEN PeriodEnd ELSE start + CoverageWindow

\* A bundle offers only what was public at some moment of the window.
Offered(start) ==
  {s \in Statement : From[s] < WindowEnd(start) /\ (Until[s] = Always \/ Until[s] > start)}

PlanWindow ==
  /\ doing.at = "planning"
  /\ LET missing == {s \in Offered(doing.start) : ~Registered(s)}
         job == [start |-> doing.start, status |-> "pending"]
     IN IF doing.start >= PeriodEnd
        THEN doing' = Nothing /\ UNCHANGED coverageJobs
        ELSE IF missing = {}      \* a claim already in the layer needs no second job
        THEN doing' = [doing EXCEPT !.start = WindowEnd(doing.start)] /\ UNCHANGED coverageJobs
        ELSE /\ coverageJobs' = coverageJobs \cup {job}
             /\ doing' = [at |-> "fulfil", start |-> doing.start, left |-> missing]
  /\ UNCHANGED <<clockTime, layer, acquired, noted, gaps, calls, searches, knowledgeStops>>

\* An entry that ends before it begins is not an item: the error leaves
\* planning altogether, and the job pending.
Incoherent(s) == Until[s] # Always /\ Until[s] <= From[s]

RegisterNext ==
  /\ doing.at = "fulfil" /\ doing.left # {}
  /\ \E s \in doing.left :
       IF Incoherent(s)
       THEN doing' = Nothing /\ UNCHANGED layer
       ELSE /\ layer' = [layer EXCEPT ![s] = [from |-> From[s], until |-> Until[s]]]
            /\ doing' = [doing EXCEPT !.left = @ \ {s}]
  /\ UNCHANGED <<clockTime, acquired, noted, coverageJobs, gaps, calls, searches,
                 knowledgeStops>>

CompleteJob ==
  /\ doing.at = "fulfil" /\ doing.left = {}
  /\ coverageJobs' = {IF j = [start |-> doing.start, status |-> "pending"]
                      THEN [j EXCEPT !.status = "completed"] ELSE j : j \in coverageJobs}
  /\ doing' = [at |-> "planning", start |-> WindowEnd(doing.start)]
  /\ UNCHANGED <<clockTime, layer, acquired, noted, gaps, calls, searches, knowledgeStops>>

---------------------------------------------------------------------------
(* Exposure: the guard, the funnel, a semantic memory, an acquisition.     *)

\* Mutant: whatever the layer holds can be exposed at any moment.
GuardPresence(s, t) == Registered(s)

Guard(s, t) == ExistedAt(s, t)

Known == {a.what : a \in acquired}

\* INSERT OR IGNORE: one acquisition of an item at a moment.
Acquire(s, t, origin) ==
  acquired' = IF \E a \in acquired : a.what = s /\ a.at = t THEN acquired
              ELSE acquired \cup {[what |-> s, at |-> t, origin |-> origin]}

\* What is available and new comes first; repeats fill what is left.
Selected ==
  LET pool == {s \in Statement : ExistedAt(s, clockTime)}
      fresh == pool \ Known
      size == IF Cardinality(pool) < ExposuresPerBlock THEN Cardinality(pool)
              ELSE ExposuresPerBlock
  IN {c \in SUBSET pool : /\ Cardinality(c) = size
                          /\ c \cap Known # {} => fresh \subseteq c}

LiveBlock ==
  /\ doing.at = "idle" /\ clockTime < PeriodEnd
  /\ \E c \in Selected :
       doing' = [at |-> "exposing", left |-> c, note |-> {}, moment |-> clockTime,
                 origin |-> "simulated_past"]
  /\ UNCHANGED <<clockTime, layer, acquired, noted, coverageJobs, gaps, calls, searches,
                 knowledgeStops>>

\* One exposure of the batch: refused by the guard (in a block that ends the
\* batch, in a search only this result), unnoticed, or on its way to be kept.
Expose ==
  /\ doing.at \in {"exposing", "absorbing"} /\ doing.note = {} /\ doing.left # {}
  /\ \E s \in doing.left :
       IF ~Guard(s, doing.moment)
       THEN /\ doing' = [doing EXCEPT !.left = IF doing.at = "exposing" THEN {} ELSE @ \ {s}]
            /\ UNCHANGED noted
       ELSE \/ doing' = [doing EXCEPT !.left = @ \ {s}] /\ UNCHANGED noted
            \/ /\ noted' = noted \cup {s}
               /\ doing' = [doing EXCEPT !.left = @ \ {s}, !.note = {s}]
  /\ UNCHANGED <<clockTime, layer, acquired, coverageJobs, gaps, calls, searches,
                 knowledgeStops>>

Keep ==
  /\ doing.at \in {"exposing", "absorbing"} /\ doing.note # {}
  /\ \E s \in doing.note : Acquire(s, doing.moment, doing.origin)
  /\ doing' = IF doing.at = "absorbing"
              THEN [doing EXCEPT !.note = {}, !.learned = @ + 1]
              ELSE [doing EXCEPT !.note = {}]
  /\ UNCHANGED <<clockTime, layer, noted, coverageJobs, gaps, calls, searches, knowledgeStops>>

EndBlock ==
  /\ doing.at = "exposing" /\ doing.left = {} /\ doing.note = {}
  /\ doing' = Nothing /\ clockTime' = clockTime + 1
  /\ UNCHANGED <<layer, acquired, noted, coverageJobs, gaps, calls, searches, knowledgeStops>>

---------------------------------------------------------------------------
(* A gap, the decision about it, and the search it may lead to.            *)

RaiseGap ==
  /\ clockTime >= PeriodEnd
  /\ \E g \in Gap : /\ gaps[g].status = "none"
                    /\ gaps' = [gaps EXCEPT ![g].status = "open"]
  /\ UNCHANGED <<clockTime, layer, acquired, noted, coverageJobs, calls, searches, doing,
                 knowledgeStops>>

SearchAllowed(failedAt) == failedAt = Unknown \/ clockTime - failedAt >= RetryAfter

Select(g, failedAt) ==
  LET open == SelectSeq(Leaning[g], LAMBDA a : a = "web_search" => SearchAllowed(failedAt))
  IN IF open = <<>> THEN "ignore" ELSE Head(open)

\* The decision passes the selector the gap and nothing else.
Decision(g) == Select(g, Unknown)

OpenGaps == {g \in Gap : gaps[g].status = "open"}

\* An open gap (three are offered at a time) is decided upon: a search becomes
\* a candidate, any other decision is only written down, and "ignore" or
\* "avoid" closes the gap.
Consider ==
  /\ doing.at = "idle" /\ clockTime >= PeriodEnd
  /\ \E g \in OpenGaps :
       /\ gaps' = [gaps EXCEPT ![g] =
                    [status |-> IF Decision(g) \in {"ignore", "avoid"} THEN Decision(g) ELSE "open",
                     action |-> Decision(g)]]
       /\ doing' = IF Decision(g) = "web_search" THEN [at |-> "chosen", gap |-> g] ELSE Nothing
  /\ UNCHANGED <<clockTime, layer, acquired, noted, coverageJobs, calls, searches,
                 knowledgeStops>>

\* Another candidate wins, or a shadowed search stops before the provider is
\* called: the gap stays open.
NotPursued ==
  /\ doing.at = "chosen" /\ doing' = Nothing
  /\ UNCHANGED <<clockTime, layer, acquired, noted, coverageJobs, gaps, calls, searches,
                 knowledgeStops>>

CallTool ==
  /\ doing.at = "chosen" /\ Len(calls) < MaxSearches
  /\ calls' = Append(calls, [gap |-> doing.gap, at |-> clockTime, status |-> "running"])
  /\ doing' = [at |-> "calling", gap |-> doing.gap, moment |-> clockTime]
  /\ UNCHANGED <<clockTime, layer, acquired, noted, coverageJobs, gaps, searches,
                 knowledgeStops>>

\* The gate: a result is usable when it is known to be old enough.
RejectTheFuture(results, t) ==
  {r \in results : r.known # Unknown /\ r.known <= t}

CallSettles(status) ==
  calls' = [calls EXCEPT ![Len(calls)].status = status]

\* What came back is stored unless the layer has the statement already.
ToolAnswers ==
  /\ doing.at = "calling"
  /\ \E s \in Statement, t \in {Unknown, 0, doing.moment, doing.moment + 1} :
     \E results \in {{}, {[what |-> s, known |-> t]}} :
       LET usable == RejectTheFuture(results, doing.moment)
           new == {r \in usable : ~Registered(r.what)}
       IN /\ layer' = [x \in Statement |->
                        IF \E r \in new : r.what = x
                        THEN [from |-> t, until |-> Always] ELSE layer[x]]
          /\ doing' = [at |-> "absorbing", gap |-> doing.gap, moment |-> doing.moment,
                       left |-> {r.what : r \in usable}, note |-> {}, learned |-> 0,
                       origin |-> "real_discord", outcome |->
                         IF results = {} THEN "no_results" ELSE "success"]
  /\ CallSettles("succeeded")
  /\ UNCHANGED <<clockTime, acquired, noted, coverageJobs, gaps, searches, knowledgeStops>>

ToolFails ==
  /\ doing.at = "calling"
  /\ CallSettles("failed")
  /\ doing' = [at |-> "absorbing", gap |-> doing.gap, moment |-> doing.moment, left |-> {},
               note |-> {}, learned |-> 0, origin |-> "real_discord", outcome |-> "timeout"]
  /\ UNCHANGED <<clockTime, layer, acquired, noted, coverageJobs, gaps, searches,
                 knowledgeStops>>

\* The search is announced - a run for it and one for each thing learned - and
\* only then recorded.
RecordSearch ==
  /\ doing.at = "absorbing" /\ doing.left = {} /\ doing.note = {}
  /\ searches' = searches \cup {[gap |-> doing.gap, at |-> doing.moment, call |-> Len(calls),
                                 outcome |-> doing.outcome, acquired |-> doing.learned]}
  /\ doing' = [at |-> "closing", gap |-> doing.gap, learned |-> doing.learned]
  /\ UNCHANGED <<clockTime, layer, acquired, noted, coverageJobs, gaps, calls, knowledgeStops>>

\* Mutant: a search that ran is taken for an answer.
AnsweredByAnySearch(learned) == TRUE

Answered(learned) == learned > 0

CloseGap ==
  /\ doing.at = "closing"
  /\ gaps' = IF Answered(doing.learned)
             THEN [gaps EXCEPT ![doing.gap].status = "answered"] ELSE gaps
  /\ doing' = Nothing
  /\ UNCHANGED <<clockTime, layer, acquired, noted, coverageJobs, calls, searches,
                 knowledgeStops>>

---------------------------------------------------------------------------
\* Between blocks the past moves on by itself; ordinary time does whenever it
\* likes, a search in flight included.
KnowledgeTime ==
  /\ clockTime >= PeriodEnd /\ clockTime < MaxMoment
  /\ clockTime' = clockTime + 1
  /\ UNCHANGED <<layer, acquired, noted, coverageJobs, gaps, calls, searches, doing,
                 knowledgeStops>>

\* The process stops, or an exception leaves the handler: what was written
\* stays, and nothing takes the handler up again.  (A past that stops half-way
\* is not gone on with: its database is left behind.)
KnowledgeStop ==
  /\ doing.at # "idle" /\ clockTime >= PeriodEnd
  /\ knowledgeStops < MaxKnowledgeStops
  /\ doing' = Nothing /\ knowledgeStops' = knowledgeStops + 1
  /\ UNCHANGED <<clockTime, layer, acquired, noted, coverageJobs, gaps, calls, searches>>

KnowledgeNext ==
  \/ PlanWindow \/ RegisterNext \/ CompleteJob
  \/ LiveBlock \/ Expose \/ Keep \/ EndBlock
  \/ RaiseGap \/ Consider \/ NotPursued \/ CallTool \/ ToolAnswers \/ ToolFails
  \/ RecordSearch \/ CloseGap \/ KnowledgeTime \/ KnowledgeStop

KnowledgeSpec == KnowledgeInit /\ [][KnowledgeNext]_knowledgeVars

---------------------------------------------------------------------------
\* Nothing she knows is hindsight: whatever she acquired was public at the
\* moment she acquired it, whichever of the simulated past and the searches it
\* came from, and whichever of the two put it in the layer (the guard of
\* knowledge/temporal.py and the gate of knowledge/search.py together).
NothingFromTheFuture == \A a \in acquired : ExistedAt(a.what, a.at)

\* A gap counts as answered only by a recorded search of it that taught her
\* something and whose tool call is on record as having succeeded, wherever a
\* search stopped half-way (InvestigationService.investigate).
AnswersAreAccountedFor ==
  \A g \in Gap : gaps[g].status = "answered" =>
    \E s \in searches : /\ s.gap = g /\ s.acquired > 0
                        /\ calls[s.call].status = "succeeded"

=============================================================================
