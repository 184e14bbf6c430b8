---------------------------- MODULE CuratorSweep ----------------------------
(***************************************************************************)
(* What a curator run does with the issues it finds: the two passes of     *)
(* _run_pipeline_two_pass, each a collect, a triage by priority and a      *)
(* dispatch under a budget of LLM calls that both share with the hook that *)
(* started the run, and the report at the end; run after run, while new    *)
(* issues appear.                                                          *)
(*                                                                         *)
(* An issue is what a collector would find; how it is found and fixed is   *)
(* other modules' business (CuratorDesign for the design files).  Here a   *)
(* handler succeeds or fails, and costs one LLM call or none.              *)
(***************************************************************************)
EXTENDS Integers, FiniteSets

CONSTANTS
    Hash, Graph,    \* the issues of the two layers
    Rank,           \* the order of triage, the highest first
    LLM,            \* those whose handler calls the LLM
    Lasting,        \* that are still there when they have been handled
    Gated,          \* that the autonomy leaves to a human
    Proposed,       \* deprecations among them: a signal proposes them
    Beside,         \* the hash issues in the directory of that signal
    Reliable,       \* whose handler does not fail
    MaxCalls,       \* curator.max_llm_calls_per_run
    HashCap,        \* int(MaxCalls * 0.7), the share of the hash pass
    MaxNews         \* bound on the issues that appear

Issues == Hash \cup Graph

ASSUME IssueAssumption ==
    /\ IsFiniteSet(Issues) /\ Hash \cap Graph = {}
    /\ Rank \in [Issues -> Nat]
    /\ \A i, j \in Issues : Rank[i] = Rank[j] => i = j
ASSUME KindAssumption ==
    /\ LLM \subseteq Issues
    /\ Lasting \subseteq Issues
    /\ Gated \subseteq Issues /\ Proposed \subseteq Gated \cap Graph
    /\ Beside \in [Proposed -> SUBSET Hash]
    /\ Reliable \subseteq Issues
(* In binary floating point 0.7 * 90, say, is less than 63.                *)
ASSUME BoundAssumption ==
    /\ MaxCalls \in Nat \ {0} /\ MaxNews \in Nat
    /\ HashCap \in Nat
    /\ \/ HashCap = (7 * MaxCalls) \div 10
       \/ MaxCalls % 10 = 0 /\ HashCap = (7 * MaxCalls) \div 10 - 1

VARIABLES
    open,       \* the issues there are
    signals,    \* the proposals whose signal is active
    news,       \* how many issues have appeared
    phase,      \* where the run is: in a pass, or before its report
    dry,        \* --dry-run
    queue,      \* what the pass has collected and not yet dispatched
    outcome,    \* what became of an issue in this run
    used,       \* llm_calls_used of the pass
    charged,    \* pre_charged_llm_calls
    \* history
    hook,       \* the run's first charge, by the hook that started it
    spent       \* calls charged in this run

run == <<phase, dry, queue, outcome, used, charged>>
history == <<hook, spent>>
sweepVars == <<open, signals, news, run, history>>

Outcome == {"none", "over_budget", "gated", "dry_run", "done", "failed"}

SweepTypeOK ==
    /\ open \subseteq Issues
    /\ signals \subseteq Proposed
    /\ news \in Nat
    /\ phase \in {"idle", "hash", "graph", "report"}
    /\ dry \in BOOLEAN
    /\ queue \subseteq Issues
    /\ phase = "hash" => queue \subseteq Hash
    /\ phase = "graph" => queue \subseteq Graph
    /\ outcome \in [Issues -> Outcome]
    /\ used \in Nat /\ charged \in Nat
    /\ hook \in {0, 1} /\ spent \in Nat

SweepInit ==
    /\ open = {} /\ signals = {} /\ news = 0
    /\ phase = "idle" /\ dry = FALSE /\ queue = {}
    /\ outcome = [i \in Issues |-> "none"]
    /\ used = 0 /\ charged = 0
    /\ hook = 0 /\ spent = 0

-----------------------------------------------------------------------------
(* Between and during runs                                                 *)

Appear(i) ==
    /\ i \notin open /\ news < MaxNews
    /\ open' = open \cup {i}
    /\ news' = news + 1
    /\ UNCHANGED <<signals, run, history>>

(* A signal is consumed, or older than iwh.ttl_hours.                      *)
Expire(p) ==
    /\ p \in signals
    /\ signals' = signals \ {p}
    /\ UNCHANGED <<open, news, run, history>>

-----------------------------------------------------------------------------
(* A run                                                                   *)

(* Mutant of Cap: the shares of the two passes confused.                   *)
SharesSwapped == IF phase = "hash" THEN MaxCalls - HashCap ELSE MaxCalls

Cap == IF phase = "hash" THEN HashCap ELSE MaxCalls

Isolated == UNION {Beside[p] : p \in signals}

Seeded(charge) == charge

(* The results of the hook's update_file: skipped or refused (conflict     *)
(* markers, an unreadable source, an invalid author), the hashes of an     *)
(* agent's file refreshed, an answer discarded because the design was      *)
(* edited meanwhile, a skeleton for a file over the size gate, a           *)
(* regeneration or an error of the LLM, an exception.                      *)
Result(change, refused, raised) ==
    [change |-> change, refused |-> refused, raised |-> raised]
NoBootstrap == Result("UNCHANGED", TRUE, FALSE)
Bootstraps ==
    {NoBootstrap, Result("CONTENT_CHANGED", TRUE, FALSE), Result("AGENT_UPDATED", FALSE, FALSE),
     Result("NEW_FILE", FALSE, FALSE), Result("CONTENT_CHANGED", FALSE, FALSE),
     Result("none", FALSE, TRUE)}

HookCharge(r) ==
    IF r.raised \/ r.refused \/ r.change \in {"UNCHANGED", "AGENT_UPDATED"} THEN 0 ELSE 1

Collected(layer) == open \cap layer

Start(r, d) ==
    /\ phase = "idle"
    /\ phase' = "hash" /\ dry' = d
    /\ queue' = Collected(Hash) \ Isolated
    /\ outcome' = [i \in Issues |-> "none"]
    /\ charged' = Seeded(HookCharge(r))
    /\ used' = charged'
    /\ hook' = HookCharge(r) /\ spent' = HookCharge(r)
    /\ UNCHANGED <<open, signals, news>>

(* Mutant: sort without reverse.                                           *)
LowestFirst(i) == i \in queue /\ \A j \in queue : Rank[i] <= Rank[j]

First(i) == i \in queue /\ \A j \in queue : Rank[j] <= Rank[i]

Dispatching(i) == phase \in {"hash", "graph"} /\ First(i)

Conclude(i, result) ==
    /\ queue' = queue \ {i}
    /\ outcome' = [outcome EXCEPT ![i] = result]
    /\ UNCHANGED <<phase, dry, charged>>

(* Mutant: the check comes a call late.                                    *)
OverspentByOne == used > Cap

Overspent == used >= Cap

(* Items that cost nothing are deferred too once the budget is used up.    *)
DeferOverBudget(i) ==
    /\ Dispatching(i) /\ Overspent
    /\ Conclude(i, "over_budget")
    /\ UNCHANGED <<open, signals, news, used, history>>

DeferGated(i) ==
    /\ Dispatching(i) /\ ~Overspent /\ i \in Gated
    /\ signals' = IF i \in Proposed THEN signals \cup {i} ELSE signals
    /\ Conclude(i, "gated")
    /\ UNCHANGED <<open, news, used, history>>

DryRun(i) ==
    /\ Dispatching(i) /\ ~Overspent /\ i \notin Gated
    /\ dry
    /\ Conclude(i, "dry_run")
    /\ UNCHANGED <<open, signals, news, used, history>>

Charge(calls) == used' = used + calls /\ spent' = spent + calls /\ UNCHANGED hook

Succeed(i) ==
    /\ Dispatching(i) /\ ~Overspent /\ i \notin Gated
    /\ ~dry
    /\ open' = IF i \in Lasting THEN open ELSE open \ {i}
    /\ Charge(IF i \in LLM THEN 1 ELSE 0)
    /\ Conclude(i, "done")
    /\ UNCHANGED <<signals, news>>

(* Before the call, after it, or in it: some handlers then report no call, *)
(* although one was made.                                                  *)
Fail(i) ==
    /\ Dispatching(i) /\ ~Overspent /\ i \notin Gated
    /\ ~dry /\ i \notin Reliable
    /\ Charge(0) \/ (i \in LLM /\ Charge(1))
    /\ Conclude(i, "failed")
    /\ UNCHANGED <<open, signals, news>>

(* Mutant of Carried: the graph pass starts from the hook's charge again.  *)
NotCarried == charged

Carried == used

(* The hash pass hands its use of the budget on to the graph pass.         *)
EndHash ==
    /\ phase = "hash" /\ queue = {}
    /\ phase' = "graph"
    /\ queue' = Collected(Graph)
    /\ charged' = Carried
    /\ used' = charged'
    /\ UNCHANGED <<open, signals, news, dry, outcome, history>>

EndGraph ==
    /\ phase = "graph" /\ queue = {}
    /\ phase' = "report"
    /\ UNCHANGED <<open, signals, news, dry, queue, outcome, used, charged, history>>

Report ==
    /\ phase = "report"
    /\ phase' = "idle"
    /\ UNCHANGED <<open, signals, news, dry, queue, outcome, used, charged, history>>

Dispatch(i) ==
    DeferOverBudget(i) \/ DeferGated(i) \/ DryRun(i) \/ Succeed(i) \/ Fail(i)

Pipeline == EndHash \/ EndGraph \/ Report \/ \E i \in Issues : Dispatch(i)

SweepNext ==
    \/ \E i \in Issues : Appear(i)
    \/ \E p \in Proposed : Expire(p)
    \/ \E r \in Bootstraps, d \in BOOLEAN : Start(r, d)
    \/ Pipeline

SweepSpec == SweepInit /\ [][SweepNext]_sweepVars

(* A run goes on to its end, and among the runs are ever again some that   *)
(* are for real and start with the whole budget.                           *)
SweepFairness == WF_sweepVars(Pipeline) /\ SF_sweepVars(Start(NoBootstrap, FALSE))

LiveSweepSpec == SweepSpec /\ SweepFairness

-----------------------------------------------------------------------------
(* Properties                                                              *)

(* However the two passes and the hook divide it, a run charges no more    *)
(* than max_llm_calls_per_run.                                             *)
BudgetKept == spent <= MaxCalls

(* The hash pass leaves the graph pass its 30%: it stops at 70% of the     *)
(* budget, or makes no call at all.                                        *)
GraphShareKept == phase = "hash" => used <= HashCap \/ used = hook

(* No issue is put off for want of budget while one of the same pass that  *)
(* ranks lower is handled.                                                 *)
Handled == {"dry_run", "done", "failed"}
NoInversion ==
    \A layer \in {Hash, Graph} : \A i, j \in layer :
        outcome[i] = "over_budget" /\ outcome[j] \in Handled => Rank[i] < Rank[j]

(* An issue that can be fixed is fixed in the end, if those that come back *)
(* in every run leave a part of the budget and no proposal stands in the   *)
(* issue's directory.                                                      *)
Standing == (LLM \ Gated) \cap (Lasting \cup (Issues \ Reliable))
Affordable == Cardinality(Standing \cap Hash) < HashCap /\ Cardinality(Standing) < MaxCalls
Served ==
    Affordable =>
        \A i \in (Reliable \ (Gated \cup Lasting)) \ UNION {Beside[p] : p \in Proposed} :
            i \in open ~> i \notin open
=============================================================================
