--------------------------- MODULE PolicyEngine ---------------------------
(***************************************************************************)
(* The interpreting policy engine (pkg/policy/engine) over a FileSource:   *)
(* requests are evaluated against a snapshot of the installed policies     *)
(* while the watcher goroutine and callers of ReloadPolicies load the      *)
(* files, one after the other, and install what they read, and while the   *)
(* files are edited.                                                       *)
(*                                                                         *)
(* A policy is a record [name, tag, rules]; `tag` is the priority its      *)
(* first recognised tag stands for, 0 for none.  A rule is a record        *)
(* [name, enabled, priority, cond, actions]; names are numbers, in the     *)
(* order of the strings they stand for.  A request is a function from      *)
(* fields to what comparing that field gives: "yes", "no", "missing"       *)
(* (extractField fails) or "error" (the operator cannot be applied).       *)
(***************************************************************************)
EXTENDS Naturals, FiniteSets, Sequences, SequencesExt

CONSTANTS Contents,      \* the policies each file may hold, named apart
          Absent, Broken,\* no such file; a file that does not parse
          Conditions,    \* the conditions of the policies, with their children
          Evaluators, Callers,
          DefaultAction, MaxPolicies, MaxRulesPerPolicy,
          Setups         \* the engines and surroundings to consider: see Setup

None == "none"
Watcher == "watcher"
Policies == UNION {Contents[f] : f \in DOMAIN Contents}
Reloaders == Callers \cup {Watcher}

\* dir: the configured path is a directory; notifies: the source sends an event
\* for each change, as PolicySource.Watch promises (the channel of FileSource
\* exists, but nothing is ever sent on it); modes: the fail-safe modes; callers: who calls
\* ReloadPolicies; edits and calls bound the edits and the calls.  A setup
\* also has the requests that are evaluated.  walk: the files in the order in
\* which filepath.Walk visits them.
Setup == [walk : Seq(DOMAIN Contents), dir : BOOLEAN, notifies : BOOLEAN,
          callers : SUBSET Callers,
          modes : SUBSET {"fail-open", "fail-closed", "fail-safe-default"},
          edits : Nat, calls : Nat]

\* A sequence over its own elements.
IsSeq(s) == s \in Seq(ToSet(s))

ASSUME EngineAssumptions ==
  /\ Absent \notin Policies /\ Broken \notin Policies /\ Watcher \notin Callers
  /\ DefaultAction \in {"allow", "block"}
  /\ \A s \in Setups : /\ [x \in DOMAIN s \ {"requests"} |-> s[x]] \in Setup
                       /\ "requests" \in DOMAIN s

\* Names settle which of two with the same priority comes first: the rules of a
\* policy have different names (the validator reports others, the engine does not
\* look), and so have the policies of different files.  With equal names the order
\* of the code's sort is any.
ASSUME PolicyAssumptions ==
  /\ \A p \in Policies :
       /\ p = [name |-> p.name, tag |-> p.tag, rules |-> p.rules]
       /\ p.name \in Nat /\ p.tag \in Nat /\ IsSeq(p.rules)
       /\ \A r \in ToSet(p.rules) : r.name \in Nat /\ r.priority \in Nat /\ IsSeq(r.actions)
       /\ \A r, s \in ToSet(p.rules) : r.name = s.name => r = s
  /\ \A f, g \in DOMAIN Contents : f # g => \A p \in Contents[f], q \in Contents[g] : p.name # q.name

VARIABLES
  setup,     \* which of Setups, never changed
  mode,      \* config.FailSafeMode
  files,     \* the content of each file
  policies,  \* e.policies: the installed sequence
  reload,    \* the reload each reloader performs
  events,    \* changes the source has not yet delivered to the watcher
  closing,   \* "no", then "waiting" once stopCh is closed, then "done"
  eval,      \* the evaluation each evaluator performs
  edits, calls,
  installed, \* history: the policies installed since each evaluation began
  fresh,     \* history: a reload that began after the last edit has read all files and succeeded
  held       \* history: what reading each file could give since a reload began
Files == ToSet(setup.walk)
vars == <<setup, mode, files, policies, reload, events, closing, eval, edits, calls, installed, fresh, held>>
----------------------------------------------------------------------------
(* Priorities.                                                             *)

High == 100
Medium == 50
Low == 10
BlockingTypes == {"deny", "rate_limit", "budget"}
Types(rule) == {rule.actions[i].type : i \in DOMAIN rule.actions}

ByActions(types) == IF types \cap BlockingTypes # {} THEN High
                    ELSE IF "route" \in types THEN Medium ELSE Low

GetPolicyPriority(p) ==
  IF p.tag # 0 THEN p.tag
  ELSE ByActions(UNION {Types(r) : r \in {r \in ToSet(p.rules) : r.enabled}})

GetRulePriority(r) == IF r.priority # 0 THEN r.priority ELSE ByActions(Types(r))

PolicyBefore(p, q) == \/ GetPolicyPriority(p) > GetPolicyPriority(q)
                      \/ GetPolicyPriority(p) = GetPolicyPriority(q) /\ p.name < q.name

RuleBefore(r, s) == \/ GetRulePriority(r) > GetRulePriority(s)
                    \/ GetRulePriority(r) = GetRulePriority(s) /\ r.name < s.name

\* The elements of S as the pairs of R order them: each at the place the number
\* of those before it gives.
InOrder(S, R) == [k \in 1..Cardinality(S) |-> CHOOSE x \in S : Cardinality({y \in S : <<y, x>> \in R}) = k - 1]

SortRulesByPriority(rules) ==
  LET S == ToSet(rules) IN InOrder(S, {x \in S \X S : RuleBefore(x[1], x[2])})

NormalizePolicyPriorities(ps) ==
  LET S == {[p EXCEPT !.rules = SortRulesByPriority(@)] : p \in ps}
  IN  InOrder(S, {x \in S \X S : PolicyBefore(x[1], x[2])})

EnabledRules(p) ==
  LET on == {i \in DOMAIN p.rules : p.rules[i].enabled}
      at == InOrder(on, {x \in on \X on : x[1] < x[2]})
  IN  [k \in 1..Cardinality(on) |-> p.rules[at[k]]]

ValidPolicies(ps) == /\ Cardinality(ps) <= MaxPolicies
                     /\ \A p \in ps : Len(p.rules) <= MaxRulesPerPolicy
----------------------------------------------------------------------------
(* Matching: "yes", "no" or "error".                                       *)

matchSimple(v, failSafe) ==
  CASE v = "missing" /\ failSafe = "fail-open" -> "yes"
    [] v = "missing" /\ failSafe = "fail-closed" -> "error"
    [] v = "missing" /\ failSafe = "fail-safe-default" -> "no"
    [] OTHER -> v

\* The result of the first child in `decided`, or else `otherwise`.
FirstOf(results, decided, otherwise) ==
  LET hits == SelectSeq(results, LAMBDA v : v \in decided)
  IN  IF hits = <<>> THEN otherwise ELSE Head(hits)

matchAll(results) == FirstOf(results, {"no", "error"}, "yes")
matchAny(results) == FirstOf(results, {"yes", "error"}, "no")
matchNot(result) == CASE result = "yes" -> "no" [] result = "no" -> "yes" [] OTHER -> "error"
\* An analysis that is not there counts as a negative one; a function that
\* nobody knows is an error.
matchFunction(fn, q) == IF fn \notin DOMAIN q THEN "error" ELSE IF q[fn] = "yes" THEN "yes" ELSE "no"

Match(q, failSafe) ==
  LET m[c \in Conditions] ==
        CASE c.type = "none" -> "yes"
          [] c.type = "simple" -> matchSimple(q[c.field], failSafe)
          [] c.type = "all" -> matchAll([i \in DOMAIN c.children |-> m[c.children[i]]])
          [] c.type = "any" -> matchAny([i \in DOMAIN c.children |-> m[c.children[i]]])
          [] c.type = "not" -> matchNot(m[c.children[1]])
          [] c.type = "function" -> matchFunction(c.field, q)
          [] OTHER -> "error"
  IN  m

\* Only the loops over children look at the deadline of the rule, at the top or
\* under a negation (under another loop, that one has looked already).
ChecksDeadline(c) ==
  LET d[x \in Conditions] == x.type \in {"all", "any"} \/ (x.type = "not" /\ d[x.children[1]])
  IN  d[c]
----------------------------------------------------------------------------
(* Executing actions on the evaluation context.                            *)

NewContext == [stopped |-> FALSE, block |-> FALSE, route |-> None, effects |-> {}, matched |-> {}]

executeAllow(ctx) == [ctx EXCEPT !.stopped = TRUE]
executeDeny(ctx) == [ctx EXCEPT !.block = TRUE, !.stopped = TRUE]
executeRedact(ctx, a) == [ctx EXCEPT !.effects = @ \cup {a}]
\* Without their required parameter these fail and do nothing.
executeRoute(ctx, a) == IF a.param = None THEN ctx ELSE [ctx EXCEPT !.route = a.param]
executeModify(ctx, a) == IF a.param = None THEN ctx ELSE [ctx EXCEPT !.effects = @ \cup {a}]
executeAlert(ctx, a) == IF a.param = None THEN ctx ELSE [ctx EXCEPT !.effects = @ \cup {a}]
\* Of a tag the effect keeps the key: another one of that key replaces the value.
executeTag(ctx, a) == IF a.param = None THEN ctx ELSE [ctx EXCEPT !.effects = @ \cup {a}]

\* Only the failure of a blocking action would abort the evaluation, and those
\* never fail: deny has defaults, and rate_limit and budget are placeholders
\* that always succeed and change nothing, like log.
ExecuteOne(ctx, a) ==
  CASE a.type = "deny" -> executeDeny(ctx)
    [] a.type = "allow" -> executeAllow(ctx)
    [] a.type = "route" -> executeRoute(ctx, a)
    [] a.type = "modify" -> executeModify(ctx, a)
    [] a.type = "redact" -> executeRedact(ctx, a)
    [] a.type = "alert" -> executeAlert(ctx, a)
    [] a.type = "tag" -> executeTag(ctx, a)
    [] OTHER -> ctx

\* The loop over the actions of a rule: what the context is after n of them.
Execute(ctx, actions) ==
  LET after[n \in 0..Len(actions)] == IF n = 0 THEN ctx ELSE ExecuteOne(after[n - 1], actions[n])
  IN  after[Len(actions)]

Recorded(ctx, p, r) == [ctx EXCEPT !.matched = @ \cup {<<p.name, r.name>>}]

ActionOf(ctx) ==
  CASE ctx.block -> "block"
    [] ~ctx.block /\ ctx.route # None -> "route"
    [] ~ctx.block /\ ctx.route = None /\ \E a \in ctx.effects : a.type = "modify" -> "transform"
    [] OTHER -> "allow"

FailSafeAction == CASE mode = "fail-open" -> "allow"
                    [] mode = "fail-closed" -> "block"
                    [] mode = "fail-safe-default" -> DefaultAction

buildDecision(ctx, action) ==
  [action |-> action, route |-> IF ActionOf(ctx) = "route" THEN ctx.route ELSE None,
   effects |-> ctx.effects, matched |-> ctx.matched]
----------------------------------------------------------------------------
(* Loading: reload[w] is idle, or reads the rest of the walk; failed: the   *)
(* load failed, or it skipped a file that could not be read.               *)

Idle == [pc |-> "idle", todo |-> <<>>, got |-> <<>>, current |-> FALSE, failed |-> FALSE]
Reading == [Idle EXCEPT !.pc = "reading", !.todo = setup.walk, !.current = TRUE]
Exited == [Idle EXCEPT !.pc = "exited"]
ReloadFailed == [Idle EXCEPT !.failed = TRUE]

\* What a load of the files in `got` yields.
Loaded(got) == {got[f] : f \in DOMAIN got} \cap Policies
Current == Loaded(files)
MayHold(f) == Contents[f] \cup {Absent, Broken}

\* The history `held` begins and ends with a reload of w.
Observe(w) == held' = [held EXCEPT ![w] = [f \in Files |-> {files[f]}]]
Forget(w) == held' = [held EXCEPT ![w] = <<>>]

\* loadFile: a file that cannot be parsed is skipped in a directory, and fails
\* the load of a single file, as a missing one does.
LoadFails(content) == ~setup.dir /\ content \notin Policies

Init ==
  /\ setup \in Setups
  /\ mode \in setup.modes
  /\ files \in [Files -> Policies \cup {Absent, Broken}]
  /\ \A f \in Files : files[f] \in MayHold(f)
  /\ \A f \in Files : ~LoadFails(files[f])
  /\ ValidPolicies(Current)
  /\ policies = NormalizePolicyPriorities(Current)
  /\ reload = [w \in Reloaders |-> Idle]
  /\ events = 0 /\ closing = "no" /\ edits = 0 /\ calls = 0
  /\ eval = [e \in Evaluators |-> [pc |-> "idle"]]
  /\ installed = [e \in Evaluators |-> {}]
  /\ fresh = TRUE /\ held = [w \in Reloaders |-> <<>>]

\* Somebody edits a file (external).
Edit(f) ==
  /\ edits < setup.edits
  /\ \E c \in MayHold(f) \ {files[f]} :
       /\ files' = [files EXCEPT ![f] = c]
       /\ held' = [w \in Reloaders |-> IF reload[w].pc = "reading" THEN [held[w] EXCEPT ![f] = @ \cup {c}] ELSE held[w]]
  /\ edits' = edits + 1
  /\ events' = IF setup.notifies THEN events + 1 ELSE events
  /\ fresh' = FALSE
  /\ reload' = [w \in Reloaders |-> [reload[w] EXCEPT !.current = FALSE]]
  /\ UNCHANGED <<setup, mode, policies, closing, eval, calls, installed>>

\* ReloadPolicies called directly.
CallReload(w) ==
  /\ w \in setup.callers /\ reload[w].pc = "idle" /\ calls < setup.calls
  /\ reload' = [reload EXCEPT ![w] = Reading] /\ Observe(w)
  /\ calls' = calls + 1
  /\ UNCHANGED <<setup, mode, files, policies, events, closing, eval, edits, installed, fresh>>

\* Faulty: a burst of events is discarded as noise.
HandleEventBurst ==
  /\ reload[Watcher].pc = "idle" /\ events > 0
  /\ events' = 0
  /\ IF events > 1 THEN UNCHANGED <<reload, held>>
     ELSE reload' = [reload EXCEPT ![Watcher] = Reading] /\ Observe(Watcher)
  /\ UNCHANGED <<setup, mode, files, policies, closing, eval, edits, calls, installed, fresh>>

\* The watcher goroutine: handlePolicyEvent, or the exit when stopCh is closed;
\* with both ready, select takes either.
HandleEvent ==
  /\ reload[Watcher].pc = "idle" /\ events > 0
  /\ events' = events - 1
  /\ reload' = [reload EXCEPT ![Watcher] = Reading] /\ Observe(Watcher)
  /\ UNCHANGED <<setup, mode, files, policies, closing, eval, edits, calls, installed, fresh>>

WatcherExit ==
  /\ reload[Watcher].pc = "idle" /\ closing # "no"
  /\ reload' = [reload EXCEPT ![Watcher] = Exited]
  /\ UNCHANGED <<setup, mode, files, policies, events, closing, eval, edits, calls, installed, fresh, held>>

\* Reload w with `content` read from the next file of the walk.
Taken(w, content) ==
  LET f == Head(reload[w].todo)
      got == [g \in DOMAIN reload[w].got \cup {f} |-> IF g = f THEN content ELSE reload[w].got[g]]
  IN  [reload[w] EXCEPT !.todo = Tail(reload[w].todo), !.got = got]

\* Faulty: in a directory too, the first file that does not parse ends the walk,
\* and what was read until then is taken for everything.
ReadFileUntilBroken(w) ==
  LET content == files[Head(reload[w].todo)] IN
  /\ reload[w].pc = "reading" /\ reload[w].todo # <<>>
  /\ reload' = [reload EXCEPT ![w] = IF LoadFails(content) THEN ReloadFailed
                                     ELSE IF content = Broken THEN [Taken(w, content) EXCEPT !.todo = <<>>]
                                     ELSE Taken(w, content)]
  /\ IF LoadFails(content) THEN Forget(w) ELSE UNCHANGED held
  /\ UNCHANGED <<setup, mode, files, policies, events, closing, eval, edits, calls, installed, fresh>>

\* One file of the walk.
ReadFile(w) ==
  LET content == files[Head(reload[w].todo)] IN
  /\ reload[w].pc = "reading" /\ reload[w].todo # <<>>
  /\ reload' = [reload EXCEPT ![w] = IF LoadFails(content) THEN ReloadFailed ELSE Taken(w, content)]
  /\ IF LoadFails(content) THEN Forget(w) ELSE UNCHANGED held
  /\ UNCHANGED <<setup, mode, files, policies, events, closing, eval, edits, calls, installed, fresh>>

\* A file of a directory that cannot be read is skipped like one that does not parse.
SkipFile(w) ==
  /\ reload[w].pc = "reading" /\ reload[w].todo # <<>> /\ setup.dir
  /\ reload' = [reload EXCEPT ![w] = [[Taken(w, Broken) EXCEPT !.current = FALSE] EXCEPT !.failed = TRUE]]
  /\ held' = [held EXCEPT ![w][Head(reload[w].todo)] = @ \cup {Broken}]
  /\ fresh' = FALSE
  /\ UNCHANGED <<setup, mode, files, policies, events, closing, eval, edits, calls, installed>>

\* The walk itself fails, or reading the only file: ReloadError.
LoadError(w) ==
  /\ reload[w].pc = "reading" /\ reload[w].todo # <<>>
  /\ reload' = [reload EXCEPT ![w] = ReloadFailed] /\ Forget(w)
  /\ UNCHANGED <<setup, mode, files, policies, events, closing, eval, edits, calls, installed, fresh>>

\* The end of ReloadPolicies: what was read is validated, sorted and installed.
Install(w) ==
  LET new == Loaded(reload[w].got) IN
  /\ reload[w].pc = "reading" /\ reload[w].todo = <<>>
  /\ IF ValidPolicies(new)
       THEN /\ policies' = NormalizePolicyPriorities(new)
            /\ installed' = [e \in Evaluators |-> installed[e] \cup {NormalizePolicyPriorities(new)}]
            /\ fresh' = (fresh \/ reload[w].current)
       ELSE UNCHANGED <<policies, installed, fresh>>
  /\ reload' = [reload EXCEPT ![w] = IF ValidPolicies(new) /\ ~reload[w].failed THEN Idle ELSE ReloadFailed]
  /\ Forget(w)
  /\ UNCHANGED <<setup, mode, files, events, closing, eval, edits, calls>>

\* Close: stopCh is closed, then wg.Wait.
Close ==
  /\ closing = "no" /\ closing' = "waiting"
  /\ UNCHANGED <<setup, mode, files, policies, reload, events, eval, edits, calls, installed, fresh, held>>

\* Faulty: Close does not wait for the goroutine.
CloseReturnEarly ==
  /\ closing = "waiting" /\ closing' = "done"
  /\ UNCHANGED <<setup, mode, files, policies, reload, events, eval, edits, calls, installed, fresh, held>>

CloseReturn ==
  /\ closing = "waiting" /\ reload[Watcher].pc = "exited"
  /\ closing' = "done"
  /\ UNCHANGED <<setup, mode, files, policies, reload, events, eval, edits, calls, installed, fresh, held>>
----------------------------------------------------------------------------
(* Evaluating: eval[e] has the rest of the policies of its snapshot and    *)
(* the rest of the rules of the policy it is in.                           *)

Done(q, ctx, action, error) ==
  [pc |-> "done", request |-> q, error |-> error, decision |-> buildDecision(ctx, action)]

\* handleEvaluationError.
Failed(ev, ctx, error) == Done(ev.request, ctx, FailSafeAction, error)

\* evaluatePolicies takes its snapshot.
Evaluate(e, q) ==
  /\ eval[e].pc = "idle" /\ calls < setup.calls
  /\ eval' = [eval EXCEPT ![e] =
       IF policies = <<>> THEN Done(q, NewContext, ActionOf(NewContext), None)
       ELSE [pc |-> "policy", request |-> q, rest |-> policies, rules |-> <<>>, ctx |-> NewContext]]
  /\ installed' = [installed EXCEPT ![e] = {policies}]
  /\ calls' = calls + 1
  /\ UNCHANGED <<setup, mode, files, policies, reload, events, closing, edits, fresh, held>>

\* Faulty: the loop takes its next policy from e.policies, not from its snapshot.
NextPolicyLive(e) ==
  LET ev == eval[e]
      live == SelectSeq(policies, LAMBDA p : p.name \notin {x[1] : x \in ev.ctx.matched}) IN
  /\ ev.pc = "policy"
  /\ eval' = [eval EXCEPT ![e] =
       IF live = <<>> THEN Done(ev.request, ev.ctx, ActionOf(ev.ctx), None)
       ELSE [ev EXCEPT !.pc = "rule", !.rest = live, !.rules = EnabledRules(Head(live))]]
  /\ UNCHANGED <<setup, mode, files, policies, reload, events, closing, edits, calls, installed, fresh, held>>

\* The next policy of the snapshot, or the end of the loop.
NextPolicy(e) ==
  LET ev == eval[e] IN
  /\ ev.pc = "policy"
  /\ eval' = [eval EXCEPT ![e] =
       IF ev.rest = <<>> THEN Done(ev.request, ev.ctx, ActionOf(ev.ctx), None)
       ELSE [ev EXCEPT !.pc = "rule", !.rules = EnabledRules(Head(ev.rest))]]
  /\ UNCHANGED <<setup, mode, files, policies, reload, events, closing, edits, calls, installed, fresh, held>>

AfterRule(ev, ctx) ==
  IF ctx.stopped THEN Done(ev.request, ctx, ActionOf(ctx), None)
  ELSE [ev EXCEPT !.rules = Tail(@), !.ctx = ctx]

RuleOutcome(ev) ==
  LET p == Head(ev.rest)
      r == Head(ev.rules)
      seen == Recorded(ev.ctx, p, r)
      m == Match(ev.request, mode)[r.cond]
  IN  IF m = "error" THEN Failed(ev, seen, "condition")
      ELSE AfterRule(ev, IF m = "yes" THEN Execute(seen, r.actions) ELSE seen)

evaluateRule(e) ==
  /\ eval[e].pc = "rule" /\ eval[e].rules # <<>>
  /\ eval' = [eval EXCEPT ![e] = RuleOutcome(eval[e])]
  /\ UNCHANGED <<setup, mode, files, policies, reload, events, closing, edits, calls, installed, fresh, held>>

EndPolicy(e) ==
  /\ eval[e].pc = "rule" /\ eval[e].rules = <<>>
  /\ eval' = [eval EXCEPT ![e] = [eval[e] EXCEPT !.pc = "policy", !.rest = Tail(eval[e].rest)]]
  /\ UNCHANGED <<setup, mode, files, policies, reload, events, closing, edits, calls, installed, fresh, held>>

\* A deadline has passed where the code looks at one.
Timeout(e) ==
  /\ \/ eval[e].pc = "policy" /\ eval[e].rest # <<>>
     \/ eval[e].pc = "rule" /\ eval[e].rules # <<>> /\ ChecksDeadline(Head(eval[e].rules).cond)
  /\ eval' = [eval EXCEPT ![e] = Failed(@, @.ctx, "timeout")]
  /\ UNCHANGED <<setup, mode, files, policies, reload, events, closing, edits, calls, installed, fresh, held>>

\* The caller takes the decision.
Return(e) ==
  /\ eval[e].pc = "done"
  /\ eval' = [eval EXCEPT ![e] = [pc |-> "idle"]]
  /\ installed' = [installed EXCEPT ![e] = {}]
  /\ UNCHANGED <<setup, mode, files, policies, reload, events, closing, edits, calls, fresh, held>>

EvalNext == \E e \in Evaluators :
  \/ \E q \in setup.requests : Evaluate(e, q)
  \/ NextPolicy(e) \/ evaluateRule(e) \/ EndPolicy(e) \/ Timeout(e) \/ Return(e)

ReloadNext == \E w \in Reloaders : CallReload(w) \/ ReadFile(w) \/ SkipFile(w) \/ LoadError(w) \/ Install(w)

Next == \/ EvalNext \/ ReloadNext \/ HandleEvent \/ WatcherExit \/ Close \/ CloseReturn
        \/ \E f \in Files : Edit(f)

\* Goroutines that can go on do so; nobody has to edit, call or close, and
\* loads need not fail.
Fairness ==
  /\ WF_vars(HandleEvent) /\ WF_vars(WatcherExit) /\ WF_vars(CloseReturn)
  /\ \A w \in Reloaders : WF_vars(ReadFile(w)) /\ WF_vars(Install(w))

Spec == Init /\ [][Next]_vars
FairSpec == Spec /\ Fairness
----------------------------------------------------------------------------
(* Properties.                                                             *)

\* Every variable has its type.
TypeOK ==
  /\ setup \in Setups /\ mode \in setup.modes /\ closing \in {"no", "waiting", "done"}
  /\ \A f \in Files : files[f] \in MayHold(f)
  /\ \A i \in DOMAIN policies : \E p \in Policies : /\ p.name = policies[i].name
                                                    /\ ToSet(p.rules) = ToSet(policies[i].rules)
  /\ \A w \in Reloaders : /\ reload[w].pc \in {"idle", "reading", "exited"}
                          /\ DOMAIN reload[w].got \cap ToSet(reload[w].todo) = {}
  /\ \A e \in Evaluators : eval[e].pc \in {"idle", "policy", "rule", "done"}

\* The enabled rules of a set of policies, each with its policy, in the order of
\* the priorities of the policies and of their own; the condition of such a pair;
\* whether it ends the evaluation, for it allows, denies or cannot be decided.
Pairs(ps) == UNION {{p} \X {r \in ToSet(p.rules) : r.enabled} : p \in ps}
PairBefore(x, y) == PolicyBefore(x[1], y[1]) \/ (x[1] = y[1] /\ RuleBefore(x[2], y[2]))
Result(x, q, m) == Match(q, m)[x[2].cond]
Ends(x, q, m) == Result(x, q, m) = "error" \/ (Result(x, q, m) = "yes" /\ Types(x[2]) \cap {"allow", "deny"} # {})

\* The pairs that are reached, none that ends the evaluation being before them,
\* and those of them that take effect.
Reached(ps, q, m) == {x \in Pairs(ps) : ~\E y \in Pairs(ps) : Ends(y, q, m) /\ PairBefore(y, x)}
Fired(xs, q, m) == {x \in xs : Result(x, q, m) = "yes"}

\* What the pairs say that take effect.
Routes(x) == {i \in DOMAIN x[2].actions : x[2].actions[i].type = "route" /\ x[2].actions[i].param # None}
Routing(fired) == {x \in fired : Routes(x) # {}}
Target(routing) ==
  LET last == CHOOSE x \in routing : ~\E y \in routing : PairBefore(x, y)
  IN  last[2].actions[CHOOSE i \in Routes(last) : \A j \in Routes(last) : j <= i].param
Effective(a) == a.type = "redact" \/ (a.type \in {"modify", "alert", "tag"} /\ a.param # None)
Effects(fired) == {a \in UNION {ToSet(x[2].actions) : x \in fired} : Effective(a)}
Denied(fired) == \E x \in fired : "deny" \in Types(x[2])

\* What a set of policies says of a request, without a loop.
Reference(ps, q, m) ==
  LET reached == Reached(ps, q, m)
      fired == Fired(reached, q, m)
      FailSafe == IF m = "fail-open" THEN "allow" ELSE IF m = "fail-closed" THEN "block" ELSE DefaultAction
  IN  [action |-> IF \E x \in reached : Result(x, q, m) = "error" THEN FailSafe
                  ELSE IF Denied(fired) THEN "block"
                  ELSE IF Routing(fired) # {} THEN "route"
                  ELSE IF \E a \in Effects(fired) : a.type = "modify" THEN "transform" ELSE "allow",
       effects |-> Effects(fired),
       route |-> IF ~Denied(fired) /\ Routing(fired) # {} THEN Target(Routing(fired)) ELSE None]

\* evaluatePolicies with its in-place sorted policies, snapshot, early exits and
\* fail-safe handling decides what one set of policies says that was installed
\* during the call, never a mixture of two; a deadline that passes leads to
\* the fail-safe action.
DecisionIsExplained ==
  \A e \in Evaluators : eval[e].pc = "done" =>
    LET d == eval[e].decision IN
    IF eval[e].error = "timeout"
      THEN d.action = (CASE mode = "fail-open" -> "allow" [] mode = "fail-closed" -> "block" [] OTHER -> DefaultAction)
      ELSE \E ps \in installed[e] : LET ref == Reference(ToSet(ps), eval[e].request, mode) IN
             d.action = ref.action /\ d.effects = ref.effects /\ d.route = ref.route

\* ReloadPolicies takes effect: once a reload that began after the last edit
\* has succeeded and no other is under way, the engine has the current files.
\* This needs reloads to come from one goroutine: of two that overlap, the one
\* that read the files first may install last.
ReloadTakesEffect ==
  (setup.callers = {} /\ fresh /\ \A w \in Reloaders : reload[w].pc # "reading") => policies = NormalizePolicyPriorities(Current)

\* The watcher goroutine is gone when Close returns: it reloads no more.
QuietAfterClose == [][closing = "done" => (policies' = policies \/ \E w \in Callers : Install(w))]_vars

Has(ps, f) == \E i \in DOMAIN ps, p \in Contents[f] : ps[i].name = p.name

\* While reloads walk the files they are edited, broken and repaired, and reloads
\* overlap (engine.go:494).  Whatever is installed in the end, every policy of it
\* stood in its file at some time during that reload, and a policy is out of
\* service only because its own file of a directory was missing, broken or could
\* not be read at such a time (file.go:95): nothing older, and nothing lost with
\* another file.
InstalledWasHeld ==
  [][\A w \in Reloaders : Install(w) /\ policies' # policies =>
       /\ \A i \in DOMAIN policies' : \E f \in Files : \E p \in held[w][f] \cap Policies :
             policies'[i] = [p EXCEPT !.rules = SortRulesByPriority(@)]
       /\ \A f \in Files : Has(policies', f) \/ (setup.dir /\ held[w][f] \ Policies # {})]_vars

Servable == ValidPolicies(Current) /\ \A f \in Files : ~LoadFails(files[f])
UpToDate == policies = NormalizePolicyPriorities(Current)

\* Hot reload: a reload that succeeded is in effect, and a change of the files
\* to valid policies is served in the end, unless a file cannot be read or the
\* engine is closed.  For a source that sends events and with the watcher as
\* the only one to reload (engine.go:469-560).
ChangeIsServed ==
  /\ []ReloadTakesEffect
  /\ (setup.notifies /\ setup.callers = {} /\ Servable /\ closing = "no")
        ~> (UpToDate \/ ~Servable \/ closing # "no" \/ reload[Watcher].failed)
=============================================================================
