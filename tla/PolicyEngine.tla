------------------------------ MODULE PolicyEngine ------------------------------
(***************************************************************************)
(* The policy evaluator (apps/mcp-servers/policy-engine/src/evaluator.ts,  *)
(* schema.ts, loader.ts, tools.ts).  An input maps the paths that readPath *)
(* finds in the evaluation document to their values; a path it does not    *)
(* have is undefined.  A pattern, or a prefix, is the set of the strings   *)
(* it matches.  Rule ids are numbers, in the order localeCompare puts them.*)
(***************************************************************************)
EXTENDS Naturals, Sequences, FiniteSets, SequencesExt

CONSTANT Bundles   \* Bundles[name]: defaultEffect and rules, in the order of the file

Operator == {"eq", "ne", "in", "not_in", "matches", "not_matches", "gt", "gte", "lt", "lte", "exists",
             "missing", "contains", "not_contains", "contains_any", "starts_with", "eq_field", "ne_field"}

CombinatorKey == {"all", "any", "not"}

\* conditionSchema: a combinator, or a path and an operator.  A condition is the sequence of
\* its parts, itself last; a combinator names the parts it combines, which come before it.
ConditionSchema(condition) ==
  /\ condition # <<>>
  /\ \A i \in DOMAIN condition :
       LET part == condition[i] IN
       /\ DOMAIN part \cap CombinatorKey # {} \/ {"path", "op"} \subseteq DOMAIN part
       /\ "op" \in DOMAIN part => part.op \in Operator
       /\ \A k \in DOMAIN part \cap CombinatorKey : part[k] \subseteq 1..(i - 1)
       /\ "not" \in DOMAIN part => Cardinality(part.not) = 1

\* ruleSchema, bundleSchema
BundleSchema(bundle) ==
  /\ bundle.defaultEffect \in {"allow", "deny"}
  /\ bundle.rules \in Seq(ToSet(bundle.rules)) \ {<<>>}
  /\ \A rule \in ToSet(bundle.rules) :
       rule.id \in Nat \ {0} /\ rule.priority \in Nat /\ rule.effect \in {"allow", "deny", "annotate"} /\ ConditionSchema(rule.match)

\* loadPolicies: the engine starts only when every file holds a bundle, with rules of
\* different ids, and there is one.
Loads(bundles) ==
  /\ DOMAIN bundles # {}
  /\ \A name \in DOMAIN bundles :
       /\ BundleSchema(bundles[name])
       /\ \A i, j \in DOMAIN bundles[name].rules : bundles[name].rules[i].id = bundles[name].rules[j].id => i = j

ASSUME BundlesAssumption == Loads(Bundles)

\* The operators with a negative form, which holds exactly when they do not.
Negated == [ne |-> "eq", not_in |-> "in", not_matches |-> "matches", missing |-> "exists",
            not_contains |-> "contains", ne_field |-> "eq_field"]

\* applyOperator, for the others.
Holds(op, path, value, input) ==
  LET there == path \in DOMAIN input
      actual == input[path]
  IN CASE op = "eq" -> there /\ actual = value
       [] op \in {"in", "matches", "starts_with"} -> there /\ actual \in value
       [] op = "gt" -> there /\ actual > value
       [] op = "gte" -> there /\ actual >= value
       [] op = "lt" -> there /\ actual < value
       [] op = "lte" -> there /\ actual <= value
       [] op = "exists" -> there
       [] op = "contains" -> there /\ value \in actual
       [] op = "contains_any" -> there /\ value \cap actual # {}
       [] op = "eq_field" -> IF there /\ value \in DOMAIN input THEN actual = input[value]
                             ELSE ~there /\ value \notin DOMAIN input
       [] OTHER -> FALSE

ApplyOperator(op, path, value, input) ==
  IF op \in DOMAIN Negated THEN ~Holds(Negated[op], path, value, input) ELSE Holds(op, path, value, input)

EvaluateCondition(condition, input) ==
  LET holds[i \in DOMAIN condition] ==
        LET part == condition[i] IN
        CASE "all" \in DOMAIN part -> \A k \in part.all : holds[k]
          [] "any" \in DOMAIN part -> \E k \in part.any : holds[k]
          [] "not" \in DOMAIN part -> \A k \in part.not : ~holds[k]
          [] OTHER -> ApplyOperator(part.op, part.path, part.value, input)
  IN holds[Len(condition)]

\* byPriority
Earlier(r, s) == r.priority < s.priority \/ (r.priority = s.priority /\ r.id < s.id)

\* The rules of a bundle, sorted.
InOrder(rules) ==
  CHOOSE s \in [DOMAIN rules -> ToSet(rules)] : \A i, j \in DOMAIN rules : i < j => Earlier(s[i], s[j])

Ordered == [name \in DOMAIN Bundles |-> InOrder(Bundles[name].rules)]

\* Faulty: the first annotation counts.
TierAfterFirst(rule, tier) == IF tier = "" THEN rule.rateTier ELSE tier

\* An annotation's tier takes the place of the one before.
TierAfter(rule, tier) == IF rule.rateTier # "" THEN rule.rateTier ELSE tier

\* The loop's turn for the i-th rule, unless it has returned.
Turn(i, rule, input, before) ==
  CASE before.ruleId # 0 -> before
    [] before.ruleId = 0 /\ ~EvaluateCondition(rule.match, input) -> [before EXCEPT !.evaluated = i]
    [] OTHER ->
         IF rule.effect = "annotate" THEN [before EXCEPT !.evaluated = i, !.rateTier = TierAfter(rule, @)]
         ELSE [before EXCEPT !.evaluated = i, !.decision = rule.effect, !.ruleId = rule.id]

\* evaluate: the loop's turns one after the other, from the default decision, which has no
\* rule (0).
Evaluate(name, input) ==
  LET after[i \in 0..Len(Ordered[name])] ==
        IF i = 0 THEN [decision |-> Bundles[name].defaultEffect, ruleId |-> 0, rateTier |-> "", evaluated |-> 0]
        ELSE Turn(i, Ordered[name][i], input, after[i - 1])
  IN after[Len(Ordered[name])]

\* policy.list_rules, policy.explain, and policy.evaluate, which answers with no more than
\* the decision.  An unknown bundle is an error.
PolicyAnswer(tool, args) ==
  IF args.bundle \notin DOMAIN Bundles THEN [error |-> "configuration_error"]
  ELSE CASE tool = "policy.list_rules" ->
              [rules |-> SortSeq(Bundles[args.bundle].rules, LAMBDA r, s : r.priority < s.priority)]
         [] tool = "policy.explain" ->
              LET result == Evaluate(args.bundle, args.input) IN
              [result |-> result,
               trace |-> [i \in 1..result.evaluated |-> EvaluateCondition(Ordered[args.bundle][i].match, args.input)]]
         [] tool = "policy.evaluate" -> [result |-> Evaluate(args.bundle, args.input)]

-------------------------------------------------------------------------------
(* What the bundle says, without the loop. *)

Deciders(bundle, input) ==
  {r \in ToSet(bundle.rules) : r.effect # "annotate" /\ EvaluateCondition(r.match, input)}

\* The rule that decides, if one does.
FirstRule(rules) == CHOOSE r \in rules : \A s \in rules : s = r \/ Earlier(r, s)

\* The annotations that count: those before the rule that decides.
Tiers(bundle, input) ==
  {r \in ToSet(bundle.rules) :
     /\ r.effect = "annotate" /\ r.rateTier # "" /\ EvaluateCondition(r.match, input)
     /\ \A d \in Deciders(bundle, input) : Earlier(r, FirstRule(Deciders(bundle, input)))}

LastRule(rules) == CHOOSE r \in rules : \A s \in rules : s = r \/ Earlier(s, r)

\* A decision is the first rule's that matches and allows or denies, else the default; its
\* tier is the last matching annotation's before it (evaluate, evaluator.ts:166-221).
SaysTheBundle(result, bundle, input) ==
  LET deciders == Deciders(bundle, input)
      tiers == Tiers(bundle, input)
  IN /\ result.decision = IF deciders = {} THEN bundle.defaultEffect ELSE FirstRule(deciders).effect
     /\ result.ruleId = IF deciders = {} THEN 0 ELSE FirstRule(deciders).id
     /\ result.rateTier = IF tiers = {} THEN "" ELSE LastRule(tiers).rateTier
===============================================================================
