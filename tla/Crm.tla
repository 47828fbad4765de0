---------------------------------- MODULE Crm -----------------------------------
(***************************************************************************)
(* What the CRM server's tools answer (apps/mcp-servers/salesforce/src/    *)
(* dataset.ts, soql.ts, tools.ts).  A record is [id, object, tenant,       *)
(* owner, ...]; its id stands for its place in the dataset, and a field it *)
(* does not have is undefined in the code.  A query comes as what its text *)
(* has: the combinators in its WHERE clause, and for a condition with LIKE *)
(* one with IN and the values its pattern matches.                         *)
(***************************************************************************)
EXTENDS Naturals, FiniteSets, FiniteSetsExt, TLC

CONSTANTS ReadTeam, ReadAll,   \* the scopes salesforce:read.team and salesforce:read.all
          NoTerritory,         \* a token without one
          ClosedStage,         \* stages whose name starts with Closed
          MaxRows              \* MAX_ROWS

\* describeFailure: what a client is told of an error.
Failure(code) == [error |-> code]

NotFound == Failure("not_found")

VisibilityFor(caller) ==
  CASE ReadAll \in caller.scopes -> "tenant"
    [] ReadAll \notin caller.scopes /\ ReadTeam \in caller.scopes -> "territory"
    [] OTHER -> "own"

\* isVisible.  A task has no territory.
IsVisible(r, caller) ==
  /\ r.tenant = caller.tenant
  /\ CASE VisibilityFor(caller) = "tenant" -> TRUE
       [] VisibilityFor(caller) = "territory" ->
            "territory" \in DOMAIN r /\ caller.territory # NoTerritory /\ r.territory = caller.territory
       [] OTHER -> r.owner = caller.subject

\* All a caller can see, of whatever kind.
Seen(data, caller) == {r \in data : IsVisible(r, caller)}

VisibleRecords(data, object, caller) == {r \in data : r.object = object /\ IsVisible(r, caller)}

-------------------------------------------------------------------------------
(* sf.query *)

SObject == {"Account", "Contact", "Opportunity", "Task"}

\* parseSoql: one of the objects, at least one field or *, and not both AND and OR.
Parses(soql) ==
  soql.object \in SObject /\ soql.fields # {} /\ soql.combinators # {"AND", "OR"}

\* parseWhere: a clause without OR is one of ANDs.
Combinator(soql) == IF "OR" \in soql.combinators THEN "OR" ELSE "AND"

\* compare
Compare(r, condition) ==
  LET there == condition.field \in DOMAIN r
      actual == r[condition.field]
  IN CASE condition.op = "=" -> there /\ actual = condition.value
       [] condition.op = "!=" -> ~(there /\ actual = condition.value)
       [] condition.op = "IN" -> there /\ actual \in condition.value
       [] condition.op = "<" -> there /\ actual < condition.value
       [] condition.op = ">=" -> there /\ actual >= condition.value

Matches(r, q) ==
  IF q.conditions = {} THEN TRUE
  ELSE IF Combinator(q) = "OR" THEN \E condition \in q.conditions : Compare(r, condition)
  ELSE \A condition \in q.conditions : Compare(r, condition)

\* The order a query's records come in: by amount, either way, and as in the dataset.
Before(q, r, order) ==
  CASE order = "ASC" /\ q.amount # r.amount -> q.amount < r.amount
    [] order = "DESC" /\ q.amount # r.amount -> q.amount > r.amount
    [] OTHER -> q.id < r.id

FirstOf(set, order, limit) == {r \in set : Cardinality({q \in set : Before(q, r, order)}) < limit}

\* A field a record does not have comes out undefined, which JSON leaves out.
Project(r, fields) == IF fields = {"*"} THEN r ELSE [f \in fields \cap DOMAIN r |-> r[f]]

ExecuteQuery(q, records) ==
  LET matched == {r \in records : Matches(r, q)}
      limit == IF q.limit < MaxRows THEN q.limit ELSE MaxRows
  IN [totalSize |-> Cardinality(matched), done |-> Cardinality(matched) <= limit,
      records |-> {<<r.id, Project(r, q.fields)>> : r \in FirstOf(matched, q.order, limit)}]

QueryIn(q, permitted, caller) ==
  IF Parses(q)
  THEN ExecuteQuery(q, permitted) @@ [visibility |-> VisibilityFor(caller), recordsInScope |-> Cardinality(permitted)]
  ELSE Failure("bad_request")

Query(q, data, caller) == QueryIn(q, VisibleRecords(data, q.object, caller), caller)

-------------------------------------------------------------------------------
(* sf.get_contact, sf.list_opportunities *)

WithId(data, objects, id) == {r \in data : r.object \in objects /\ r.id = id}

GetContact(id, data, caller) ==
  LET contact == Seen(WithId(data, {"Contact"}, id), caller) IN
  IF contact = {} THEN NotFound
  ELSE [contact |-> id, account |-> UNION {Seen(WithId(data, {"Account"}, r.account), caller) : r \in contact}]

ListingOf(args, permitted) ==
  LET filtered == {r \in permitted :
                     /\ args.stage # "" => r.stage = args.stage
                     /\ r.amount >= args.minAmount
                     /\ args.openOnly => r.stage \notin ClosedStage}
      AmountOf(set) == MapThenSumSet(LAMBDA r : r.amount, set)
      Stage(s) == {r \in filtered : r.stage = s}
  IN [totalSize |-> Cardinality(filtered), totalValue |-> AmountOf(filtered),
      byStage |-> [s \in {r.stage : r \in filtered} |-> [count |-> Cardinality(Stage(s)), value |-> AmountOf(Stage(s))]],
      records |-> FirstOf(filtered, "DESC", args.limit)]

ListOpportunities(args, data, caller) == ListingOf(args, VisibleRecords(data, "Opportunity", caller))

-------------------------------------------------------------------------------
(* sf.create_task *)

\* Faulty: what a task refers to need only exist.
ReferableIfThere(id, data, caller) == WithId(data, {"Account", "Opportunity", "Contact"}, id) # {}

\* Every record a task refers to is there and visible.
Referable(id, data, caller) == Seen(WithId(data, {"Account", "Opportunity", "Contact"}, id), caller) # {}

\* The answer, but for the task's random id.
CreateTask(args, data, caller) ==
  IF \A id \in args.refs : Referable(id, data, caller)
  THEN [created |-> TRUE, tenant |-> caller.tenant, owner |-> caller.subject, refs |-> args.refs]
  ELSE NotFound

NewTask(id, args, caller) ==
  [id |-> id, object |-> "Task", tenant |-> caller.tenant, owner |-> caller.subject, refs |-> args.refs]

-------------------------------------------------------------------------------
Answer(tool, args, data, caller) ==
  CASE tool = "sf.query" -> Query(args, data, caller)
    [] tool = "sf.get_contact" -> GetContact(args.id, data, caller)
    [] tool = "sf.list_opportunities" -> ListOpportunities(args, data, caller)
    [] tool = "sf.create_task" -> CreateTask(args, data, caller)
===============================================================================
