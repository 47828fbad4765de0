------------------------------ MODULE MCMcpServers ------------------------------
(* A pool of one connection; callers of two tenants, one with a role nobody knows, one    *)
(* whose token is for another server and ones that lack a scope; a dataset where each     *)
(* visibility shows something else; bundles with ties, annotations on both sides of the   *)
(* decision, and nested conditions.                                                       *)
EXTENDS McpServers

MCRequiredScope ==
  [t \in {"pg.query"} |-> "postgres:query"] @@ [t \in {"pg.list_tables", "pg.describe_table"} |-> "postgres:read"]
  @@ [t \in {"sf.query", "sf.get_contact", "sf.list_opportunities"} |-> "salesforce:read"]
  @@ [t \in {"sf.create_task"} |-> "salesforce:write"]
  @@ [t \in {"policy.evaluate", "policy.explain"} |-> "policy:evaluate"] @@ [t \in {"policy.list_rules"} |-> "policy:read"]
MCRoleToDbRole == [viewer |-> "app_viewer", analyst |-> "app_analyst", manager |-> "app_manager"]
MCLogin == [tx |-> "none", tenant |-> "", territory |-> "", role |-> "mcp_reader"]

TokenOf(kid, aud, scopes, subject, tenant, territory, role) ==
  [kid |-> kid, aud |-> aud, scopes |-> scopes, subject |-> subject, tenant |-> tenant,
   territory |-> territory, role |-> role]
Ask(server, tool, args, token) == [server |-> server, tool |-> tool, args |-> args, token |-> token]

MCRow ==
  {[table |-> "orders", id |-> o.id, tenant |-> o.tenant, territory |-> o.territory] :
     o \in {[id |-> 1, tenant |-> "acme", territory |-> "west"], [id |-> 2, tenant |-> "acme", territory |-> "east"],
            [id |-> 3, tenant |-> "globex", territory |-> "west"]}}
  \cup {[table |-> "order_items", order |-> o] : o \in 1..3}
  \cup {[table |-> "products", tenant |-> t] : t \in {"acme", "globex"}}
Sql(leading, statements, words, quoted) ==
  [leading |-> leading, statements |-> statements, words |-> words, quoted |-> quoted]
Plain == Sql("select", 1, {"orders", "'delete'"}, {"'delete'"})

Postgres == {"postgres:read", "postgres:query"}
Analyst == TokenOf(1, "postgres", Postgres, "amy", "acme", "west", "analyst")
Auditor == TokenOf(2, "postgres", {"postgres:read"}, "gus", "globex", "", "auditor")
Manager == TokenOf(2, "postgres", Postgres, "max", "acme", "east", "manager")
Misdirected == TokenOf(1, "salesforce", Postgres, "amy", "acme", "west", "analyst")
WarehouseRequest ==
  {Ask("postgres", "pg.query", sql, Manager) :
     sql \in {Plain, Sql("with", 1, {"delete"}, {}), Sql("delete", 1, {}, {}), Sql("select", 2, {"delete"}, {})}}
  \cup {Ask("postgres", "pg.query", Plain, Misdirected),
        Ask("postgres", "pg.query", Plain, Auditor), Ask("postgres", "pg.list_tables", {}, Auditor),
        Ask("postgres", "pg.describe_table", {}, Auditor)}

Read == {"salesforce:read", "salesforce:write"}
Own == TokenOf(1, "salesforce", Read, "amy", "acme", "west", "analyst")
Team == TokenOf(1, "salesforce", Read \cup {"salesforce:read.team"}, "max", "acme", "west", "manager")
Tenant == TokenOf(2, "salesforce", Read \cup {"salesforce:read.all"}, "gus", "globex", "", "manager")

Of(id, object, tenant, owner, territory) ==
  [id |-> id, object |-> object, tenant |-> tenant, owner |-> owner, territory |-> territory]
MCDataset ==
  {Of(1, "Account", "acme", "max", "east"), Of(2, "Account", "globex", "gus", "west"),
   Of(3, "Contact", "acme", "amy", "west") @@ [account |-> 1]}
  \cup {Of(4, "Opportunity", "acme", "amy", "west") @@ [amount |-> 2, stage |-> "Proposal"],
        Of(5, "Opportunity", "acme", "max", "west") @@ [amount |-> 3, stage |-> "Closed Won"],
        Of(6, "Opportunity", "globex", "gus", "east") @@ [amount |-> 3, stage |-> "Proposal"]}

Where(object, fields, conditions, combinators, order, limit) ==
  [object |-> object, fields |-> fields, conditions |-> conditions, combinators |-> combinators,
   order |-> order, limit |-> limit]
Wide == [stage |-> "", minAmount |-> 0, openOnly |-> TRUE, limit |-> 2]
CrmRequest ==
  {Ask("salesforce", "sf.query",
       Where("Opportunity", {"stage"},
             {[field |-> "stage", op |-> "IN", value |-> {"Proposal"}], [field |-> "amount", op |-> "<", value |-> 3]},
             combinators, "ASC", 9), Tenant) : combinators \in {{"OR"}, {"AND"}, {"AND", "OR"}}}
  \cup
  {Ask("salesforce", "sf.query",
       Where("Opportunity", {"id", "amount"}, {[field |-> "amount", op |-> ">=", value |-> 2]}, {}, "DESC", 1), Own),
   Ask("salesforce", "sf.query", Where("Task", {"*"}, {[field |-> "owner", op |-> "!=", value |-> "max"]}, {}, "", 9), Own),
   Ask("salesforce", "sf.query", Where("Task", {"*"}, {}, {}, "", 9), Team),
   Ask("salesforce", "sf.get_contact", [id |-> 3], Team), Ask("salesforce", "sf.get_contact", [id |-> 3], Tenant),
   Ask("salesforce", "sf.list_opportunities", Wide, Team),
   Ask("salesforce", "sf.create_task", [refs |-> {1}], Own), Ask("salesforce", "sf.create_task", [refs |-> {4}], Own)}

Is(path, op, value) == [path |-> path, op |-> op, value |-> value]
Rule(id, priority, effect, tier, match) ==
  [id |-> id, priority |-> priority, effect |-> effect, rateTier |-> tier, match |-> match]
MCBundles ==
  [baseline |->
     [defaultEffect |-> "deny",
      rules |-> <<Rule(4, 20, "allow", "", <<Is("tool", "in", {"pg.query", "sf.query"})>>),
                  Rule(3, 20, "deny", "", <<Is("sql", "matches", {"a write"}), Is("tool", "eq", "pg.query"), [all |-> {1, 2}]>>),
                  Rule(1, 10, "annotate", "gold", <<Is("plan", "ne", "restricted")>>),
                  Rule(2, 10, "annotate", "bronze", <<Is("limit", "gt", 5), Is("plan", "missing", ""), [any |-> {1, 2}]>>),
                  Rule(5, 30, "annotate", "late", <<Is("tenantId", "ne_field", "tenant"), [not |-> {1}]>>)>>],
   open |-> [defaultEffect |-> "allow", rules |-> <<Rule(1, 5, "deny", "", <<Is("scopes", "not_contains", "salesforce:write")>>)>>]]

Input(tool, rest) == [tool |-> tool, tenant |-> "acme", scopes |-> {"salesforce:write"}] @@ rest
Gateway == TokenOf(1, "policy-engine", {"policy:evaluate", "policy:read"}, "amy", "acme", "west", "analyst")
PolicyRequest ==
  {Ask("policy-engine", "policy.evaluate", [bundle |-> b, input |-> i], Gateway) :
     b \in {"baseline", "open"},
     i \in {Input("pg.query", [plan |-> "pro", sql |-> "a write"]), Input("pg.query", [limit |-> 9, sql |-> "a read"]),
            Input("sf.create_task", [plan |-> "restricted", tenantId |-> "globex"])}}
  \cup {Ask("policy-engine", "policy.explain", [bundle |-> "baseline", input |-> Input("sf.query", [plan |-> "pro"])], Gateway),
        Ask("policy-engine", "policy.list_rules", [bundle |-> "baseline"], Gateway),
        Ask("policy-engine", "policy.list_rules", [bundle |-> "none"], Gateway)}

\* A warehouse call beside one of two that read rows; a CRM call beside one that makes or reads tasks; a policy call
\* beside another.
MCWorkload ==
  {<<r, s>> : r \in WarehouseRequest,
               s \in {Ask("postgres", "pg.query", Plain, Analyst), Ask("postgres", "pg.list_tables", {}, Auditor)}}
  \cup {<<r, s>> : r \in CrmRequest,
                   s \in {x \in CrmRequest : x.tool = "sf.create_task" \/ (x.tool = "sf.query" /\ x.args.object = "Task")}}
  \cup {<<r, s>> : r \in PolicyRequest, s \in {x \in PolicyRequest : x.tool = "policy.explain"}}
===============================================================================
