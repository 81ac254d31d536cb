------------------------------ MODULE MCAlgorithms ------------------------------
(* Constants for the runs of Algorithms. *)
EXTENDS Algorithms

CONSTANTS p1, p2  \* two commands that write files

-----------------------------------------------------------------------------
(* Requests: a rule in order, and every rule that differs from it in one   *)
(* field, or in two that bear on each other.                               *)

SomeTexts == {Absent, Null, Mistyped, "blank", "padded", "a"}

MCValues(f) ==
  CASE f = "id" -> SomeTexts
    [] f = "name" -> SomeTexts \union {"b", "nel", "bom"}
    [] f \in {"listenHost", "targetHost"} -> (SomeTexts \ {Mistyped}) \union {"b"}
    [] f \in PortFields -> {Absent, Null, 0, 1, 65535, 65536}
    [] f = "protocol" -> {Absent, Null, "tcp", "udp", "icmp"}
    [] f = "enabled" -> {Absent, Null, TRUE, FALSE}
    [] f = "udpMode" -> {Absent, Null, "one-way", "multi-client", "bad"}
    [] f = "group" -> SomeTexts \union {"long", "astral", "control", "nel", "bom"}

MCTexts ==
  Protocols \union UdpModes
  \union {"a", "b", "padded", "new", "blank", "nel", "bom", "long", "astral", "control"}
  \union {"icmp", "bad"}

Baseline(protocol) ==
  [f \in Fields |->
     CASE f \in TextFields \union {"id"} -> "a"
       [] f = "listenPort" -> 1
       [] f = "targetPort" -> 2
       [] f = "protocol" -> protocol
       [] f = "enabled" -> TRUE
       [] OTHER -> Absent]

Varied(values, fields) ==
  UNION {{[[values EXCEPT ![f] = v] EXCEPT ![g] = w] : v \in MCValues(f), w \in MCValues(g)} :
         f \in fields, g \in fields}

VariedInOne(values) == UNION {Varied(values, {f}) : f \in Fields}

Requests(values) ==
  VariedInOne(values) \union Varied(values, {"protocol", "udpMode"})
  \union Varied(values, {"id", "enabled"}) \union Varied(values, {"name", "group"})
  \union Varied(values, PortFields)

MCCreateRequests == Requests(Baseline("udp")) \union Requests(Baseline("tcp"))

\* Patches of one field, and of two that bear on each other.
Empty == [f \in Fields |-> Absent]
MCPatches ==
  VariedInOne(Empty) \union Varied(Empty, {"protocol", "udpMode"})
  \union Varied(Empty, {"name", "group"})

-----------------------------------------------------------------------------
(* Rules and policies.                                                     *)

Rule(id, name, protocol, host, port, enabled, group) ==
  [id |-> id, name |-> name, protocol |-> protocol, host |-> host, port |-> port,
   enabled |-> enabled, group |-> group]

\* Privileged LAN rules of two names on one binding, rules without a name,
\* some of them without a binding, and a harmless one.
MCRuleForms ==
  {Rule("1", "web", "tcp", "0.0.0.0", 80, TRUE, ""),
   Rule("2", "alt", "tcp", "0.0.0.0", 80, FALSE, "x"),
   Rule("3", "", "udp", "127.0.0.1", 1024, TRUE, "x"),
   Rule("4", "", "udp", "127.0.0.1", 0, FALSE, ""),
   Rule("5", "web", "tcp", "127.0.0.1", 1023, FALSE, "")}

MCFirstConfigs ==
  LET form(id) == CHOOSE r \in MCRuleForms : r.id = id
      of(ids) == [i \in DOMAIN ids |-> form(ids[i])]
  IN {of(<<"1", "2">>), of(<<"4", "5">>), of(<<"2", "1", "3">>)}

Unmentioned == [g \in Guardrails |-> Omitted]
MCPolicyFiles ==
  {Unmentioned, [Unmentioned EXCEPT !["requireGroup"] = TRUE, !["allowAutostart"] = FALSE],
   [g \in Guardrails |-> g = "forbidDuplicateBindings" \/ g = "requireGroup"]}

-----------------------------------------------------------------------------
\* The steps of a workflow.
MCStepIds == <<"s1", "s2">>

-----------------------------------------------------------------------------
(* The service under a command: in recovery, with a rule whose id is the   *)
(* name of another, with rules of two versions, in order, with two rules   *)
(* of one id, and with ids that lead elsewhere in the path of a request.   *)

Live(id, name, group, state) == [id |-> id, name |-> name, group |-> group, state |-> state]
Runs(rules, version, recovery) == [rules |-> rules, version |-> version, recovery |-> recovery]

MCServices ==
  {Runs({}, "same", TRUE),
   Runs({Live("1", "x", "g", "running"), Live("x", "y", "g", "failed")}, "same", FALSE),
   Runs({Live("1", "y", "g", "stopped"), Live("2", "y", "", "running")}, "other", FALSE),
   Runs({Live("1", "x", "g", "running")}, "same", FALSE),
   Runs({Live("1", "x", "g", "stopped"), Live("1", "y", "", "stopped")}, "same", FALSE),
   Runs({Live("1", "x", "g", "stopped"), Live("groups/g", "y", "", "running")}, "same", FALSE),
   Runs({Live("1", "1", "g", "running"), Live("%31", "x", "", "stopped"),
         Live("1?", "y", "", "stopped")}, "same", FALSE)}

Leads(kind, name) == [kind |-> kind, name |-> name]
MCStrays ==
  [id \in {"groups/g", "%31", "1?"} |->
     CASE id = "groups/g" -> Leads("group", "g")
       [] id = "%31" -> Leads("rule", "1")
       [] OTHER -> Leads("nothing", "")]

Defined(id, name, group) == [id |-> id, name |-> name, group |-> group]
File(form, errors, rules, advisory) ==
  [form |-> form, errors |-> errors, rules |-> rules, advisory |-> advisory]

MCConfigFiles ==
  {File("missing", {}, {}, FALSE), File("garbage", {}, {}, FALSE), File("read", {}, {}, FALSE),
   File("read", {"field"}, {Defined("1", "x", "g")}, TRUE),
   File("read", {"binding"}, {Defined("1", "x", "g"), Defined("2", "x", "g")}, FALSE),
   File("read", {"server"}, {Defined("1", "x", "g")}, FALSE),
   File("read", {}, {Defined("1", "x", "g")}, FALSE),
   File("read", {}, {Defined("1", "x", "g"), Defined("1", "y", "")}, FALSE),
   File("read", {}, {Defined("1", "x", "g"), Defined("2", "y", "")}, TRUE)}

-----------------------------------------------------------------------------
(* Two commands that write files: they differ in nothing but their name.   *)

MCSymmetry == Permutations(Writers)
MCBundleFiles == <<"doctor", "explanations">>

MCFirstFiles ==
  {[path \in {"config", "out"} |-> IF path = "config" THEN Content(form, 0) ELSE out] :
     form \in {"other", "bad"}, out \in {NoFile, Content("bad", 0)}}

=============================================================================
