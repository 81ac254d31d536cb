------------------------------- MODULE RuleLife -------------------------------
(***************************************************************************)
(* What a rule may become: it is created from a request, changed by        *)
(* patches, and read back from the rule file at the next start.  The Go    *)
(* service (service/sources/validation/validation.go) and the Node server  *)
(* (shared/sources/index.ts, used by forward-manager.ts) promise the same  *)
(* behaviour; here both live through the same requests.                    *)
(*                                                                         *)
(* A request and a stored rule are functions from fields to values; a      *)
(* field that is not there is Absent.  Texts are the few that the two      *)
(* languages tell apart: "padded" is "a" with a space before it, "blank"   *)
(* is white space, "nel" is white space for Go only (U+0085), "bom" for    *)
(* JavaScript only (U+FEFF); as group labels, "long" has more than 64      *)
(* characters, "astral" at most 64 characters but more than 64 UTF-16      *)
(* units, and "control" a control character.  Error texts are left out: a  *)
(* request is stored or refused.                                           *)
(***************************************************************************)
EXTENDS Integers

CONSTANTS Absent, Null, Mistyped,  \* no such key, the JSON null, a value of another type
          None,                    \* no rule: refused, or not created yet
          CreateRequests,          \* functions from Fields to values
          Patches,                 \* likewise, mostly Absent
          Texts,                   \* the texts in them
          MaxPatches               \* bound on the patches applied to the rule

VARIABLES go,       \* the rule as the Go service stores it, or None
          ts,       \* the rule as the Node server stores it, or None
          asked,    \* the request just made, or None after a patch
          patched   \* how many patches both have been asked for

lifeVars == <<go, ts, asked, patched>>

TextFields == {"name", "listenHost", "targetHost"}
PortFields == {"listenPort", "targetPort"}
Fields == TextFields \union PortFields \union {"id", "protocol", "enabled", "udpMode", "group"}

Protocols == {"tcp", "udp"}
UdpModes == {"one-way", "last-client", "multi-client"}

NonValues == {Absent, Null, Mistyped}

FieldValues(f) ==
  CASE f \in PortFields -> NonValues \union Int
    [] f = "enabled" -> NonValues \union BOOLEAN
    [] OTHER -> NonValues \union Texts

HasFields(r) == r = [f \in Fields |-> r[f]]

IsRequest(r) ==
  /\ HasFields(r)
  /\ \A f \in Fields : r[f] \in FieldValues(f)

\* The texts named in this module, and no text and no rule is a model value.
ASSUME RequestsAssumption ==
  /\ Protocols \union UdpModes \union {"a", "padded", "new", "blank", "nel", "bom"}
     \union {"long", "astral", "control"} \subseteq Texts
  /\ Absent # Null /\ Null # Mistyped /\ Mistyped # Absent
  /\ \A v \in NonValues : v \notin Texts /\ v \notin Int /\ v \notin BOOLEAN
  /\ \A r \in CreateRequests \union Patches : IsRequest(r)
  /\ None \notin [Fields -> NonValues \union Texts \union Int \union BOOLEAN]

-----------------------------------------------------------------------------
(* The Go service.  Decoding turns null into a nil pointer, an absent      *)
(* field, and refuses a value of another type.                             *)

GoBlank == {"blank", "nel"}

GoTrim(t) == IF t = "padded" THEN "a" ELSE t

GoDecode(request) == [f \in Fields |-> IF request[f] = Null THEN Absent ELSE request[f]]

Decodes(request) == \A f \in Fields : request[f] # Mistyped

IsValidPort(p) == p \notin {Absent, Null, Mistyped} /\ p >= 1 /\ p <= 65535

GoGroupOk(g) == g \notin {"long", "control"}

GoNormalizeGroup(g) == IF g \in GoBlank THEN Absent ELSE GoTrim(g)

GoAccepts(in) ==
  /\ in.id \notin {Absent} \union GoBlank
  /\ \A f \in TextFields : in[f] \notin {Absent} \union GoBlank
  /\ \A f \in PortFields : IsValidPort(in[f])
  /\ in.protocol \in Protocols
  /\ in.enabled # Absent
  /\ in.udpMode # Absent => in.protocol = "udp" /\ in.udpMode \in UdpModes
  /\ GoGroupOk(in.group)

GoStored(in) ==
  [f \in Fields |->
     CASE f \in TextFields \union {"id"} -> GoTrim(in[f])
       [] f = "udpMode" /\ in.protocol = "udp" /\ in.udpMode = Absent -> "one-way"
       [] f = "group" -> GoNormalizeGroup(in.group)
       [] OTHER -> in[f]]

GoValidate(in) == IF GoAccepts(in) THEN GoStored(in) ELSE None

\* CreateRule: a request without an id gets a new one.
GoCreate(request) ==
  LET in == GoDecode(request)
  IN IF Decodes(request)
     THEN GoValidate(IF in.id = Absent THEN [in EXCEPT !.id = "new"] ELSE in)
     ELSE None

GoPatchOk(patch) ==
  LET p == GoDecode(patch)
  IN /\ Decodes(patch)
     /\ \A f \in TextFields \union {"id"} : p[f] \notin GoBlank
     /\ \A f \in PortFields : p[f] # Absent => IsValidPort(p[f])
     /\ p.protocol # Absent => p.protocol \in Protocols
     /\ p.udpMode # Absent => p.udpMode \in UdpModes
     /\ GoGroupOk(p.group)

\* Mutant: the UDP mode of a rule that becomes a TCP rule is kept.
MergeKeepingMode(rule, p) ==
  [f \in Fields |->
     IF f = "id" \/ p[f] = Absent THEN rule[f]
     ELSE CASE f = "group" -> GoNormalizeGroup(p.group)
            [] f \in TextFields -> GoTrim(p[f])
            [] OTHER -> p[f]]

\* A TCP rule has no UDP mode, and the id is not patched.
GoMerge(rule, p) ==
  [f \in Fields |->
     IF f = "udpMode" /\ "tcp" = (IF p.protocol = Absent THEN rule.protocol ELSE p.protocol) THEN Absent
     ELSE IF f = "id" \/ p[f] = Absent THEN rule[f]
     ELSE CASE f = "group" -> GoNormalizeGroup(p.group)
            [] f \in TextFields -> GoTrim(p[f])
            [] OTHER -> p[f]]

\* UpdateRule, up to the duplicate check: None when the request is refused.
GoPatch(rule, patch) ==
  IF GoPatchOk(patch) THEN GoValidate(GoMerge(rule, GoDecode(patch))) ELSE None

\* What the next start reads back; None quarantines the whole file.
GoLoad(rule) == GoValidate(GoDecode(rule))

\* The group of a group start or stop, or None.
GoGroupName(raw) == IF raw \in GoBlank \/ ~ GoGroupOk(raw) THEN None ELSE GoTrim(raw)

-----------------------------------------------------------------------------
(* The Node server: null is a value, and no text but the ones named is     *)
(* trimmed.                                                                *)

TsBlank == {"blank", "bom"}

IsNonEmptyString(v) == v \notin {Absent, Null, Mistyped} \union TsBlank

TsGroupOk(g) == g \notin {Mistyped, "long", "astral", "control"}

TsNormalizeGroup(g) == IF g \in {Null, Absent} \union TsBlank THEN Absent ELSE GoTrim(g)

TsAccepts(in) ==
  /\ in.id # Absent => IsNonEmptyString(in.id)
  /\ \A f \in TextFields : IsNonEmptyString(in[f])
  /\ \A f \in PortFields : IsValidPort(in[f])
  /\ in.protocol \in Protocols
  /\ in.enabled \in BOOLEAN
  /\ in.udpMode # Absent => in.protocol = "udp" /\ in.udpMode \in UdpModes
  /\ TsGroupOk(in.group)

\* Mutant: a UDP rule without a mode is stored without one.
TsStoredWithoutDefault(in) ==
  [f \in Fields |->
     CASE f \in TextFields -> GoTrim(in[f])
       [] f = "group" -> TsNormalizeGroup(in.group)
       [] OTHER -> in[f]]

TsStored(in) ==
  [f \in Fields |->
     CASE f \in TextFields -> GoTrim(in[f])
       [] f = "udpMode" /\ in.protocol = "udp" /\ in.udpMode = Absent -> "one-way"
       [] f = "group" -> TsNormalizeGroup(in.group)
       [] OTHER -> in[f]]

TsValidate(in) == IF TsAccepts(in) THEN TsStored(in) ELSE None

\* addRule
TsCreate(request) ==
  LET rule == TsValidate(request)
  IN IF rule # None /\ rule.id = Absent THEN [rule EXCEPT !.id = "new"] ELSE rule

TsPatchOk(p) ==
  /\ \A f \in TextFields \union {"id"} : p[f] # Absent => IsNonEmptyString(p[f])
  /\ \A f \in PortFields : p[f] # Absent => IsValidPort(p[f])
  /\ p.protocol # Absent => p.protocol \in Protocols
  /\ p.enabled # Absent => p.enabled \in BOOLEAN
  /\ p.udpMode # Absent => p.udpMode \in UdpModes
  /\ TsGroupOk(p.group)

\* The patch spread over the rule: a UDP mode is not dropped here.
TsMerge(rule, p) ==
  [f \in Fields |->
     IF f = "id" \/ p[f] = Absent \/ (f = "group" /\ p.group = Null) THEN rule[f]
     ELSE CASE f = "group" -> TsNormalizeGroup(p.group)
            [] f \in TextFields -> GoTrim(p[f])
            [] OTHER -> p[f]]

\* updateRule, up to the duplicate check
TsPatch(rule, patch) == IF TsPatchOk(patch) THEN TsValidate(TsMerge(rule, patch)) ELSE None

\* parseConfig also refuses a rule without an id.
TsLoad(rule) == IF rule.id = Absent THEN None ELSE TsValidate(rule)

TsGroupName(raw) == IF ~ IsNonEmptyString(raw) \/ ~ TsGroupOk(raw) THEN None ELSE GoTrim(raw)

-----------------------------------------------------------------------------
(* The CLI reads a rule file the service is not running on: config         *)
(* validate, and config migrate, which writes the rules back.  Decoding    *)
(* turns what is absent or null into Go's zero value; an empty text is     *)
(* Absent here.                                                            *)

CliDecode(file) ==
  [f \in Fields |->
     IF file[f] \notin {Absent, Null} THEN file[f]
     ELSE CASE f \in PortFields -> 0
            [] f = "enabled" -> FALSE
            [] OTHER -> Absent]

\* config.Validate
CliValidates(rule) ==
  /\ \A f \in TextFields : rule[f] # Absent
  /\ \A f \in PortFields : IsValidPort(rule[f])
  /\ rule.protocol \in Protocols
  /\ rule.protocol = "udp" => rule.udpMode \in UdpModes \union {Absent}
  /\ GoGroupOk(rule.group)

\* What config migrate --write makes of a rule: None when it refuses the file.
CliMigrate(file) ==
  LET rule == CliDecode(file)
  IN IF Decodes(file) /\ CliValidates(rule)
     THEN [rule EXCEPT !.group = GoNormalizeGroup(@)]
     ELSE None

-----------------------------------------------------------------------------
(* The life of a rule in both.  A refused patch changes nothing.           *)

LifeInit == go = None /\ ts = None /\ asked = None /\ patched = 0

Create(request) ==
  /\ asked = None /\ patched = 0
  /\ asked' = request
  /\ go' = GoCreate(request)
  /\ ts' = TsCreate(request)
  /\ UNCHANGED patched

OrKeep(rule, next) == IF next = None THEN rule ELSE next

Patch(patch) ==
  /\ patched < MaxPatches
  /\ go # None \/ ts # None
  /\ go' = IF go = None THEN None ELSE OrKeep(go, GoPatch(go, patch))
  /\ ts' = IF ts = None THEN None ELSE OrKeep(ts, TsPatch(ts, patch))
  /\ asked' = None
  /\ patched' = patched + 1

LifeNext ==
  \/ \E request \in CreateRequests : Create(request)
  \/ \E patch \in Patches : Patch(patch)

-----------------------------------------------------------------------------
(* Where the twins are known to differ.                                    *)

Exotic == {"nel", "bom", "astral"}
HasExotic(values) == \E f \in TextFields \union {"id", "group"} : values[f] \in Exotic

\* Null is no value for Go and a bad value for JavaScript.
NullIn(values, fields) == \E f \in fields : values[f] = Null

\* The Node server trims no id.
CreatesDiffer(request) ==
  HasExotic(request) \/ NullIn(request, {"id", "udpMode"}) \/ request.id = "padded"

\* The Node server refuses a patch after which a TCP rule would have a UDP
\* mode, where the Go service drops the mode.
LeavesModeOnTcp(rule, p) ==
  /\ "tcp" = (IF p.protocol = Absent THEN rule.protocol ELSE p.protocol)
  /\ rule.udpMode # Absent \/ p.udpMode # Absent

PatchesDiffer(rule, p) ==
  HasExotic(p) \/ NullIn(p, Fields \ {"group"}) \/ LeavesModeOnTcp(rule, p)

-----------------------------------------------------------------------------
(* Properties.                                                             *)

\* A rule that a service stored is read back unchanged when the service
\* starts again: were one refused, config.Parse (parseConfig) would refuse
\* the whole file, and every rule would be gone.
StoredRulesReload ==
  /\ go # None => GoLoad(go) = go
  /\ ts # None => TsLoad(ts) = ts

\* The rule file of one service is a rule file of the other: but for the
\* texts the languages tell apart, a rule stored by one is read by the other
\* as the same rule, with its id trimmed.
RulesMoveBetweenServices ==
  /\ go # None /\ ~ HasExotic(go) => TsLoad(go) = go
  /\ ts # None /\ ~ HasExotic(ts) => GoLoad(ts) = [ts EXCEPT !.id = GoTrim(@)]

\* A rule file that was migrated is one the Go service starts with, and a
\* rule the service stored is migrated to itself: but for rules without an id,
\* with a blank text, or TCP rules with a UDP mode, which config validate and
\* config migrate let pass and the service refuses, with the whole file.
OnlyCliTakes(rule) ==
  \/ rule.id \in {Absent} \union GoBlank
  \/ \E f \in TextFields : rule[f] \in GoBlank
  \/ rule.protocol = "tcp" /\ rule.udpMode # Absent

MigratedFilesLoad ==
  /\ asked # None /\ CliMigrate(asked) # None =>
       (GoLoad(CliMigrate(asked)) = None <=> OnlyCliTakes(CliMigrate(asked)))
  /\ go # None => CliMigrate(go) = go

\* The twins store the same rule and refuse the same requests, but for the
\* differences named above; a patch is compared on a rule they agree about.
TwinsAgree ==
  /\ asked # None => CreatesDiffer(asked) \/ go = ts
  /\ go = ts /\ go # None =>
       \A p \in Patches : PatchesDiffer(go, p) \/ GoPatch(go, p) = TsPatch(go, p)

\* A patch that is accepted changes no field it does not name, but for the
\* UDP mode, which follows the protocol; it never changes the id.
TouchesOnly(rule, p, next) ==
  next # None =>
    \A f \in Fields :
      \/ next[f] = rule[f]
      \/ p[f] \notin {Absent, Null} /\ f # "id"
      \/ f = "udpMode" /\ p.protocol \in Protocols

PatchesTouchOnlyTheirFields ==
  /\ go # None => \A p \in Patches : TouchesOnly(go, p, GoPatch(go, p))
  /\ ts # None => \A p \in Patches : TouchesOnly(ts, p, TsPatch(ts, p))

\* A patch whose fields are in order is never refused after the merge: the Go
\* service applies every such patch, the Node server every one that leaves no
\* UDP mode on a TCP rule.
CheckedPatchesApply ==
  /\ go # None => \A p \in Patches : GoPatchOk(p) => GoPatch(go, p) # None
  /\ ts # None => \A p \in Patches :
       TsPatchOk(p) /\ ~ LeavesModeOnTcp(ts, p) => TsPatch(ts, p) # None

\* Every group label a service stores can be asked for by its group
\* operations, and names the same rules.
StoredGroupsCanBeNamed ==
  /\ go # None /\ go.group # Absent => GoGroupName(go.group) = go.group
  /\ ts # None /\ ts.group # Absent => TsGroupName(ts.group) = ts.group

\* A rule that one service stored is read back by it, by the other service and by
\* the CLI as it was, a migrated file is read by the service, and a stored group
\* label can be asked for; the differences are those named above.
StoredRulesTravel ==
  /\ StoredRulesReload /\ RulesMoveBetweenServices /\ MigratedFilesLoad
  /\ StoredGroupsCanBeNamed

\* The two services store the same rule for a request, a patch changes only what
\* it names, and one that passes the check of its fields is applied.
RequestsMeanTheSame == TwinsAgree /\ PatchesTouchOnlyTheirFields /\ CheckedPatchesApply

=============================================================================
