---------------------------- MODULE Algorithms_proofs ----------------------------
(***************************************************************************)
(* What the parts of Algorithms promise, for every value of the constants. *)
(***************************************************************************)
EXTENDS Algorithms, SequenceTheorems, FiniteSetTheorems, FunctionTheorems,
        WellFoundedInduction, TLAPS

-----------------------------------------------------------------------------
\* What the values of a request's fields are, field by field.
LEMMA RequestFields ==
  ASSUME NEW r
  PROVE  IsRequest(r) <=>
         /\ HasFields(r)
         /\ \A f \in TextFields \union {"id", "protocol", "udpMode", "group"} :
              r[f] \in NonValues \union Texts
         /\ \A f \in PortFields : r[f] \in NonValues \union Int
         /\ r.enabled \in NonValues \union BOOLEAN
<1>1. /\ \A f \in TextFields \union {"id", "protocol", "udpMode", "group"} :
           FieldValues(f) = NonValues \union Texts
      /\ \A f \in PortFields : FieldValues(f) = NonValues \union Int
      /\ FieldValues("enabled") = NonValues \union BOOLEAN
  BY DEF FieldValues, TextFields, PortFields
<1> QED BY <1>1 DEF IsRequest, Fields

\* Decoding makes a request of a request, one without null.
LEMMA DecodedFields ==
  ASSUME NEW r, IsRequest(r)
  PROVE  /\ IsRequest(GoDecode(r))
         /\ \A f \in Fields : GoDecode(r)[f] # Null
         /\ Decodes(r) => \A f \in Fields : GoDecode(r)[f] # Mistyped
         /\ Decodes(r) /\ (\A f \in Fields : r[f] # Null) => GoDecode(r) = r
BY RequestsAssumption DEF IsRequest, HasFields, GoDecode, Decodes, FieldValues, NonValues, Fields

\* Two rules are equal when they agree on every field.
LEMMA SameFields ==
  ASSUME NEW r, NEW s, HasFields(r), HasFields(s),
         \A f \in TextFields \union {"id"} : r[f] = s[f],
         r.group = s.group, r.udpMode = s.udpMode,
         \A f \in PortFields \union {"protocol", "enabled"} : r[f] = s[f]
  PROVE  r = s
<1>1. \A f \in Fields : r[f] = s[f]
  BY DEF Fields
<1> QED BY <1>1 DEF HasFields

\* The rule the Go service stores, field by field.
LEMMA GoStoredFields ==
  ASSUME NEW in
  PROVE  LET out == GoStored(in)
         IN /\ HasFields(out)
            /\ \A f \in TextFields \union {"id"} : out[f] = GoTrim(in[f])
            /\ out.group = GoNormalizeGroup(in.group)
            /\ out.udpMode = IF in.protocol = "udp" /\ in.udpMode = Absent THEN "one-way" ELSE in.udpMode
            /\ \A f \in PortFields \union {"protocol", "enabled"} : out[f] = in[f]
BY DEF GoStored, HasFields, Fields, TextFields, PortFields

\* What RequestsAssumption says of the texts one by one.
LEMMA NamedTexts ==
  /\ "a" \in Texts /\ "padded" \in Texts /\ "new" \in Texts /\ "blank" \in Texts
  /\ "nel" \in Texts /\ "bom" \in Texts /\ "long" \in Texts /\ "astral" \in Texts
  /\ "control" \in Texts /\ "tcp" \in Texts /\ "udp" \in Texts /\ "one-way" \in Texts
  /\ "last-client" \in Texts /\ "multi-client" \in Texts
  /\ Absent \notin Texts /\ Null \notin Texts /\ Mistyped \notin Texts
  /\ Absent # Null /\ Null # Mistyped /\ Mistyped # Absent
BY RequestsAssumption DEF NonValues, Protocols, UdpModes


GoTexts == Texts \ ({"padded"} \union GoBlank)
TsTexts == Texts \ ({"padded"} \union TsBlank)

IsStored(r, texts, ids, groups) ==
  /\ HasFields(r)
  /\ \A f \in TextFields : r[f] \in texts
  /\ r.id \in ids
  /\ r.group \in {Absent} \union groups
  /\ \A f \in PortFields : r[f] \in NonValues \union Int /\ IsValidPort(r[f])
  /\ r.protocol \in Protocols /\ r.enabled \in BOOLEAN
  /\ r.protocol = "udp" => r.udpMode \in UdpModes
  /\ r.protocol # "udp" => r.udpMode = Absent

StoredByGo(r) == IsStored(r, GoTexts, GoTexts, GoTexts \ {"long", "control"})
StoredByTs(r) == IsStored(r, TsTexts, Texts \ TsBlank, TsTexts \ {"long", "astral", "control"})

\* A stored rule is a function from the fields, with values that fit them.
LEMMA WhateverIsStored ==
  ASSUME NEW r, IsStored(r, Texts, {Absent} \union Texts, Texts)
  PROVE  /\ IsRequest(r)
         /\ \A f \in Fields : r[f] # Null /\ r[f] # Mistyped
         /\ r # None
<1>1. IsStored(r, Texts, {Absent} \union Texts, Texts)
  OBVIOUS
<1>2. UdpModes \subseteq Texts /\ Protocols \subseteq Texts
  BY NamedTexts DEF UdpModes, Protocols
<1>3. IsRequest(r)
  <2>1. r.udpMode \in NonValues \union Texts
    BY <1>1, <1>2 DEF IsStored, NonValues
  <2> QED BY <1>1, <1>2, <2>1, RequestFields DEF IsStored, TextFields, PortFields, NonValues
<1>4. \A f \in Fields : r[f] # Null /\ r[f] # Mistyped
  <2>1. \A f \in TextFields \union {"id", "protocol"} : r[f] # Null /\ r[f] # Mistyped
    BY <1>1, <1>2, NamedTexts DEF IsStored
  <2>2. \A f \in {"udpMode", "group"} : r[f] # Null /\ r[f] # Mistyped
    BY <1>1, <1>2, NamedTexts DEF IsStored
  <2>3. \A f \in PortFields \union {"enabled"} : r[f] # Null /\ r[f] # Mistyped
    BY <1>1, RequestsAssumption DEF IsStored, NonValues, IsValidPort
  <2> QED BY <2>1, <2>2, <2>3 DEF Fields
<1>5. r \in [Fields -> NonValues \union Texts \union Int \union BOOLEAN]
  <2>1. \A f \in Fields : r[f] \in NonValues \union Texts \union Int \union BOOLEAN
    BY <1>3, RequestFields DEF Fields
  <2> QED BY <1>1, <2>1 DEF IsStored, HasFields
<1>6. r # None
  BY <1>5, RequestsAssumption
<1> QED BY <1>3, <1>4, <1>6

\* A stored rule is a request that could be made again.
LEMMA StoredIsRequest ==
  ASSUME NEW r, StoredByGo(r) \/ StoredByTs(r)
  PROVE  /\ IsRequest(r)
         /\ \A f \in Fields : r[f] # Null /\ r[f] # Mistyped
         /\ r # None
<1>1. IsStored(r, Texts, {Absent} \union Texts, Texts)
  BY DEF StoredByGo, StoredByTs, IsStored, GoTexts, TsTexts
<1> QED BY <1>1, WhateverIsStored

\* What the Go service accepts and stores has the shape of its stored rules.
LEMMA GoStores ==
  ASSUME NEW in, IsRequest(in), GoAccepts(in),
         \A f \in Fields : in[f] # Null /\ in[f] # Mistyped
  PROVE  StoredByGo(GoStored(in))
<1> DEFINE out == GoStored(in)
<1>1. /\ HasFields(out)
      /\ \A f \in TextFields \union {"id"} : out[f] = GoTrim(in[f])
      /\ out.group = GoNormalizeGroup(in.group)
      /\ out.udpMode = IF in.protocol = "udp" /\ in.udpMode = Absent THEN "one-way" ELSE in.udpMode
      /\ \A f \in PortFields \union {"protocol", "enabled"} : out[f] = in[f]
  BY GoStoredFields
<1> HIDE DEF out
<1>2. /\ \A f \in TextFields \union {"id", "protocol", "udpMode", "group"} :
           in[f] \in NonValues \union Texts /\ in[f] # Null /\ in[f] # Mistyped
      /\ \A f \in PortFields : in[f] \in NonValues \union Int
      /\ in.enabled \in NonValues \union BOOLEAN /\ in.enabled # Null /\ in.enabled # Mistyped
  BY RequestFields DEF Fields, PortFields, TextFields
<1>3. \A f \in TextFields \union {"id"} : out[f] \in GoTexts
  <2>1. TAKE f \in TextFields \union {"id"}
  <2>2. in[f] \in Texts /\ in[f] \notin GoBlank
    BY <1>2 DEF NonValues, GoAccepts
  <2> QED BY <1>1, <2>2, NamedTexts DEF GoTexts, GoTrim, GoBlank
<1>4. out.group \in {Absent} \union (GoTexts \ {"long", "control"})
  BY <1>1, <1>2, NamedTexts
     DEF GoTexts, GoTrim, GoNormalizeGroup, GoBlank, GoAccepts, GoGroupOk, NonValues
<1>5. \A f \in PortFields : out[f] \in NonValues \union Int /\ IsValidPort(out[f])
  BY <1>1, <1>2 DEF GoAccepts
<1>6. out.protocol \in Protocols /\ out.enabled \in BOOLEAN
  BY <1>1, <1>2 DEF GoAccepts, NonValues
<1>7. /\ out.protocol = "udp" => out.udpMode \in UdpModes
      /\ out.protocol # "udp" => out.udpMode = Absent
  BY <1>1 DEF GoAccepts, UdpModes
<1> QED BY <1>1, <1>3, <1>4, <1>5, <1>6, <1>7 DEF StoredByGo, IsStored, out

\* The Go service reads back what it stored.
LEMMA GoReadsWhatItStored ==
  ASSUME NEW r, StoredByGo(r)
  PROVE  GoDecode(r) = r /\ Decodes(r) /\ GoAccepts(r) /\ GoStored(r) = r /\ GoLoad(r) = r
<1>1. GoDecode(r) = r /\ Decodes(r)
  BY StoredIsRequest, DecodedFields DEF Decodes
<1>2. GoAccepts(r)
  <2>1. r.id \notin {Absent} \union GoBlank
    BY NamedTexts DEF StoredByGo, IsStored, GoTexts
  <2>2. \A f \in TextFields : r[f] \notin {Absent} \union GoBlank
    BY NamedTexts DEF StoredByGo, IsStored, GoTexts
  <2>3. \A f \in PortFields : IsValidPort(r[f])
    BY RequestsAssumption DEF StoredByGo, IsStored, IsValidPort, NonValues
  <2>4. r.enabled # Absent
    BY RequestsAssumption DEF StoredByGo, IsStored, NonValues
  <2>5. GoGroupOk(r.group)
    BY NamedTexts DEF StoredByGo, IsStored, GoGroupOk, GoTexts
  <2> QED BY <2>1, <2>2, <2>3, <2>4, <2>5 DEF GoAccepts, StoredByGo, IsStored
<1>3. GoStored(r) = r
  <2> DEFINE out == GoStored(r)
  <2>1. /\ HasFields(out)
        /\ \A f \in TextFields \union {"id"} : out[f] = GoTrim(r[f])
        /\ out.group = GoNormalizeGroup(r.group)
        /\ out.udpMode = IF r.protocol = "udp" /\ r.udpMode = Absent THEN "one-way" ELSE r.udpMode
        /\ \A f \in PortFields \union {"protocol", "enabled"} : out[f] = r[f]
    BY GoStoredFields
  <2> HIDE DEF out
  <2>2. \A f \in TextFields \union {"id"} : out[f] = r[f]
    BY <2>1 DEF GoTrim, StoredByGo, IsStored, GoTexts
  <2>3. out.group = r.group
    BY <2>1, NamedTexts DEF GoTrim, GoNormalizeGroup, GoBlank, StoredByGo, IsStored, GoTexts
  <2>4. out.udpMode = r.udpMode
    BY <2>1, NamedTexts DEF StoredByGo, IsStored, UdpModes
  <2>5. HasFields(r)
    BY DEF StoredByGo, IsStored
  <2>6. out = r
    BY <2>1, <2>2, <2>3, <2>4, <2>5, SameFields
  <2> QED BY <2>6 DEF out
<1> QED BY <1>1, <1>2, <1>3 DEF GoLoad, GoValidate

\* The rule the Node server stores, field by field.
LEMMA TsStoredFields ==
  ASSUME NEW in
  PROVE  LET out == TsStored(in)
         IN /\ HasFields(out)
            /\ \A f \in TextFields : out[f] = GoTrim(in[f])
            /\ out.group = TsNormalizeGroup(in.group)
            /\ out.udpMode = IF in.protocol = "udp" /\ in.udpMode = Absent THEN "one-way" ELSE in.udpMode
            /\ \A f \in PortFields \union {"id", "protocol", "enabled"} : out[f] = in[f]
BY DEF TsStored, HasFields, Fields, TextFields, PortFields

\* What the Node server accepts and stores has the shape of its stored rules.
LEMMA TsStores ==
  ASSUME NEW in, IsRequest(in), TsAccepts(in)
  PROVE  /\ TsStored(in) # None /\ HasFields(TsStored(in))
         /\ IF in.id = Absent THEN StoredByTs([TsStored(in) EXCEPT !.id = "new"])
                              ELSE StoredByTs(TsStored(in))
<1> DEFINE out == TsStored(in)
<1>1. /\ HasFields(out)
      /\ \A f \in TextFields : out[f] = GoTrim(in[f])
      /\ out.group = TsNormalizeGroup(in.group)
      /\ out.udpMode = IF in.protocol = "udp" /\ in.udpMode = Absent THEN "one-way" ELSE in.udpMode
      /\ \A f \in PortFields \union {"id", "protocol", "enabled"} : out[f] = in[f]
  BY TsStoredFields
<1> HIDE DEF out
<1>2. /\ \A f \in TextFields \union {"id", "protocol", "udpMode", "group"} :
           in[f] \in NonValues \union Texts
      /\ \A f \in PortFields : in[f] \in NonValues \union Int
  BY RequestFields DEF Fields, PortFields, TextFields
<1>3. \A f \in TextFields : out[f] \in TsTexts
  <2>1. TAKE f \in TextFields
  <2>2. in[f] \in Texts /\ in[f] \notin TsBlank
    BY <1>2 DEF NonValues, TsAccepts, IsNonEmptyString
  <2> QED BY <1>1, <2>2, NamedTexts DEF TsTexts, GoTrim, TsBlank
<1>4. out.group \in {Absent} \union (TsTexts \ {"long", "astral", "control"})
  BY <1>1, <1>2, NamedTexts
     DEF TsTexts, GoTrim, TsNormalizeGroup, TsBlank, TsAccepts, TsGroupOk, NonValues
<1>5. \A f \in PortFields : out[f] \in NonValues \union Int /\ IsValidPort(out[f])
  BY <1>1, <1>2 DEF TsAccepts
<1>6. out.protocol \in Protocols /\ out.enabled \in BOOLEAN
  BY <1>1 DEF TsAccepts
<1>7. /\ out.protocol = "udp" => out.udpMode \in UdpModes
      /\ out.protocol # "udp" => out.udpMode = Absent
  BY <1>1 DEF TsAccepts, UdpModes
<1>8. /\ out.id = in.id
      /\ in.id # Absent => out.id \in Texts \ TsBlank
  BY <1>1, <1>2 DEF TsAccepts, IsNonEmptyString, NonValues
<1>9. IsStored(out, TsTexts, {Absent} \union (Texts \ TsBlank), TsTexts \ {"long", "astral", "control"})
  BY <1>1, <1>3, <1>4, <1>5, <1>6, <1>7, <1>8 DEF IsStored
<1>10. out # None
  <2>1. IsStored(out, Texts, {Absent} \union Texts, Texts)
    BY <1>9 DEF IsStored, TsTexts
  <2> QED BY <2>1, WhateverIsStored
<1>11. ASSUME in.id = Absent
       PROVE  StoredByTs([out EXCEPT !.id = "new"])
  <2> DEFINE new == [out EXCEPT !.id = "new"]
  <2>1. /\ HasFields(new) /\ new.id = "new"
        /\ \A f \in Fields \ {"id"} : new[f] = out[f]
    BY <1>1 DEF HasFields, Fields
  <2> HIDE DEF new
  <2>2. /\ \A f \in TextFields \union PortFields \union {"group", "protocol", "enabled", "udpMode"} : new[f] = out[f]
        /\ new.id \in Texts \ TsBlank
    BY <2>1, NamedTexts DEF Fields, TextFields, PortFields, TsBlank
  <2>3. StoredByTs(new)
    BY <1>9, <2>1, <2>2 DEF StoredByTs, IsStored
  <2> QED BY <2>3 DEF new
<1>12. in.id # Absent => StoredByTs(out)
  BY <1>8, <1>9 DEF StoredByTs, IsStored
<1> QED BY <1>1, <1>10, <1>11, <1>12 DEF out

\* The Node server reads back what it stored.
LEMMA TsReadsWhatItStored ==
  ASSUME NEW r, StoredByTs(r)
  PROVE  TsAccepts(r) /\ TsStored(r) = r /\ TsLoad(r) = r /\ r.id # Absent
<1>1. r.id \in Texts /\ r.id \notin TsBlank /\ r.id # Absent
  BY NamedTexts DEF StoredByTs, IsStored
<1>2. TsAccepts(r)
  <2>2. \A f \in TextFields : IsNonEmptyString(r[f])
    BY NamedTexts DEF StoredByTs, IsStored, TsTexts, IsNonEmptyString
  <2>3. IsNonEmptyString(r.id)
    BY <1>1, NamedTexts DEF IsNonEmptyString
  <2>5. TsGroupOk(r.group)
    BY NamedTexts DEF StoredByTs, IsStored, TsGroupOk, TsTexts
  <2>6. r.udpMode # Absent => r.protocol = "udp" /\ r.udpMode \in UdpModes
    BY DEF StoredByTs, IsStored
  <2> QED BY <2>2, <2>3, <2>5, <2>6 DEF TsAccepts, StoredByTs, IsStored
<1>3. TsStored(r) = r
  <2> DEFINE out == TsStored(r)
  <2>1. /\ HasFields(out)
        /\ \A f \in TextFields : out[f] = GoTrim(r[f])
        /\ out.group = TsNormalizeGroup(r.group)
        /\ out.udpMode = IF r.protocol = "udp" /\ r.udpMode = Absent THEN "one-way" ELSE r.udpMode
        /\ \A f \in PortFields \union {"id", "protocol", "enabled"} : out[f] = r[f]
    BY TsStoredFields
  <2> HIDE DEF out
  <2>2. \A f \in TextFields \union {"id"} : out[f] = r[f]
    BY <2>1 DEF GoTrim, StoredByTs, IsStored, TsTexts
  <2>3. out.group = r.group
    BY <2>1, NamedTexts DEF GoTrim, TsNormalizeGroup, TsBlank, StoredByTs, IsStored, TsTexts
  <2>4. out.udpMode = r.udpMode
    BY <2>1, NamedTexts DEF StoredByTs, IsStored, UdpModes
  <2>5. HasFields(r)
    BY DEF StoredByTs, IsStored
  <2>6. out = r
    BY <2>1, <2>2, <2>3, <2>4, <2>5, SameFields
  <2> QED BY <2>6 DEF out
<1> QED BY <1>1, <1>2, <1>3 DEF TsLoad, TsValidate

\* What a service has stored it reads back.
LEMMA StoredByGoMoves ==
  ASSUME NEW r, StoredByGo(r), ~ HasExotic(r)
  PROVE  TsLoad(r) = r
<1>1. \A f \in TextFields \union {"id", "group"} : r[f] \notin Exotic
  BY DEF HasExotic
<1>2. StoredByTs(r)
  <2>1. \A f \in TextFields : r[f] \in TsTexts
    BY <1>1 DEF StoredByGo, IsStored, GoTexts, GoBlank, TsTexts, TsBlank, Exotic
  <2>2. r.id \in Texts \ TsBlank
    BY <1>1 DEF StoredByGo, IsStored, GoTexts, GoBlank, TsBlank, Exotic
  <2>3. r.group \in {Absent} \union (TsTexts \ {"long", "astral", "control"})
    BY <1>1 DEF StoredByGo, IsStored, GoTexts, GoBlank, TsTexts, TsBlank, Exotic
  <2> QED BY <2>1, <2>2, <2>3 DEF StoredByGo, StoredByTs, IsStored
<1> QED BY <1>2, TsReadsWhatItStored

\* What the Node server stored is read by the Go service, with its id trimmed.
LEMMA StoredByTsMoves ==
  ASSUME NEW r, StoredByTs(r), ~ HasExotic(r)
  PROVE  GoLoad(r) = [r EXCEPT !.id = GoTrim(@)]
<1> DEFINE s == [r EXCEPT !.id = GoTrim(@)]
           out == GoStored(r)
<1>1. \A f \in TextFields \union {"id", "group"} : r[f] \notin Exotic
  BY DEF HasExotic
<1>2. GoDecode(r) = r /\ Decodes(r)
  BY StoredIsRequest, DecodedFields DEF Decodes
<1>3. GoAccepts(r)
  <2>1. r.id \notin {Absent} \union GoBlank
    BY <1>1, NamedTexts DEF StoredByTs, IsStored, Exotic, GoBlank, TsBlank
  <2>2. \A f \in TextFields : r[f] \notin {Absent} \union GoBlank
    BY <1>1, NamedTexts DEF StoredByTs, IsStored, TsTexts, Exotic, GoBlank, TsBlank
  <2>4. r.enabled # Absent
    BY RequestsAssumption DEF StoredByTs, IsStored, NonValues
  <2>5. GoGroupOk(r.group)
    BY NamedTexts DEF StoredByTs, IsStored, GoGroupOk, TsTexts
  <2>6. r.udpMode # Absent => r.protocol = "udp" /\ r.udpMode \in UdpModes
    BY DEF StoredByTs, IsStored
  <2> QED BY <2>1, <2>2, <2>4, <2>5, <2>6 DEF GoAccepts, StoredByTs, IsStored
<1>4. out = s
  <2>1. /\ HasFields(out)
        /\ \A f \in TextFields \union {"id"} : out[f] = GoTrim(r[f])
        /\ out.group = GoNormalizeGroup(r.group)
        /\ out.udpMode = IF r.protocol = "udp" /\ r.udpMode = Absent THEN "one-way" ELSE r.udpMode
        /\ \A f \in PortFields \union {"protocol", "enabled"} : out[f] = r[f]
    BY GoStoredFields
  <2>2. HasFields(r)
    BY DEF StoredByTs, IsStored
  <2>3. /\ HasFields(s) /\ s.id = GoTrim(r.id)
        /\ \A f \in Fields \ {"id"} : s[f] = r[f]
    BY <2>2 DEF HasFields, Fields
  <2> HIDE DEF out, s
  <2>4. \A f \in TextFields \union {"id"} : out[f] = s[f]
    BY <2>1, <2>3 DEF GoTrim, StoredByTs, IsStored, TsTexts, TextFields, Fields
  <2>5. out.group = s.group
    BY <1>1, <2>1, <2>3, NamedTexts
       DEF GoTrim, GoNormalizeGroup, GoBlank, TsBlank, StoredByTs, IsStored, TsTexts, Exotic, Fields
  <2>6. out.udpMode = s.udpMode
    BY <2>1, <2>3, NamedTexts DEF StoredByTs, IsStored, UdpModes, Fields
  <2>7. \A f \in PortFields \union {"protocol", "enabled"} : out[f] = s[f]
    BY <2>1, <2>3 DEF PortFields, Fields
  <2> QED BY <2>1, <2>3, <2>4, <2>5, <2>6, <2>7, SameFields
<1> QED BY <1>2, <1>3, <1>4 DEF GoLoad, GoValidate

\* What config migrate wrote loads, unless only the CLI takes it.
LEMMA MigratedRulesLoad ==
  ASSUME NEW file, IsRequest(file), CliMigrate(file) # None
  PROVE  GoLoad(CliMigrate(file)) = None <=> OnlyCliTakes(CliMigrate(file))
<1> DEFINE rule == CliDecode(file)
           m == CliMigrate(file)
<1>1. Decodes(file) /\ CliValidates(rule) /\ m = [rule EXCEPT !.group = GoNormalizeGroup(@)]
  BY DEF CliMigrate
<1>2. /\ HasFields(rule)
      /\ \A f \in Fields \ (PortFields \union {"enabled"}) :
           rule[f] = IF file[f] \in {Absent, Null} THEN Absent ELSE file[f]
      /\ \A f \in PortFields : rule[f] = IF file[f] \in {Absent, Null} THEN 0 ELSE file[f]
      /\ rule.enabled = IF file.enabled \in {Absent, Null} THEN FALSE ELSE file.enabled
  BY DEF CliDecode, HasFields, Fields, PortFields
<1> HIDE DEF rule
<1>3. /\ HasFields(m) /\ m.group = GoNormalizeGroup(rule.group)
      /\ \A f \in Fields \ {"group"} : m[f] = rule[f]
  BY <1>1, <1>2 DEF HasFields, Fields
<1> HIDE DEF m
<1>4. \A f \in Fields : file[f] # Mistyped
  BY <1>1 DEF Decodes
<1>5. \A f \in TextFields \union {"id", "protocol", "udpMode"} :
        m[f] \in {Absent} \union Texts
  BY <1>2, <1>3, <1>4, RequestFields DEF Fields, TextFields, PortFields, NonValues
<1>6. m.group \in {Absent} \union Texts
  BY <1>2, <1>3, <1>4, RequestFields, NamedTexts
     DEF Fields, PortFields, NonValues, GoNormalizeGroup, GoTrim, GoBlank
<1>7. \A f \in PortFields : m[f] \in Int /\ IsValidPort(m[f])
  BY <1>1, <1>2, <1>3, RequestFields DEF Fields, PortFields, CliValidates, NonValues, IsValidPort
<1>8. m.enabled \in BOOLEAN
  BY <1>2, <1>3, <1>4, RequestFields DEF Fields, NonValues
<1>9. IsRequest(m)
  BY <1>3, <1>5, <1>6, <1>7, <1>8, RequestFields DEF NonValues
<1>10. \A f \in Fields : m[f] # Null /\ m[f] # Mistyped
  <2>1. \A f \in TextFields \union {"id", "protocol", "udpMode", "group"} : m[f] # Null /\ m[f] # Mistyped
    BY <1>5, <1>6, NamedTexts
  <2>2. \A f \in PortFields \union {"enabled"} : m[f] # Null /\ m[f] # Mistyped
    BY <1>7, <1>8, RequestsAssumption DEF NonValues, IsValidPort
  <2> QED BY <2>1, <2>2 DEF Fields
<1>11. GoDecode(m) = m
  BY <1>9, <1>10, DecodedFields DEF Decodes
<1>12. GoAccepts(m) <=> ~ OnlyCliTakes(m)
  <2>1. \A f \in TextFields : m[f] # Absent
    BY <1>1, <1>3 DEF CliValidates, Fields, TextFields
  <2>2. m.protocol \in Protocols
    BY <1>1, <1>3 DEF CliValidates, Fields
  <2>3. m.enabled # Absent
    BY <1>8, RequestsAssumption DEF NonValues
  <2>4. m.protocol = "udp" => m.udpMode \in UdpModes \union {Absent}
    BY <1>1, <1>3 DEF CliValidates, Fields
  <2>5. GoGroupOk(m.group)
    BY <1>1, <1>3, NamedTexts DEF CliValidates, GoGroupOk, GoNormalizeGroup, GoTrim
  <2> QED BY <1>7, <2>1, <2>2, <2>3, <2>4, <2>5 DEF GoAccepts, OnlyCliTakes, Protocols
<1>13. GoAccepts(m) => GoStored(m) # None
  BY <1>9, <1>10, GoStores, StoredIsRequest
<1> QED BY <1>11, <1>12, <1>13 DEF GoLoad, GoValidate, m

\* What the Go service stored is migrated to itself.
LEMMA StoredMigratesToItself ==
  ASSUME NEW r, StoredByGo(r)
  PROVE  CliMigrate(r) = r
<1> DEFINE rule == CliDecode(r)
<1>1. /\ HasFields(r)
      /\ \A f \in Fields : r[f] # Null /\ r[f] # Mistyped
      /\ \A f \in PortFields \union {"enabled"} : r[f] # Absent
  BY StoredIsRequest, RequestsAssumption DEF StoredByGo, IsStored, IsValidPort, NonValues
<1>2. rule = r
  BY <1>1 DEF CliDecode, HasFields, Fields, PortFields
<1> HIDE DEF rule
<1>3. Decodes(r)
  BY <1>1 DEF Decodes
<1>4. CliValidates(r)
  <2>1. \A f \in TextFields : r[f] # Absent
    BY NamedTexts DEF StoredByGo, IsStored, GoTexts
  <2>2. GoGroupOk(r.group)
    BY NamedTexts DEF StoredByGo, IsStored, GoGroupOk, GoTexts
  <2> QED BY <2>1, <2>2 DEF CliValidates, StoredByGo, IsStored
<1>5. GoNormalizeGroup(r.group) = r.group
  BY NamedTexts DEF GoTrim, GoNormalizeGroup, GoBlank, StoredByGo, IsStored, GoTexts
<1>6. [r EXCEPT !.group = r.group] = r
  BY <1>1 DEF HasFields, Fields
<1> QED BY <1>2, <1>3, <1>4, <1>5, <1>6 DEF CliMigrate, rule

\* The group of a stored rule is a name for group operations.
LEMMA StoredGroupsAreNames ==
  ASSUME NEW r
  PROVE  /\ StoredByGo(r) /\ r.group # Absent => GoGroupName(r.group) = r.group
         /\ StoredByTs(r) /\ r.group # Absent => TsGroupName(r.group) = r.group
<1>1. StoredByGo(r) /\ r.group # Absent => GoGroupName(r.group) = r.group
  BY DEF StoredByGo, IsStored, GoTexts, GoGroupName, GoGroupOk, GoTrim
<1>2. StoredByTs(r) /\ r.group # Absent => TsGroupName(r.group) = r.group
  BY NamedTexts
     DEF StoredByTs, IsStored, TsTexts, TsGroupName, TsGroupOk, GoTrim, IsNonEmptyString
<1> QED BY <1>1, <1>2

-----------------------------------------------------------------------------

\* The request as CreateRule validates it.
WithId(in) == IF in.id = Absent THEN [in EXCEPT !.id = "new"] ELSE in

\* A request that is given an id is still a request, and decodes like it.
LEMMA CompletedRequest ==
  ASSUME NEW req, IsRequest(req), Decodes(req)
  PROVE  LET in == WithId(GoDecode(req))
         IN /\ IsRequest(in)
            /\ \A f \in Fields : in[f] # Null /\ in[f] # Mistyped
            /\ \A f \in Fields \ {"id"} :
                 in[f] = IF req[f] = Null THEN Absent ELSE req[f]
            /\ in.id = IF req.id \in {Null, Absent} THEN "new" ELSE req.id
<1> DEFINE read == GoDecode(req)
           in == WithId(read)
<1>1. /\ IsRequest(read)
      /\ \A f \in Fields : read[f] # Null /\ read[f] # Mistyped
  BY DecodedFields
<1>2. \A f \in Fields : read[f] = IF req[f] = Null THEN Absent ELSE req[f]
  BY DEF GoDecode
<1> HIDE DEF read
<1>3. /\ HasFields(in)
      /\ \A f \in Fields \ {"id"} : in[f] = read[f]
      /\ in.id = IF read.id = Absent THEN "new" ELSE read.id
  BY <1>1 DEF WithId, IsRequest, HasFields, Fields
<1> HIDE DEF in
<1>4. IsRequest(in)
  <2>1. in.id \in NonValues \union Texts
    BY <1>1, <1>3, RequestFields, NamedTexts
  <2> QED BY <1>1, <1>3, <2>1, RequestFields DEF Fields, TextFields, PortFields
<1>5. in.id # Null /\ in.id # Mistyped
  BY <1>1, <1>3, NamedTexts DEF Fields
<1>6. in.id = IF req.id \in {Null, Absent} THEN "new" ELSE req.id
  BY <1>2, <1>3 DEF Fields
<1> QED BY <1>1, <1>2, <1>3, <1>4, <1>5, <1>6 DEF in, read

\* What the Go service creates has the shape of its stored rules.
LEMMA GoCreates ==
  ASSUME NEW req, IsRequest(req), GoCreate(req) # None
  PROVE  StoredByGo(GoCreate(req))
<1> DEFINE in == WithId(GoDecode(req))
<1>1. Decodes(req) /\ GoAccepts(in) /\ GoCreate(req) = GoStored(in)
  BY DEF GoCreate, GoValidate, WithId
<1> QED BY <1>1, CompletedRequest, GoStores

\* What the Node server creates has the shape of its stored rules.
LEMMA TsCreates ==
  ASSUME NEW req, IsRequest(req), TsCreate(req) # None
  PROVE  StoredByTs(TsCreate(req))
<1>1. TsAccepts(req)
  BY DEF TsCreate, TsValidate
<1>2. TsStored(req).id = req.id /\ TsStored(req) # None
  BY <1>1, TsStores, TsStoredFields
<1> QED BY <1>1, <1>2, TsStores DEF TsCreate, TsValidate

\* Both services create the same rule, but for the named differences.
LEMMA CreatesAgree ==
  ASSUME NEW req, IsRequest(req), ~ CreatesDiffer(req)
  PROVE  GoCreate(req) = TsCreate(req)
<1> DEFINE in == WithId(GoDecode(req))
           ours == GoStored(in)
           theirs == TsStored(req)
<1>1. /\ \A f \in TextFields \union {"id", "group"} : req[f] \notin Exotic
      /\ req.id # Null /\ req.udpMode # Null /\ req.id # "padded"
  BY DEF CreatesDiffer, HasExotic, NullIn
<1>2. /\ \A f \in TextFields \union {"id", "protocol", "udpMode", "group"} :
           req[f] \in NonValues \union Texts
      /\ \A f \in PortFields : req[f] \in NonValues \union Int
      /\ req.enabled \in NonValues \union BOOLEAN
  BY RequestFields
<1>3. TsAccepts(req) => Decodes(req)
  <2>1. SUFFICES ASSUME TsAccepts(req) PROVE \A f \in Fields : req[f] # Mistyped
    BY DEF Decodes
  <2>2. \A f \in TextFields : req[f] # Mistyped
    BY <2>1 DEF TsAccepts, IsNonEmptyString
  <2>3. \A f \in PortFields : req[f] # Mistyped
    BY <2>1 DEF TsAccepts, IsValidPort
  <2>4. req.id # Mistyped /\ req.group # Mistyped
    BY <2>1, NamedTexts DEF TsAccepts, IsNonEmptyString, TsGroupOk
  <2>5. req.protocol # Mistyped /\ req.udpMode # Mistyped
    BY <2>1, NamedTexts DEF TsAccepts, Protocols, UdpModes
  <2>6. req.enabled # Mistyped
    BY <2>1, RequestsAssumption DEF TsAccepts, NonValues
  <2> QED BY <2>2, <2>3, <2>4, <2>5, <2>6 DEF Fields
<1>4. ASSUME Decodes(req)
      PROVE  /\ GoAccepts(in) <=> TsAccepts(req)
             /\ GoAccepts(in) => ours = IF theirs.id = Absent THEN [theirs EXCEPT !.id = "new"]
                                                              ELSE theirs
  <2>1. /\ \A f \in Fields \ {"id"} :
             in[f] = IF req[f] = Null THEN Absent ELSE req[f]
        /\ in.id = IF req.id = Absent THEN "new" ELSE req.id
        /\ \A f \in Fields : req[f] # Mistyped
    BY <1>1, <1>4, CompletedRequest DEF Decodes
  <2>2. /\ HasFields(ours)
        /\ \A f \in TextFields \union {"id"} : ours[f] = GoTrim(in[f])
        /\ ours.group = GoNormalizeGroup(in.group)
        /\ ours.udpMode = IF in.protocol = "udp" /\ in.udpMode = Absent THEN "one-way" ELSE in.udpMode
        /\ \A f \in PortFields \union {"protocol", "enabled"} : ours[f] = in[f]
    BY GoStoredFields
  <2>3. /\ HasFields(theirs)
        /\ \A f \in TextFields : theirs[f] = GoTrim(req[f])
        /\ theirs.group = TsNormalizeGroup(req.group)
        /\ theirs.udpMode = IF req.protocol = "udp" /\ req.udpMode = Absent THEN "one-way" ELSE req.udpMode
        /\ \A f \in PortFields \union {"id", "protocol", "enabled"} : theirs[f] = req[f]
    BY TsStoredFields
  <2> HIDE DEF in, ours, theirs
  <2>4. /\ \A f \in TextFields :
             in[f] \notin {Absent} \union GoBlank <=> IsNonEmptyString(req[f])
        /\ \A f \in PortFields : IsValidPort(in[f]) <=> IsValidPort(req[f])
    <3>1. \A f \in TextFields :
             in[f] \notin {Absent} \union GoBlank <=> IsNonEmptyString(req[f])
      BY <1>1, <1>2, <2>1, NamedTexts
         DEF IsNonEmptyString, Exotic, GoBlank, TsBlank, Fields, TextFields
    <3>2. \A f \in PortFields : IsValidPort(in[f]) <=> IsValidPort(req[f])
      BY <2>1 DEF IsValidPort, Fields, PortFields
    <3> QED BY <3>1, <3>2
  <2>5. in.id \notin {Absent} \union GoBlank
        <=> (req.id # Absent => IsNonEmptyString(req.id))
    BY <1>1, <1>2, <2>1, NamedTexts DEF IsNonEmptyString, Exotic, GoBlank, TsBlank, Fields
  <2>6. in.enabled # Absent <=> req.enabled \in BOOLEAN
    BY <1>2, <2>1, RequestsAssumption DEF NonValues, Fields
  <2>7. in.protocol \in Protocols <=> req.protocol \in Protocols
    BY <2>1, NamedTexts DEF Protocols, Fields
  <2>8. in.udpMode = req.udpMode /\ (in.protocol = "udp" <=> req.protocol = "udp")
    BY <1>1, <2>1, NamedTexts DEF Fields
  <2>9. GoGroupOk(in.group) <=> TsGroupOk(req.group)
    BY <1>1, <2>1, NamedTexts DEF GoGroupOk, TsGroupOk, Exotic, Fields
  <2>10. GoAccepts(in) <=> TsAccepts(req)
    BY <2>4, <2>5, <2>6, <2>7, <2>8, <2>9 DEF GoAccepts, TsAccepts
  <2>11. ASSUME GoAccepts(in)
         PROVE  ours = IF theirs.id = Absent THEN [theirs EXCEPT !.id = "new"] ELSE theirs
    <3> DEFINE new == IF theirs.id = Absent THEN [theirs EXCEPT !.id = "new"] ELSE theirs
    <3>1. /\ HasFields(new)
          /\ \A f \in Fields \ {"id"} : new[f] = theirs[f]
          /\ new.id = IF req.id = Absent THEN "new" ELSE req.id
      BY <2>3 DEF HasFields, Fields
    <3> HIDE DEF new
    <3>2. \A f \in TextFields : ours[f] = new[f]
      <4>1. TAKE f \in TextFields
      <4>2. f \in Fields \ {"id"}
        BY DEF TextFields, Fields
      <4>3. in[f] # Absent
        BY <2>11 DEF GoAccepts
      <4> QED BY <2>1, <2>2, <2>3, <3>1, <4>2, <4>3
    <3>3. ours.id = new.id
      BY <1>1, <2>1, <2>2, <3>1 DEF GoTrim
    <3>4. ours.group = new.group
      BY <1>1, <1>2, <2>1, <2>2, <2>3, <3>1, NamedTexts
         DEF GoNormalizeGroup, TsNormalizeGroup, GoTrim, GoBlank, TsBlank, Exotic, Fields
    <3>5. ours.udpMode = new.udpMode
      BY <2>2, <2>3, <2>8, <3>1 DEF Fields
    <3>6. \A f \in PortFields \union {"protocol", "enabled"} : ours[f] = new[f]
      <4>1. TAKE f \in PortFields \union {"protocol", "enabled"}
      <4>2. f \in Fields \ {"id"}
        BY DEF PortFields, Fields
      <4>3. in[f] # Absent
        <5>1. in.protocol # Absent
          BY <2>11, NamedTexts DEF GoAccepts, Protocols
        <5> QED BY <2>11, <5>1 DEF GoAccepts, IsValidPort
      <4> QED BY <2>1, <2>2, <2>3, <3>1, <4>2, <4>3
    <3>7. ours = new
      BY <2>2, <3>1, <3>2, <3>3, <3>4, <3>5, <3>6, SameFields
    <3> QED BY <3>7 DEF new
  <2> QED BY <2>10, <2>11
<1>5. CASE Decodes(req) /\ TsAccepts(req)
  <2>1. theirs # None
    BY <1>5, TsStores
  <2> QED BY <1>4, <1>5, <2>1 DEF GoCreate, GoValidate, TsCreate, TsValidate, WithId
<1>6. CASE ~ TsAccepts(req)
  BY <1>4, <1>6 DEF GoCreate, GoValidate, TsCreate, TsValidate, WithId
<1> QED BY <1>3, <1>5, <1>6

-----------------------------------------------------------------------------

\* A patched rule of the Go service before it is checked, field by field.
LEMMA GoMergedFields ==
  ASSUME NEW rule, NEW p
  PROVE  LET m == GoMerge(rule, p)
         IN /\ HasFields(m)
            /\ \A f \in TextFields : m[f] = IF p[f] = Absent THEN rule[f] ELSE GoTrim(p[f])
            /\ m.id = rule.id
            /\ m.group = IF p.group = Absent THEN rule.group ELSE GoNormalizeGroup(p.group)
            /\ \A f \in PortFields \union {"protocol", "enabled"} :
                 m[f] = IF p[f] = Absent THEN rule[f] ELSE p[f]
            /\ m.udpMode = IF "tcp" = (IF p.protocol = Absent THEN rule.protocol ELSE p.protocol)
                           THEN Absent
                           ELSE IF p.udpMode = Absent THEN rule.udpMode ELSE p.udpMode
BY DEF GoMerge, HasFields, Fields, TextFields, PortFields

\* A patched rule of the Node server before it is checked, field by field.
LEMMA TsMergedFields ==
  ASSUME NEW rule, NEW p
  PROVE  LET m == TsMerge(rule, p)
         IN /\ HasFields(m)
            /\ \A f \in TextFields : m[f] = IF p[f] = Absent THEN rule[f] ELSE GoTrim(p[f])
            /\ m.id = rule.id
            /\ m.group = IF p.group \in {Absent, Null} THEN rule.group ELSE TsNormalizeGroup(p.group)
            /\ \A f \in PortFields \union {"protocol", "enabled", "udpMode"} :
                 m[f] = IF p[f] = Absent THEN rule[f] ELSE p[f]
BY DEF TsMerge, HasFields, Fields, TextFields, PortFields

\* A patch that passes the check of its fields leaves a rule in order, but for
\* a UDP rule that has no mode yet.
LEMMA GoMergesInOrder ==
  ASSUME NEW rule, StoredByGo(rule), NEW patch, IsRequest(patch), GoPatchOk(patch)
  PROVE  LET m == GoMerge(rule, GoDecode(patch))
         IN /\ IsRequest(m) /\ GoAccepts(m)
            /\ \A f \in Fields : m[f] # Null /\ m[f] # Mistyped
<1> DEFINE p == GoDecode(patch)
           m == GoMerge(rule, p)
<1>1. /\ IsRequest(p)
      /\ \A f \in Fields : p[f] # Null /\ p[f] # Mistyped
      /\ \A f \in TextFields \union {"id"} : p[f] \notin GoBlank
      /\ \A f \in PortFields : p[f] # Absent => IsValidPort(p[f])
      /\ p.protocol # Absent => p.protocol \in Protocols
      /\ p.udpMode # Absent => p.udpMode \in UdpModes
      /\ GoGroupOk(p.group)
  BY DecodedFields DEF GoPatchOk
<1>2. /\ HasFields(m)
      /\ \A f \in TextFields : m[f] = IF p[f] = Absent THEN rule[f] ELSE GoTrim(p[f])
      /\ m.id = rule.id
      /\ m.group = IF p.group = Absent THEN rule.group ELSE GoNormalizeGroup(p.group)
      /\ \A f \in PortFields \union {"protocol", "enabled"} :
           m[f] = IF p[f] = Absent THEN rule[f] ELSE p[f]
      /\ m.udpMode = IF m.protocol = "tcp" THEN Absent
                     ELSE IF p.udpMode = Absent THEN rule.udpMode ELSE p.udpMode
  BY GoMergedFields
<1> HIDE DEF p, m
<1>3. /\ \A f \in TextFields \union {"id", "protocol", "udpMode", "group"} :
           p[f] \in {Absent} \union Texts
      /\ \A f \in PortFields : p[f] \in NonValues \union Int
      /\ p.enabled \in {Absent} \union BOOLEAN
  BY <1>1, RequestFields DEF NonValues, Fields, TextFields, PortFields
<1>4. /\ HasFields(rule)
      /\ \A f \in TextFields \union {"id"} : rule[f] \in Texts /\ rule[f] \notin GoBlank
      /\ rule.group \in {Absent} \union Texts /\ GoGroupOk(rule.group)
      /\ \A f \in PortFields : rule[f] \in NonValues \union Int /\ IsValidPort(rule[f])
      /\ rule.protocol \in Protocols /\ rule.enabled \in BOOLEAN
      /\ rule.protocol = "udp" => rule.udpMode \in UdpModes
      /\ rule.protocol # "udp" => rule.udpMode = Absent
  BY NamedTexts DEF StoredByGo, IsStored, GoTexts, GoGroupOk
<1>5. \A f \in TextFields \union {"id"} : m[f] \in Texts /\ m[f] \notin GoBlank
  BY <1>1, <1>2, <1>3, <1>4, NamedTexts DEF GoTrim, GoBlank
<1>6. m.group \in {Absent} \union Texts /\ GoGroupOk(m.group)
  BY <1>1, <1>2, <1>3, <1>4, NamedTexts DEF GoTrim, GoNormalizeGroup, GoGroupOk, GoBlank
<1>7. \A f \in PortFields : m[f] \in NonValues \union Int /\ IsValidPort(m[f])
  BY <1>1, <1>2, <1>3, <1>4
<1>8. m.protocol \in Protocols /\ m.enabled \in BOOLEAN
  BY <1>1, <1>2, <1>3, <1>4
<1>9. m.udpMode \in {Absent} \union UdpModes
      /\ (m.udpMode # Absent => m.protocol = "udp")
  BY <1>1, <1>2, <1>4, <1>8 DEF Protocols
<1>10. UdpModes \subseteq Texts /\ Protocols \subseteq Texts
  BY NamedTexts DEF UdpModes, Protocols
<1>11. IsRequest(m)
  <2>1. \A f \in TextFields \union {"id", "protocol", "udpMode", "group"} :
          m[f] \in NonValues \union Texts
    BY <1>5, <1>6, <1>8, <1>9, <1>10 DEF NonValues
  <2> QED BY <1>2, <1>7, <1>8, <2>1, RequestFields
<1>12. \A f \in Fields : m[f] # Null /\ m[f] # Mistyped
  <2>1. \A f \in TextFields \union {"id", "protocol", "udpMode", "group"} :
          m[f] # Null /\ m[f] # Mistyped
    BY <1>5, <1>6, <1>8, <1>9, <1>10, NamedTexts
  <2>2. \A f \in PortFields \union {"enabled"} : m[f] # Null /\ m[f] # Mistyped
    BY <1>7, <1>8, RequestsAssumption DEF NonValues, IsValidPort
  <2> QED BY <2>1, <2>2 DEF Fields
<1>13. GoAccepts(m)
  <2>1. m.enabled # Absent
    BY <1>8, RequestsAssumption DEF NonValues
  <2>2. \A f \in TextFields \union {"id"} : m[f] \notin {Absent} \union GoBlank
    BY <1>5, NamedTexts
  <2> QED BY <1>6, <1>7, <1>8, <1>9, <2>1, <2>2 DEF GoAccepts
<1> QED BY <1>11, <1>12, <1>13 DEF m, p

\* What the Go service makes of a patch is a stored rule, and never refused late.
LEMMA GoPatches ==
  ASSUME NEW rule, StoredByGo(rule), NEW patch, IsRequest(patch)
  PROVE  /\ GoPatchOk(patch) <=> GoPatch(rule, patch) # None
         /\ GoPatchOk(patch) =>
              /\ GoPatch(rule, patch) = GoStored(GoMerge(rule, GoDecode(patch)))
              /\ StoredByGo(GoPatch(rule, patch))
<1>1. ASSUME GoPatchOk(patch)
      PROVE  /\ GoPatch(rule, patch) = GoStored(GoMerge(rule, GoDecode(patch)))
             /\ StoredByGo(GoPatch(rule, patch)) /\ GoPatch(rule, patch) # None
  BY <1>1, GoMergesInOrder, GoStores, StoredIsRequest DEF GoPatch, GoValidate
<1> QED BY <1>1 DEF GoPatch

\* A patch in order merges into a rule the Node server accepts.
LEMMA TsMergesInOrder ==
  ASSUME NEW rule, StoredByTs(rule), NEW p, IsRequest(p), TsPatchOk(p)
  PROVE  LET m == TsMerge(rule, p)
         IN /\ IsRequest(m) /\ m.id # Absent
            /\ m.udpMode \in {Absent} \union UdpModes
            /\ (m.udpMode # Absent => m.protocol = "udp") => TsAccepts(m)
<1> DEFINE m == TsMerge(rule, p)
<1>1. /\ \A f \in TextFields \union {"id"} : p[f] # Absent => IsNonEmptyString(p[f])
      /\ \A f \in PortFields : p[f] # Absent => IsValidPort(p[f])
      /\ p.protocol # Absent => p.protocol \in Protocols
      /\ p.enabled # Absent => p.enabled \in BOOLEAN
      /\ p.udpMode # Absent => p.udpMode \in UdpModes
      /\ TsGroupOk(p.group)
  BY DEF TsPatchOk
<1>2. /\ HasFields(m)
      /\ \A f \in TextFields : m[f] = IF p[f] = Absent THEN rule[f] ELSE GoTrim(p[f])
      /\ m.id = rule.id
      /\ m.group = IF p.group \in {Absent, Null} THEN rule.group ELSE TsNormalizeGroup(p.group)
      /\ \A f \in PortFields \union {"protocol", "enabled", "udpMode"} :
           m[f] = IF p[f] = Absent THEN rule[f] ELSE p[f]
  BY TsMergedFields
<1> HIDE DEF m
<1>3. /\ \A f \in TextFields \union {"id", "protocol", "udpMode", "group"} :
           p[f] \in NonValues \union Texts
      /\ \A f \in PortFields : p[f] \in NonValues \union Int
  BY RequestFields
<1>4. /\ HasFields(rule)
      /\ \A f \in TextFields : rule[f] \in Texts /\ rule[f] \notin TsBlank
      /\ rule.id \in Texts /\ rule.id \notin TsBlank
      /\ rule.group \in {Absent} \union Texts /\ TsGroupOk(rule.group)
      /\ \A f \in PortFields : rule[f] \in NonValues \union Int /\ IsValidPort(rule[f])
      /\ rule.protocol \in Protocols /\ rule.enabled \in BOOLEAN
      /\ rule.udpMode \in {Absent} \union UdpModes
  BY NamedTexts DEF StoredByTs, IsStored, TsTexts, TsGroupOk
<1>5. \A f \in TextFields : m[f] \in Texts /\ m[f] \notin TsBlank
  BY <1>1, <1>2, <1>3, <1>4, NamedTexts DEF GoTrim, TsBlank, NonValues, IsNonEmptyString
<1>6. m.group \in {Absent} \union Texts /\ TsGroupOk(m.group)
  BY <1>1, <1>2, <1>3, <1>4, NamedTexts
     DEF GoTrim, TsNormalizeGroup, TsGroupOk, TsBlank, NonValues
<1>7. \A f \in PortFields : m[f] \in NonValues \union Int /\ IsValidPort(m[f])
  BY <1>1, <1>2, <1>3, <1>4
<1>8. m.protocol \in Protocols /\ m.enabled \in BOOLEAN /\ m.udpMode \in {Absent} \union UdpModes
  BY <1>1, <1>2, <1>3, <1>4
<1>9. m.id \in Texts /\ m.id \notin TsBlank /\ m.id # Absent
  BY <1>2, <1>4, NamedTexts
<1>10. UdpModes \subseteq Texts /\ Protocols \subseteq Texts
  BY NamedTexts DEF UdpModes, Protocols
<1>11. IsRequest(m)
  <2>1. \A f \in TextFields \union {"id", "protocol", "udpMode", "group"} :
          m[f] \in NonValues \union Texts
    BY <1>5, <1>6, <1>8, <1>9, <1>10 DEF NonValues
  <2> QED BY <1>2, <1>7, <1>8, <2>1, RequestFields
<1>12. ASSUME m.udpMode # Absent => m.protocol = "udp"
       PROVE  TsAccepts(m)
  <2>1. IsNonEmptyString(m.id) /\ \A f \in TextFields : IsNonEmptyString(m[f])
    BY <1>5, <1>9, NamedTexts DEF IsNonEmptyString
  <2> QED BY <1>6, <1>7, <1>8, <1>12, <2>1 DEF TsAccepts
<1> QED BY <1>8, <1>9, <1>11, <1>12 DEF m

\* What the Node server makes of a patch is a stored rule.
LEMMA TsPatches ==
  ASSUME NEW rule, StoredByTs(rule), NEW p, IsRequest(p)
  PROVE  /\ TsPatch(rule, p) # None =>
              /\ TsPatchOk(p) /\ TsPatch(rule, p) = TsStored(TsMerge(rule, p))
              /\ StoredByTs(TsPatch(rule, p))
         /\ TsPatchOk(p) /\ ~ LeavesModeOnTcp(rule, p) => TsPatch(rule, p) # None
<1>1. ASSUME TsPatch(rule, p) # None
      PROVE  /\ TsPatchOk(p) /\ TsPatch(rule, p) = TsStored(TsMerge(rule, p))
             /\ StoredByTs(TsPatch(rule, p))
  BY <1>1, TsMergesInOrder, TsStores DEF TsPatch, TsValidate
<1>2. ASSUME TsPatchOk(p), ~ LeavesModeOnTcp(rule, p)
      PROVE  TsPatch(rule, p) # None
  <2> DEFINE m == TsMerge(rule, p)
  <2>1. /\ m.protocol = IF p.protocol = Absent THEN rule.protocol ELSE p.protocol
        /\ m.udpMode = IF p.udpMode = Absent THEN rule.udpMode ELSE p.udpMode
    BY TsMergedFields
  <2>2. m.protocol \in Protocols
    BY <1>2, <2>1 DEF TsPatchOk, StoredByTs, IsStored
  <2>3. m.udpMode # Absent => m.protocol = "udp"
    BY <1>2, <2>1, <2>2 DEF LeavesModeOnTcp, Protocols
  <2>4. IsRequest(m) /\ TsAccepts(m)
    BY <1>2, <2>3, TsMergesInOrder
  <2> QED BY <1>2, <2>4, TsStores DEF TsPatch, TsValidate
<1> QED BY <1>1, <1>2

\* Both services patch a rule they share alike, but for the named differences.
LEMMA PatchesAgree ==
  ASSUME NEW rule, StoredByGo(rule), StoredByTs(rule),
         NEW p, IsRequest(p), ~ PatchesDiffer(rule, p)
  PROVE  GoPatch(rule, p) = TsPatch(rule, p)
<1> DEFINE d == GoDecode(p)
           m == GoMerge(rule, d)
           n == TsMerge(rule, p)
<1>1. /\ \A f \in TextFields \union {"id", "group"} : p[f] \notin Exotic
      /\ \A f \in Fields \ {"group"} : p[f] # Null
      /\ ~ LeavesModeOnTcp(rule, p)
  BY DEF PatchesDiffer, HasExotic, NullIn
<1>2. /\ \A f \in TextFields \union {"id", "protocol", "udpMode", "group"} :
           p[f] \in NonValues \union Texts
      /\ \A f \in PortFields : p[f] \in NonValues \union Int
      /\ p.enabled \in NonValues \union BOOLEAN
  BY RequestFields
<1>3. /\ \A f \in Fields \ {"group"} : d[f] = p[f]
      /\ d.group = IF p.group = Null THEN Absent ELSE p.group
  BY <1>1 DEF GoDecode, Fields
<1>4. GoPatchOk(p) <=> TsPatchOk(p)
  <2>1. Decodes(p) <=> \A f \in Fields : p[f] # Mistyped
    BY DEF Decodes
  <2> HIDE DEF d, m, n
  <2>2. ASSUME TsPatchOk(p)
        PROVE  \A f \in Fields : p[f] # Mistyped
    <3>1. \A f \in TextFields \union {"id"} : p[f] # Mistyped
      BY <2>2, NamedTexts DEF TsPatchOk, IsNonEmptyString
    <3>2. \A f \in PortFields : p[f] # Mistyped
      BY <2>2, NamedTexts DEF TsPatchOk, IsValidPort
    <3>3. p.protocol # Mistyped /\ p.udpMode # Mistyped /\ p.group # Mistyped
      BY <2>2, NamedTexts DEF TsPatchOk, Protocols, UdpModes, TsGroupOk
    <3>4. p.enabled # Mistyped
      BY <2>2, RequestsAssumption DEF TsPatchOk, NonValues
    <3> QED BY <3>1, <3>2, <3>3, <3>4 DEF Fields
  <2>3. ASSUME \A f \in Fields : p[f] # Mistyped
        PROVE  /\ \A f \in TextFields \union {"id"} :
                    d[f] \notin GoBlank <=> (p[f] # Absent => IsNonEmptyString(p[f]))
               /\ GoGroupOk(d.group) <=> TsGroupOk(p.group)
               /\ p.enabled # Absent => p.enabled \in BOOLEAN
    <3>1. \A f \in TextFields \union {"id"} :
            d[f] \notin GoBlank <=> (p[f] # Absent => IsNonEmptyString(p[f]))
      <4>1. TAKE f \in TextFields \union {"id"}
      <4>2. f \in Fields \ {"group"}
        BY DEF Fields, TextFields
      <4>3. /\ d[f] = p[f] /\ p[f] # Null /\ p[f] # Mistyped /\ p[f] \notin Exotic
            /\ p[f] \in {Absent} \union Texts
        BY <1>1, <1>2, <1>3, <2>3, <4>2 DEF NonValues
      <4> QED BY <4>3, NamedTexts DEF IsNonEmptyString, Exotic, GoBlank, TsBlank
    <3>2. GoGroupOk(d.group) <=> TsGroupOk(p.group)
      BY <1>1, <1>3, <2>3, NamedTexts DEF GoGroupOk, TsGroupOk, Exotic, Fields
    <3>3. p.enabled # Absent => p.enabled \in BOOLEAN
      BY <1>1, <1>2, <2>3 DEF Fields, NonValues
    <3> QED BY <3>1, <3>2, <3>3
  <2>4. /\ \A f \in PortFields : d[f] = p[f]
        /\ d.protocol = p.protocol /\ d.udpMode = p.udpMode
    BY <1>3 DEF Fields, PortFields
  <2>5. ASSUME \A f \in Fields : p[f] # Mistyped
        PROVE  GoPatchOk(p) <=> TsPatchOk(p)
    BY <2>1, <2>3, <2>4, <2>5 DEF GoPatchOk, TsPatchOk, d
  <2> QED BY <2>1, <2>2, <2>5 DEF GoPatchOk
<1>5. CASE ~ GoPatchOk(p)
  BY <1>4, <1>5 DEF GoPatch, TsPatch
<1>6. ASSUME GoPatchOk(p)
      PROVE  GoPatch(rule, p) = TsPatch(rule, p)
  <2>1. /\ HasFields(m)
        /\ \A f \in TextFields : m[f] = IF d[f] = Absent THEN rule[f] ELSE GoTrim(d[f])
        /\ m.id = rule.id
        /\ m.group = IF d.group = Absent THEN rule.group ELSE GoNormalizeGroup(d.group)
        /\ \A f \in PortFields \union {"protocol", "enabled"} :
             m[f] = IF d[f] = Absent THEN rule[f] ELSE d[f]
        /\ m.udpMode = IF "tcp" = (IF d.protocol = Absent THEN rule.protocol ELSE d.protocol)
                       THEN Absent
                       ELSE IF d.udpMode = Absent THEN rule.udpMode ELSE d.udpMode
    BY GoMergedFields
  <2>2. /\ HasFields(n)
        /\ \A f \in TextFields : n[f] = IF p[f] = Absent THEN rule[f] ELSE GoTrim(p[f])
        /\ n.id = rule.id
        /\ n.group = IF p.group \in {Absent, Null} THEN rule.group ELSE TsNormalizeGroup(p.group)
        /\ \A f \in PortFields \union {"protocol", "enabled", "udpMode"} :
             n[f] = IF p[f] = Absent THEN rule[f] ELSE p[f]
    BY TsMergedFields
  <2>3. GoPatchOk(p) /\ TsPatchOk(p)
    BY <1>4, <1>6
  <2>4. IsRequest(m) /\ GoAccepts(m) /\ (\A f \in Fields : m[f] # Null /\ m[f] # Mistyped)
    BY <1>6, GoMergesInOrder
  <2>5. TsPatch(rule, p) # None /\ TsPatch(rule, p) = TsStored(n) /\ GoPatch(rule, p) = GoStored(m)
    BY <1>1, <2>3, GoPatches, TsPatches
  <2> HIDE DEF d, m, n
  <2>6. m = n
    <3>1. \A f \in TextFields \union PortFields \union {"protocol", "enabled"} : m[f] = n[f]
      BY <1>3, <2>1, <2>2 DEF Fields, TextFields, PortFields
    <3>2. m.group = n.group
      <4>1. p.group \notin Exotic \union {Mistyped}
        BY <1>1, <2>3, NamedTexts DEF TsPatchOk, TsGroupOk
      <4> QED BY <1>3, <2>1, <2>2, <4>1 DEF GoNormalizeGroup, TsNormalizeGroup, GoBlank, TsBlank, Exotic
    <3>3. m.udpMode = n.udpMode
      <4>1. d.protocol = p.protocol /\ d.udpMode = p.udpMode
        BY <1>3 DEF Fields
      <4> QED BY <1>1, <2>1, <2>2, <4>1 DEF LeavesModeOnTcp
    <3> QED BY <2>1, <2>2, <3>1, <3>2, <3>3, SameFields
  <2>7. GoStored(m) = TsStored(m)
    <3> DEFINE a == GoStored(m)
               b == TsStored(m)
    <3>1. /\ HasFields(a)
          /\ \A f \in TextFields \union {"id"} : a[f] = GoTrim(m[f])
          /\ a.group = GoNormalizeGroup(m.group)
          /\ a.udpMode = IF m.protocol = "udp" /\ m.udpMode = Absent THEN "one-way" ELSE m.udpMode
          /\ \A f \in PortFields \union {"protocol", "enabled"} : a[f] = m[f]
      BY GoStoredFields
    <3>2. /\ HasFields(b)
          /\ \A f \in TextFields : b[f] = GoTrim(m[f])
          /\ b.group = TsNormalizeGroup(m.group)
          /\ b.udpMode = IF m.protocol = "udp" /\ m.udpMode = Absent THEN "one-way" ELSE m.udpMode
          /\ \A f \in PortFields \union {"id", "protocol", "enabled"} : b[f] = m[f]
      BY TsStoredFields
    <3> HIDE DEF a, b
    <3>3. a.id = b.id
      <4>1. m.id \in GoTexts
        BY <2>1 DEF StoredByGo, IsStored
      <4> QED BY <3>1, <3>2, <4>1 DEF GoTrim, GoTexts
    <3>4. a.group = b.group
      <4>1. rule.group \notin TsBlank \union GoBlank
        BY NamedTexts DEF StoredByGo, StoredByTs, IsStored, GoTexts, TsTexts, TsBlank, GoBlank
      <4>2. m.group \notin Exotic
        BY <1>1, <1>3, <2>1, <4>1, NamedTexts
           DEF GoNormalizeGroup, GoTrim, GoBlank, TsBlank, Exotic, StoredByTs, IsStored, TsTexts
      <4>3. m.group # Null
        BY <2>4 DEF Fields
      <4> QED BY <3>1, <3>2, <4>2, <4>3, NamedTexts
              DEF GoNormalizeGroup, TsNormalizeGroup, GoTrim, GoBlank, TsBlank, Exotic
    <3>5. a = b
      BY <3>1, <3>2, <3>3, <3>4, SameFields
    <3> QED BY <3>5 DEF a, b
  <2> QED BY <2>5, <2>6, <2>7
<1> QED BY <1>5, <1>6

\* A patch of the Go service changes only what it names.
LEMMA GoTouchesOnly ==
  ASSUME NEW rule, StoredByGo(rule), NEW patch, IsRequest(patch)
  PROVE  TouchesOnly(rule, patch, GoPatch(rule, patch))
<1> DEFINE p == GoDecode(patch)
           m == GoMerge(rule, p)
           next == GoStored(m)
<1>1. SUFFICES ASSUME GoPatchOk(patch)
               PROVE  TouchesOnly(rule, patch, next)
  BY GoPatches DEF TouchesOnly
<1>2. /\ \A f \in TextFields : m[f] = IF p[f] = Absent THEN rule[f] ELSE GoTrim(p[f])
      /\ m.id = rule.id
      /\ m.group = IF p.group = Absent THEN rule.group ELSE GoNormalizeGroup(p.group)
      /\ \A f \in PortFields \union {"protocol", "enabled"} :
           m[f] = IF p[f] = Absent THEN rule[f] ELSE p[f]
      /\ m.udpMode = IF "tcp" = (IF p.protocol = Absent THEN rule.protocol ELSE p.protocol)
                     THEN Absent
                     ELSE IF p.udpMode = Absent THEN rule.udpMode ELSE p.udpMode
  BY GoMergedFields
<1>3. /\ \A f \in TextFields \union {"id"} : next[f] = GoTrim(m[f])
      /\ next.group = GoNormalizeGroup(m.group)
      /\ next.udpMode = IF m.protocol = "udp" /\ m.udpMode = Absent THEN "one-way" ELSE m.udpMode
      /\ \A f \in PortFields \union {"protocol", "enabled"} : next[f] = m[f]
  BY GoStoredFields
<1>4. /\ \A f \in Fields : patch[f] \in {Absent, Null} => p[f] = Absent
      /\ p.protocol # Absent => p.protocol \in Protocols /\ p.protocol = patch.protocol
  BY <1>1 DEF GoPatchOk, GoDecode, Fields
<1> HIDE DEF p, m, next
<1>5. \A f \in TextFields \union {"id"} : GoTrim(rule[f]) = rule[f]
  BY DEF GoTrim, StoredByGo, IsStored, GoTexts
<1>6. GoNormalizeGroup(rule.group) = rule.group
  BY NamedTexts DEF GoNormalizeGroup, GoTrim, GoBlank, StoredByGo, IsStored, GoTexts
<1>7. \A f \in TextFields \union PortFields \union {"protocol", "enabled"} :
        next[f] = rule[f] \/ (patch[f] \notin {Absent, Null} /\ f # "id")
  <2>1. TAKE f \in TextFields \union PortFields \union {"protocol", "enabled"}
  <2>2. f \in Fields /\ f # "id"
    BY DEF Fields, TextFields, PortFields
  <2> QED BY <1>2, <1>3, <1>4, <1>5, <2>2
<1>8. next.id = rule.id
  BY <1>2, <1>3, <1>5
<1>9. next.group = rule.group \/ patch.group \notin {Absent, Null}
  BY <1>2, <1>3, <1>4, <1>6 DEF Fields
<1>10. \/ next.udpMode = rule.udpMode
       \/ patch.udpMode \notin {Absent, Null}
       \/ patch.protocol \in Protocols
  <2>1. SUFFICES ASSUME p.udpMode = Absent, p.protocol = Absent
                 PROVE  next.udpMode = rule.udpMode
    BY <1>4 DEF Fields
  <2>2. m.protocol = rule.protocol
    BY <1>2, <2>1
  <2> QED BY <1>2, <1>3, <2>1, <2>2, NamedTexts DEF StoredByGo, IsStored, UdpModes, Protocols
<1> QED BY <1>7, <1>8, <1>9, <1>10 DEF TouchesOnly, Fields

\* A patch of the Node server changes only what it names.
LEMMA TsTouchesOnly ==
  ASSUME NEW rule, StoredByTs(rule), NEW p, IsRequest(p)
  PROVE  TouchesOnly(rule, p, TsPatch(rule, p))
<1> DEFINE m == TsMerge(rule, p)
           next == TsStored(m)
<1>1. SUFFICES ASSUME TsPatchOk(p)
               PROVE  TouchesOnly(rule, p, next)
  BY TsPatches DEF TouchesOnly
<1>2. /\ \A f \in TextFields : m[f] = IF p[f] = Absent THEN rule[f] ELSE GoTrim(p[f])
      /\ m.id = rule.id
      /\ m.group = IF p.group \in {Absent, Null} THEN rule.group ELSE TsNormalizeGroup(p.group)
      /\ \A f \in PortFields \union {"protocol", "enabled", "udpMode"} :
           m[f] = IF p[f] = Absent THEN rule[f] ELSE p[f]
  BY TsMergedFields
<1>3. /\ \A f \in TextFields : next[f] = GoTrim(m[f])
      /\ next.group = TsNormalizeGroup(m.group)
      /\ next.udpMode = IF m.protocol = "udp" /\ m.udpMode = Absent THEN "one-way" ELSE m.udpMode
      /\ \A f \in PortFields \union {"id", "protocol", "enabled"} : next[f] = m[f]
  BY TsStoredFields
<1> HIDE DEF m, next
<1>4. \A f \in Fields \ {"id", "group"} : p[f] # Null
  <2>1. \A f \in TextFields : p[f] # Null
    BY <1>1, NamedTexts DEF TsPatchOk, IsNonEmptyString
  <2>2. \A f \in PortFields : p[f] # Null
    BY <1>1, NamedTexts DEF TsPatchOk, IsValidPort
  <2>3. p.protocol # Null /\ p.udpMode # Null
    BY <1>1, NamedTexts DEF TsPatchOk, Protocols, UdpModes
  <2>4. p.enabled # Null
    BY <1>1, RequestsAssumption DEF TsPatchOk, NonValues
  <2> QED BY <2>1, <2>2, <2>3, <2>4 DEF Fields
<1>5. \A f \in TextFields : GoTrim(rule[f]) = rule[f]
  BY DEF GoTrim, StoredByTs, IsStored, TsTexts
<1>6. TsNormalizeGroup(rule.group) = rule.group
  BY NamedTexts DEF TsNormalizeGroup, GoTrim, TsBlank, StoredByTs, IsStored, TsTexts
<1>7. \A f \in TextFields \union PortFields \union {"protocol", "enabled"} :
        next[f] = rule[f] \/ (p[f] \notin {Absent, Null} /\ f # "id")
  <2>1. TAKE f \in TextFields \union PortFields \union {"protocol", "enabled"}
  <2>2. f \in Fields \ {"id", "group"}
    BY DEF Fields, TextFields, PortFields
  <2> QED BY <1>2, <1>3, <1>4, <1>5, <2>2
<1>8. next.id = rule.id
  BY <1>2, <1>3
<1>9. next.group = rule.group \/ p.group \notin {Absent, Null}
  BY <1>2, <1>3, <1>6
<1>10. \/ next.udpMode = rule.udpMode
       \/ p.udpMode \notin {Absent, Null}
       \/ p.protocol \in Protocols
  <2>1. SUFFICES ASSUME p.udpMode = Absent, p.protocol = Absent
                 PROVE  next.udpMode = rule.udpMode
    BY <1>1, <1>4 DEF Fields, TsPatchOk
  <2>2. m.protocol = rule.protocol
    BY <1>2, <2>1
  <2> QED BY <1>2, <1>3, <2>1, <2>2, NamedTexts DEF StoredByTs, IsStored, UdpModes
<1> QED BY <1>7, <1>8, <1>9, <1>10 DEF TouchesOnly, Fields

-----------------------------------------------------------------------------

LifeIInv ==
  /\ asked # None => /\ asked \in CreateRequests
                     /\ go = GoCreate(asked) /\ ts = TsCreate(asked)
  /\ go # None => StoredByGo(go)
  /\ ts # None => StoredByTs(ts)

\* There is no rule to begin with.
LEMMA LifeBegins == LifeInit => LifeIInv
BY DEF LifeInit, LifeIInv

\* Creating and patching leave rules as their services store them.
LEMMA LifeGoesOn == LifeIInv /\ LifeNext => LifeIInv'
<1> SUFFICES ASSUME LifeIInv, LifeNext PROVE LifeIInv'
  OBVIOUS
<1>1. ASSUME NEW req \in CreateRequests, Create(req)
      PROVE  LifeIInv'
  <2>1. IsRequest(req)
    BY RequestsAssumption
  <2> QED BY <1>1, <2>1, GoCreates, TsCreates DEF LifeIInv, Create
<1>2. ASSUME NEW patch \in Patches, Patch(patch)
      PROVE  LifeIInv'
  <2>1. IsRequest(patch)
    BY RequestsAssumption
  <2>2. go' # None => StoredByGo(go')
    <3>1. go # None => StoredByGo(go)
      BY DEF LifeIInv
    <3>2. go # None /\ GoPatch(go, patch) # None => StoredByGo(GoPatch(go, patch))
      BY <2>1, <3>1, GoPatches
    <3> QED BY <1>2, <3>1, <3>2 DEF Patch, OrKeep
  <2>3. ts' # None => StoredByTs(ts')
    <3>1. ts # None => StoredByTs(ts)
      BY DEF LifeIInv
    <3>2. ts # None /\ TsPatch(ts, patch) # None => StoredByTs(TsPatch(ts, patch))
      BY <2>1, <3>1, TsPatches
    <3> QED BY <1>2, <3>1, <3>2 DEF Patch, OrKeep
  <2> QED BY <1>2, <2>2, <2>3 DEF LifeIInv, Patch
<1> QED BY <1>1, <1>2 DEF LifeNext

\* Stored rules can be read back, moved, migrated and named.
LEMMA LifeTravels == LifeIInv => StoredRulesTravel
<1> SUFFICES ASSUME LifeIInv PROVE StoredRulesTravel
  OBVIOUS
<1>1. /\ go # None => StoredByGo(go)
      /\ ts # None => StoredByTs(ts)
      /\ asked # None => IsRequest(asked)
  BY RequestsAssumption DEF LifeIInv
<1>2. StoredRulesReload
  BY <1>1, GoReadsWhatItStored, TsReadsWhatItStored DEF StoredRulesReload
<1>3. RulesMoveBetweenServices
  BY <1>1, StoredByGoMoves, StoredByTsMoves DEF RulesMoveBetweenServices
<1>4. MigratedFilesLoad
  BY <1>1, MigratedRulesLoad, StoredMigratesToItself DEF MigratedFilesLoad
<1>5. StoredGroupsCanBeNamed
  BY <1>1, StoredGroupsAreNames DEF StoredGroupsCanBeNamed
<1> QED BY <1>2, <1>3, <1>4, <1>5 DEF StoredRulesTravel

\* Requests mean the same to both services.
LEMMA LifeMeansTheSame == LifeIInv => RequestsMeanTheSame
<1> SUFFICES ASSUME LifeIInv PROVE RequestsMeanTheSame
  OBVIOUS
<1>1. /\ go # None => StoredByGo(go)
      /\ ts # None => StoredByTs(ts)
      /\ asked # None => IsRequest(asked) /\ go = GoCreate(asked) /\ ts = TsCreate(asked)
      /\ \A p \in Patches : IsRequest(p)
  BY RequestsAssumption DEF LifeIInv
<1>2. TwinsAgree
  BY <1>1, CreatesAgree, PatchesAgree DEF TwinsAgree
<1>3. PatchesTouchOnlyTheirFields
  BY <1>1, GoTouchesOnly, TsTouchesOnly DEF PatchesTouchOnlyTheirFields
<1>4. CheckedPatchesApply
  BY <1>1, GoPatches, TsPatches DEF CheckedPatchesApply
<1> QED BY <1>2, <1>3, <1>4 DEF RequestsMeanTheSame

-----------------------------------------------------------------------------
ImageOf(h, S) == {h[i] : i \in S}

\* The elements of an image.
LEMMA ImageElements ==
  ASSUME NEW h, NEW S, NEW t
  PROVE  t \in ImageOf(h, S) <=> \E i \in S : t = h[i]
BY DEF ImageOf

\* A set and its image under a map that is injective on it are of one size.
LEMMA SizeOfImage ==
  ASSUME NEW S, IsFiniteSet(S), NEW h, NEW T,
         \A i, j \in S : h[i] = h[j] => i = j,
         T = ImageOf(h, S)
  PROVE  IsFiniteSet(T) /\ Cardinality(T) = Cardinality(S)
<1> DEFINE g == [i \in S |-> h[i]]
<1>1. g \in [S -> T] /\ \A i, j \in S : g[i] = g[j] => i = j
  BY ImageElements
<1>2. \A t \in T : \E i \in S : g[i] = t
  BY ImageElements
<1>3. g \in Bijection(S, T)
  BY <1>1, <1>2, Fun_IsBij
<1>4. ExistsBijection(S, T)
  BY <1>3, Fun_ExistsBij
<1> QED BY <1>4, FS_Bijection

ConfigOK(rules) ==
  /\ rules \in Seq(RuleForms)
  /\ Len(rules) \in Nat /\ DOMAIN rules = 1..Len(rules)
  /\ \A i \in DOMAIN rules : rules[i] \in RuleForms

\* A configuration has its rules at 1 to its length.
LEMMA ConfigsAreSequences ==
  ASSUME NEW rules \in Seq(RuleForms)
  PROVE  ConfigOK(rules) /\ IsFiniteSet(DOMAIN rules)
<1>1. ConfigOK(rules)
  BY LenProperties, ElementOfSeq DEF ConfigOK
<1> QED BY <1>1, FS_Interval DEF ConfigOK

\* There are finitely many rules on a binding.
LEMMA OnIsFinite ==
  ASSUME NEW rules, IsFiniteSet(DOMAIN rules), NEW b
  PROVE  IsFiniteSet(On(rules, b)) /\ Cardinality(On(rules, b)) \in Nat
<1>1. On(rules, b) \in SUBSET DOMAIN rules
  BY DEF On
<1> QED BY <1>1, FS_Subset, FS_CardinalityType

\* Two rules on a binding are a conflict.
LEMMA TwoShare ==
  ASSUME NEW rules, IsFiniteSet(DOMAIN rules), NEW b,
         NEW i \in On(rules, b), NEW j \in On(rules, b), i # j
  PROVE  Cardinality(On(rules, b)) >= 2
<1> DEFINE One == {i}
           Two == One \union {j}
<1>1. j \notin One /\ IsFiniteSet(One) /\ Cardinality(One) = 1
  BY FS_Singleton
<1>2. Two \in SUBSET On(rules, b)
  OBVIOUS
<1> HIDE DEF One
<1>3. IsFiniteSet(Two) /\ Cardinality(Two) = 2
  BY <1>1, FS_AddElement
<1> HIDE DEF Two
<1> QED BY <1>2, <1>3, OnIsFinite, FS_Subset

\* How rules may be placed in another configuration: h takes the places of
\* after to places of old where a rule has the same binding and label.
Placed(after, old, h) ==
  /\ \A i \in DOMAIN after :
       /\ h[i] \in DOMAIN old
       /\ after[i].protocol = old[h[i]].protocol
       /\ after[i].host = old[h[i]].host
       /\ after[i].port = old[h[i]].port
       /\ Label(after[i]) = Label(old[h[i]])
  /\ \A i, j \in DOMAIN after : h[i] = h[j] => i = j

\* Rules with equal protocol, host and port have one binding.
LEMMA SameBinding ==
  ASSUME NEW r, NEW s, r.protocol = s.protocol, r.host = s.host, r.port = s.port
  PROVE  (ValidBinding(r) <=> ValidBinding(s)) /\ Binding(r) = Binding(s)
<1>1. ValidBinding(r) <=> ValidBinding(s)
  BY DEF ValidBinding
<1>2. Binding(r) = Binding(s)
  BY DEF Binding
<1> QED BY <1>1, <1>2

\* The rules on a binding are placed on it, one place for each.
LEMMA PlacedOn ==
  ASSUME NEW after, NEW old, NEW h, Placed(after, old, h), NEW b,
         IsFiniteSet(DOMAIN after),
         NEW T, T = ImageOf(h, On(after, b))
  PROVE  /\ T \subseteq On(old, b)
         /\ IsFiniteSet(T) /\ Cardinality(T) = Cardinality(On(after, b))
         /\ \A i \in DOMAIN after : h[i] \in On(old, b) => i \in On(after, b)
<1>1. /\ T \subseteq On(old, b)
      /\ \A i \in DOMAIN after : h[i] \in On(old, b) => i \in On(after, b)
  <2>1. ASSUME NEW i \in DOMAIN after
        PROVE  /\ h[i] \in DOMAIN old
               /\ ValidBinding(after[i]) <=> ValidBinding(old[h[i]])
               /\ Binding(after[i]) = Binding(old[h[i]])
    BY SameBinding DEF Placed
  <2> QED BY <2>1, ImageElements DEF On
<1>2. \A i, j \in On(after, b) : h[i] = h[j] => i = j
  BY DEF Placed, On
<1>3. IsFiniteSet(On(after, b))
  BY OnIsFinite
<1>4. IsFiniteSet(T) /\ Cardinality(T) = Cardinality(On(after, b))
  BY <1>2, <1>3, SizeOfImage
<1> QED BY <1>1, <1>4

\* If every rule on the binding is placed, the conflict is the same.
LEMMA SameConflict ==
  ASSUME NEW after, NEW old, NEW h, Placed(after, old, h), NEW b,
         IsFiniteSet(DOMAIN after),
         On(old, b) = ImageOf(h, On(after, b))
  PROVE  Fingerprint(Conflict(old, b)) = Fingerprint(Conflict(after, b))
<1> DEFINE S == On(after, b)
           T == On(old, b)
           f == Restrict(after, S)
           g == Restrict(old, T)
           with(rules, l) == {i \in DOMAIN rules : Label(rules[i]) = l}
<1>1. /\ DOMAIN f = S /\ \A i \in S : f[i] = after[i]
      /\ DOMAIN g = T /\ \A i \in T : g[i] = old[i]
  BY DEF Restrict
<1>2. S \subseteq DOMAIN after /\ T = ImageOf(h, S) /\ IsFiniteSet(S)
  BY OnIsFinite DEF On
<1>3. \A i \in S : h[i] \in T /\ Label(f[i]) = Label(g[h[i]])
  BY <1>1, <1>2, ImageElements DEF Placed
<1>4. \A i, j \in S : h[i] = h[j] => i = j
  BY <1>2 DEF Placed
<1> HIDE DEF S, T, f, g
<1>5. {Label(f[i]) : i \in DOMAIN f} = {Label(g[i]) : i \in DOMAIN g}
  BY <1>1, <1>2, <1>3, ImageElements
<1>6. ASSUME NEW l
      PROVE  Cardinality(with(f, l)) = Cardinality(with(g, l))
  <2>1. with(g, l) = ImageOf(h, with(f, l))
    BY <1>1, <1>2, <1>3, ImageElements
  <2>2. \A i, j \in with(f, l) : h[i] = h[j] => i = j
    BY <1>1, <1>4
  <2>3. IsFiniteSet(with(f, l))
    <3>1. with(f, l) \in SUBSET S
      BY <1>1
    <3> QED BY <3>1, <1>2, FS_Subset
  <2> HIDE DEF with
  <2> QED BY <2>1, <2>2, <2>3, SizeOfImage
<1>7. RuleNames(f) = RuleNames(g)
  BY <1>5, <1>6 DEF RuleNames
<1> QED BY <1>7 DEF Fingerprint, Conflict, S, T, f, g

\* What a rule is reported for.
RuleCodes(r, guards) ==
  {c \in {"group_required", "lan_exposure_forbidden", "privileged_port_forbidden",
          "autostart_forbidden"} :
     \/ c = "group_required" /\ guards["requireGroup"] /\ r.group = ""
     \/ c = "lan_exposure_forbidden" /\ ~ guards["allowLanExposure"] /\ r.host = "0.0.0.0"
     \/ c = "privileged_port_forbidden" /\ ~ guards["allowPrivilegedPorts"] /\ r.port \in 1..1023
     \/ c = "autostart_forbidden" /\ ~ guards["allowAutostart"] /\ r.enabled}

\* The findings about a rule are one for each of its codes.
LEMMA FindingsOfRule ==
  ASSUME NEW r, NEW guards, NEW f
  PROVE  f \in RuleFindings(r, guards)
         <=> \E c \in RuleCodes(r, guards) : f = [code |-> c, rule |-> r]
<1> DEFINE ungrouped == guards["requireGroup"] /\ r.group = ""
           exposed == ~ guards["allowLanExposure"] /\ r.host = "0.0.0.0"
           privileged == ~ guards["allowPrivilegedPorts"] /\ r.port \in 1..1023
           automatic == ~ guards["allowAutostart"] /\ r.enabled
           finding(c) == [code |-> c, rule |-> r]
           when(condition, p) == IF condition THEN {finding(p)} ELSE {}
<1>1. RuleFindings(r, guards) =
        when(ungrouped, "group_required") \union when(exposed, "lan_exposure_forbidden")
        \union when(privileged, "privileged_port_forbidden")
        \union when(automatic, "autostart_forbidden")
  BY DEF RuleFindings
<1>2. \A c : c \in RuleCodes(r, guards)
             <=> \/ c = "group_required" /\ ungrouped
                 \/ c = "lan_exposure_forbidden" /\ exposed
                 \/ c = "privileged_port_forbidden" /\ privileged
                 \/ c = "autostart_forbidden" /\ automatic
  <2>1. RuleCodes(r, guards) =
          {c \in {"group_required", "lan_exposure_forbidden", "privileged_port_forbidden",
                  "autostart_forbidden"} :
             \/ c = "group_required" /\ ungrouped
             \/ c = "lan_exposure_forbidden" /\ exposed
             \/ c = "privileged_port_forbidden" /\ privileged
             \/ c = "autostart_forbidden" /\ automatic}
    BY DEF RuleCodes
  <2> HIDE DEF ungrouped, exposed, privileged, automatic
  <2> QED BY <2>1, Zenon
<1> HIDE DEF ungrouped, exposed, privileged, automatic, finding
<1>3. f \in RuleFindings(r, guards)
      <=> \/ ungrouped /\ f = finding("group_required")
          \/ exposed /\ f = finding("lan_exposure_forbidden")
          \/ privileged /\ f = finding("privileged_port_forbidden")
          \/ automatic /\ f = finding("autostart_forbidden")
  <2>1. /\ \A x : f \in when(ungrouped, x) <=> ungrouped /\ f = finding(x)
        /\ \A x : f \in when(exposed, x) <=> exposed /\ f = finding(x)
    OBVIOUS
  <2>2. /\ \A x : f \in when(privileged, x) <=> privileged /\ f = finding(x)
        /\ \A x : f \in when(automatic, x) <=> automatic /\ f = finding(x)
    OBVIOUS
  <2> HIDE DEF when
  <2> QED BY <1>1, <2>1, <2>2
<1>4. f \in RuleFindings(r, guards) <=> \E c \in RuleCodes(r, guards) : f = finding(c)
  BY <1>2, <1>3, Zenon
<1> QED BY <1>4 DEF finding

\* The fingerprint of a finding about a rule.
LEMMA FingerprintOfRule ==
  ASSUME NEW r, NEW guards, NEW c \in RuleCodes(r, guards)
  PROVE  /\ Fingerprint([code |-> c, rule |-> r]) = [code |-> c, on |-> Binding(r), name |-> r.name]
         /\ c # "duplicate_binding"
<1>1. c # "duplicate_binding"
  BY DEF RuleCodes
<1> QED BY <1>1 DEF Fingerprint

\* The conflicts, without the search for them.
LEMMA ConflictsFound ==
  ASSUME NEW rules, IsFiniteSet(DOMAIN rules), NEW f
  PROVE  f \in FindDuplicateBindings(rules)
         <=> \E b : Cardinality(On(rules, b)) >= 2 /\ f = Conflict(rules, b)
<1> DEFINE shared == {Binding(rules[i]) : i \in DOMAIN rules}
<1>1. ASSUME NEW b, Cardinality(On(rules, b)) >= 2
      PROVE  b \in shared
  <2>1. On(rules, b) # {}
    BY <1>1, FS_EmptySet
  <2> QED BY <2>1 DEF On
<1>2. FindDuplicateBindings(rules)
      = {Conflict(rules, b) : b \in {c \in shared : Cardinality(On(rules, c)) >= 2}}
  BY DEF FindDuplicateBindings
<1> HIDE DEF shared
<1>3. ASSUME NEW b, Cardinality(On(rules, b)) >= 2
      PROVE  Conflict(rules, b) \in FindDuplicateBindings(rules)
  BY <1>1, <1>2, <1>3
<1>4. ASSUME f \in FindDuplicateBindings(rules)
      PROVE  \E b : Cardinality(On(rules, b)) >= 2 /\ f = Conflict(rules, b)
  BY <1>2, <1>4
<1> QED BY <1>3, <1>4

\* What an evaluation finds.
LEMMA FindingsFound ==
  ASSUME NEW rules, NEW guards, NEW f
  PROVE  f \in Evaluate(rules, guards)
         <=> \/ \E i \in DOMAIN rules : f \in RuleFindings(rules[i], guards)
             \/ guards["forbidDuplicateBindings"] /\ f \in FindDuplicateBindings(rules)
<1> DEFINE own == UNION {RuleFindings(rules[i], guards) : i \in DOMAIN rules}
           shared == IF guards["forbidDuplicateBindings"] THEN FindDuplicateBindings(rules) ELSE {}
<1>1. f \in own <=> \E i \in DOMAIN rules : f \in RuleFindings(rules[i], guards)
  OBVIOUS
<1>2. f \in shared <=> guards["forbidDuplicateBindings"] /\ f \in FindDuplicateBindings(rules)
  OBVIOUS
<1>3. Evaluate(rules, guards) = own \union shared
  BY DEF Evaluate
<1> HIDE DEF own, shared
<1> QED BY <1>1, <1>2, <1>3

\* The fingerprints of the findings about a configuration.
LEMMA FingerprintsFound ==
  ASSUME NEW rules, IsFiniteSet(DOMAIN rules), NEW guards, NEW p
  PROVE  p \in Fingerprints(Evaluate(rules, guards))
         <=> \/ \E i \in DOMAIN rules : \E c \in RuleCodes(rules[i], guards) :
                  p = [code |-> c, on |-> Binding(rules[i]), name |-> rules[i].name]
             \/ /\ guards["forbidDuplicateBindings"]
                /\ \E b : Cardinality(On(rules, b)) >= 2 /\ p = Fingerprint(Conflict(rules, b))
<1>1. ASSUME NEW f
      PROVE  f \in Evaluate(rules, guards)
             <=> \/ \E i \in DOMAIN rules : f \in RuleFindings(rules[i], guards)
                 \/ guards["forbidDuplicateBindings"] /\ f \in FindDuplicateBindings(rules)
  BY FindingsFound
<1>2. p \in Fingerprints(Evaluate(rules, guards))
      <=> \E f : f \in Evaluate(rules, guards) /\ p = Fingerprint(f)
  BY Zenon DEF Fingerprints
<1>3. (\E f : p = Fingerprint(f) /\ \E i \in DOMAIN rules : f \in RuleFindings(rules[i], guards))
      <=> \E i \in DOMAIN rules : \E c \in RuleCodes(rules[i], guards) :
            p = [code |-> c, on |-> Binding(rules[i]), name |-> rules[i].name]
  <2>1. ASSUME NEW i \in DOMAIN rules, NEW f
        PROVE  f \in RuleFindings(rules[i], guards)
               <=> \E c \in RuleCodes(rules[i], guards) : f = [code |-> c, rule |-> rules[i]]
    BY FindingsOfRule
  <2>2. ASSUME NEW i \in DOMAIN rules, NEW c \in RuleCodes(rules[i], guards)
        PROVE  Fingerprint([code |-> c, rule |-> rules[i]])
               = [code |-> c, on |-> Binding(rules[i]), name |-> rules[i].name]
    BY FingerprintOfRule
  <2>3. ASSUME NEW i \in DOMAIN rules, NEW c \in RuleCodes(rules[i], guards),
               p = [code |-> c, on |-> Binding(rules[i]), name |-> rules[i].name]
        PROVE  \E f : p = Fingerprint(f) /\ f \in RuleFindings(rules[i], guards)
    <3> DEFINE f == [code |-> c, rule |-> rules[i]]
    <3>1. p = Fingerprint(f) /\ f \in RuleFindings(rules[i], guards)
      BY <2>1, <2>2, <2>3, Zenon
    <3> QED BY <3>1
  <2>4. ASSUME NEW f, p = Fingerprint(f), NEW i \in DOMAIN rules, f \in RuleFindings(rules[i], guards)
        PROVE  \E c \in RuleCodes(rules[i], guards) :
                 p = [code |-> c, on |-> Binding(rules[i]), name |-> rules[i].name]
    <3>1. PICK c \in RuleCodes(rules[i], guards) : f = [code |-> c, rule |-> rules[i]]
      BY <2>1, <2>4
    <3> QED BY <3>1, <2>2, <2>4, Zenon
  <2> QED BY <2>3, <2>4, Zenon
<1>4. (\E f : p = Fingerprint(f) /\ f \in FindDuplicateBindings(rules))
      <=> \E b : Cardinality(On(rules, b)) >= 2 /\ p = Fingerprint(Conflict(rules, b))
  <2>1. ASSUME NEW f
        PROVE  f \in FindDuplicateBindings(rules)
               <=> \E b : Cardinality(On(rules, b)) >= 2 /\ f = Conflict(rules, b)
    BY ConflictsFound
  <2> QED BY <2>1, Zenon
<1> QED BY <1>1, <1>2, <1>3, <1>4, Zenon

\* The rules of old, at other places and with other ids or switched, with
\* no more to report: no finding is new.
LEMMA Rearranged ==
  ASSUME NEW old, NEW after, NEW h, NEW guards, Placed(after, old, h),
         IsFiniteSet(DOMAIN old), IsFiniteSet(DOMAIN after),
         \A j \in DOMAIN old : \E i \in DOMAIN after : h[i] = j,
         \A i \in DOMAIN after :
           /\ after[i].name = old[h[i]].name
           /\ RuleCodes(after[i], guards) \subseteq RuleCodes(old[h[i]], guards)
  PROVE  NewFindings(old, after, guards) = {}
<1> SUFFICES ASSUME NEW p \in Fingerprints(Evaluate(after, guards))
             PROVE  p \in Fingerprints(Evaluate(old, guards))
  BY DEF NewFindings
<1>1. CASE \E i \in DOMAIN after : \E c \in RuleCodes(after[i], guards) :
             p = [code |-> c, on |-> Binding(after[i]), name |-> after[i].name]
  <2> PICK i \in DOMAIN after : \E c \in RuleCodes(after[i], guards) :
             p = [code |-> c, on |-> Binding(after[i]), name |-> after[i].name]
    BY <1>1
  <2>1. PICK c \in RuleCodes(after[i], guards) :
          p = [code |-> c, on |-> Binding(after[i]), name |-> after[i].name]
    OBVIOUS
  <2>2. h[i] \in DOMAIN old /\ c \in RuleCodes(old[h[i]], guards)
    BY DEF Placed
  <2>3. Binding(after[i]) = Binding(old[h[i]])
    BY SameBinding DEF Placed
  <2>4. p = [code |-> c, on |-> Binding(old[h[i]]), name |-> old[h[i]].name]
    BY <2>1, <2>3
  <2> QED BY <2>2, <2>4, FingerprintsFound
<1>2. CASE /\ guards["forbidDuplicateBindings"]
           /\ \E b : Cardinality(On(after, b)) >= 2 /\ p = Fingerprint(Conflict(after, b))
  <2>1. PICK b : Cardinality(On(after, b)) >= 2 /\ p = Fingerprint(Conflict(after, b))
    BY <1>2
  <2> DEFINE T == ImageOf(h, On(after, b))
  <2>2. T = ImageOf(h, On(after, b))
    OBVIOUS
  <2> HIDE DEF T
  <2>3. /\ T \subseteq On(old, b)
        /\ IsFiniteSet(T) /\ Cardinality(T) = Cardinality(On(after, b))
        /\ \A i \in DOMAIN after : h[i] \in On(old, b) => i \in On(after, b)
    BY <2>2, PlacedOn
  <2>4. On(old, b) = T
    <3>1. On(old, b) \subseteq DOMAIN old
      BY DEF On
    <3>2. ASSUME NEW j \in On(old, b) PROVE j \in T
      <4>1. PICK i \in DOMAIN after : h[i] = j
        BY <3>1
      <4> QED BY <2>2, <2>3, <4>1, ImageElements
    <3> QED BY <2>3, <3>2
  <2>5. Fingerprint(Conflict(old, b)) = Fingerprint(Conflict(after, b))
    BY <2>2, <2>4, SameConflict
  <2>6. /\ Cardinality(On(old, b)) >= 2
        /\ p = Fingerprint(Conflict(old, b))
    BY <2>1, <2>3, <2>4, <2>5
  <2> QED BY <1>2, <2>6, FingerprintsFound
<1> QED BY <1>1, <1>2, FingerprintsFound

\* Rules in another order bring no new finding.
LEMMA ReversedIsQuiet ==
  ASSUME NEW rules \in Seq(RuleForms), NEW guards
  PROVE  NewFindings(rules, Reverse(rules), guards) = {}
<1> DEFINE n == Len(rules)
           after == Reverse(rules)
           h == [i \in 1..n |-> (n - i) + 1]
<1>1. n \in Nat /\ DOMAIN rules = 1..n /\ IsFiniteSet(DOMAIN rules)
  BY ConfigsAreSequences DEF ConfigOK
<1>2. DOMAIN after = 1..n /\ \A i \in 1..n : after[i] = rules[(n - i) + 1]
  BY DEF Reverse
<1>3. \A i \in 1..n : h[i] = (n - i) + 1 /\ h[i] \in 1..n /\ h[h[i]] = i
  BY <1>1
<1> HIDE DEF n, h, after
<1>4. /\ \A i \in 1..n : h[i] \in 1..n /\ after[i] = rules[h[i]]
      /\ \A i, j \in 1..n : h[i] = h[j] => i = j
      /\ \A j \in 1..n : \E i \in 1..n : h[i] = j
  BY <1>2, <1>3
<1>5. Placed(after, rules, h)
  BY <1>1, <1>2, <1>4 DEF Placed
<1>6. \A i \in DOMAIN after :
         /\ after[i].name = rules[h[i]].name
         /\ RuleCodes(after[i], guards) \subseteq RuleCodes(rules[h[i]], guards)
  BY <1>2, <1>4
<1>7. NewFindings(rules, after, guards) = {}
  <2>1. \A j \in DOMAIN rules : \E i \in DOMAIN after : h[i] = j
    BY <1>1, <1>2, <1>4
  <2>2. IsFiniteSet(DOMAIN after)
    BY <1>1, <1>2
  <2> QED BY <1>1, <1>5, <1>6, <2>1, <2>2, Rearranged
<1> QED BY <1>7 DEF after

\* The same rules at their places, with other ids or switched, if a rule with
\* no name keeps its id and nothing more is reported of it.
LEMMA RewrittenIsQuiet ==
  ASSUME NEW rules \in Seq(RuleForms), NEW after, NEW guards,
         DOMAIN after = DOMAIN rules,
         \A i \in DOMAIN rules :
           /\ after[i].protocol = rules[i].protocol /\ after[i].host = rules[i].host
           /\ after[i].port = rules[i].port /\ after[i].name = rules[i].name
           /\ rules[i].name = "" => after[i].id = rules[i].id
           /\ RuleCodes(after[i], guards) \subseteq RuleCodes(rules[i], guards)
  PROVE  NewFindings(rules, after, guards) = {}
<1> DEFINE h == [i \in DOMAIN rules |-> i]
<1>1. IsFiniteSet(DOMAIN rules)
  BY ConfigsAreSequences
<1>2. \A i \in DOMAIN rules : h[i] = i
  OBVIOUS
<1> HIDE DEF h
<1>3. \A i \in DOMAIN rules : Label(after[i]) = Label(rules[i])
  BY DEF Label
<1>4. Placed(after, rules, h)
  BY <1>2, <1>3 DEF Placed
<1>5. \A j \in DOMAIN rules : \E i \in DOMAIN after : h[i] = j
  BY <1>2
<1>6. \A i \in DOMAIN after :
         /\ after[i].name = rules[h[i]].name
         /\ RuleCodes(after[i], guards) \subseteq RuleCodes(rules[h[i]], guards)
  BY <1>2
<1>7. IsFiniteSet(DOMAIN after)
  BY <1>1
<1> QED BY <1>1, <1>4, <1>5, <1>6, <1>7, Rearranged

\* A rule has its fields and no others, and is enabled or not.
LEMMA RulesAreRecords ==
  ASSUME NEW r \in RuleForms
  PROVE  r = [f \in RuleFields |-> r[f]] /\ r.enabled \in BOOLEAN
BY PoliciesAssumption

\* What a rule is reported for depends on its group, host and port, and on
\* being enabled if autostart is forbidden.
LEMMA SameCodes ==
  ASSUME NEW r, NEW s, NEW guards, r.group = s.group, r.host = s.host, r.port = s.port,
         r.enabled = s.enabled \/ guards["allowAutostart"]
  PROVE  RuleCodes(r, guards) \subseteq RuleCodes(s, guards)
<1> SUFFICES ASSUME NEW c \in RuleCodes(r, guards) PROVE c \in RuleCodes(s, guards)
  OBVIOUS
<1> DEFINE Four == {"group_required", "lan_exposure_forbidden", "privileged_port_forbidden",
                    "autostart_forbidden"}
           P(d, t) ==
             \/ d = "group_required" /\ guards["requireGroup"] /\ t.group = ""
             \/ d = "lan_exposure_forbidden" /\ ~ guards["allowLanExposure"] /\ t.host = "0.0.0.0"
             \/ d = "privileged_port_forbidden" /\ ~ guards["allowPrivilegedPorts"] /\ t.port \in 1..1023
             \/ d = "autostart_forbidden" /\ ~ guards["allowAutostart"] /\ t.enabled
<1>1. ASSUME P(c, r)
      PROVE  P(c, s)
  <2>1. CASE c = "group_required" /\ guards["requireGroup"] /\ r.group = ""
    <3>1. s.group = ""
      BY <2>1
    <3> QED BY <2>1, <3>1
  <2>2. CASE c = "lan_exposure_forbidden" /\ ~ guards["allowLanExposure"] /\ r.host = "0.0.0.0"
    <3>1. s.host = "0.0.0.0"
      BY <2>2
    <3> QED BY <2>2, <3>1
  <2>3. CASE c = "privileged_port_forbidden" /\ ~ guards["allowPrivilegedPorts"] /\ r.port \in 1..1023
    <3>1. s.port \in 1..1023
      BY <2>3
    <3> QED BY <2>3, <3>1
  <2>4. CASE c = "autostart_forbidden" /\ ~ guards["allowAutostart"] /\ r.enabled
    <3>1. s.enabled
      BY <2>4, Zenon
    <3> QED BY <2>4, <3>1, Zenon
  <2> QED BY <1>1, <2>1, <2>2, <2>3, <2>4, Zenon
<1>2. /\ RuleCodes(r, guards) = {d \in Four : P(d, r)}
      /\ RuleCodes(s, guards) = {d \in Four : P(d, s)}
  BY DEF RuleCodes
<1> HIDE DEF P, Four
<1> QED BY <1>1, <1>2

\* Rules with a name and another id bring no new finding.
LEMMA RenumberedIsQuiet ==
  ASSUME NEW rules \in Seq(RuleForms), NEW guards, Named(rules)
  PROVE  NewFindings(rules, Renumbered(rules), guards) = {}
<1> DEFINE after == Renumbered(rules)
<1>1. DOMAIN after = DOMAIN rules
  BY DEF Renumbered
<1>2. ASSUME NEW i \in DOMAIN rules
      PROVE  /\ after[i].protocol = rules[i].protocol /\ after[i].host = rules[i].host
             /\ after[i].port = rules[i].port /\ after[i].name = rules[i].name
             /\ after[i].group = rules[i].group /\ after[i].enabled = rules[i].enabled
  <2>1. after[i] = [rules[i] EXCEPT !.id = "new" \o @]
    BY DEF Renumbered
  <2>2. rules[i] = [f \in RuleFields |-> rules[i][f]]
    BY RulesAreRecords, ConfigsAreSequences DEF ConfigOK
  <2> HIDE DEF after
  <2> QED BY <2>1, <2>2 DEF RuleFields
<1>3. \A i \in DOMAIN rules : RuleCodes(after[i], guards) \subseteq RuleCodes(rules[i], guards)
  BY <1>2, SameCodes
<1> QED BY <1>1, <1>2, <1>3, RewrittenIsQuiet DEF Named

\* A rule that is switched brings no new finding where autostart is allowed.
LEMMA SwitchedIsQuiet ==
  ASSUME NEW rules \in Seq(RuleForms), NEW guards, guards["allowAutostart"],
         NEW k \in DOMAIN rules
  PROVE  NewFindings(rules, [rules EXCEPT ![k].enabled = ~ @], guards) = {}
<1> DEFINE after == [rules EXCEPT ![k].enabled = ~ @]
<1>1. rules \in [DOMAIN rules -> RuleForms]
  BY ConfigsAreSequences DEF ConfigOK
<1>2. DOMAIN after = DOMAIN rules
  BY <1>1
<1>3. ASSUME NEW i \in DOMAIN rules
      PROVE  /\ after[i].protocol = rules[i].protocol /\ after[i].host = rules[i].host
             /\ after[i].port = rules[i].port /\ after[i].name = rules[i].name
             /\ after[i].group = rules[i].group /\ after[i].id = rules[i].id
  <2>1. rules[i] = [f \in RuleFields |-> rules[i][f]]
    BY <1>1, RulesAreRecords
  <2>2. after[i] = rules[i] \/ after[i] = [rules[i] EXCEPT !.enabled = ~ @]
    BY <1>1
  <2> HIDE DEF after
  <2> QED BY <2>1, <2>2 DEF RuleFields
<1>4. \A i \in DOMAIN rules : RuleCodes(after[i], guards) \subseteq RuleCodes(rules[i], guards)
  <2> HIDE DEF after
  <2> QED BY <1>3, SameCodes
<1> HIDE DEF after
<1>5. NewFindings(rules, after, guards) = {}
  BY <1>2, <1>3, <1>4, RewrittenIsQuiet
<1> QED BY <1>5 DEF after

\* The rules without the one at k: those behind it move up.
LEMMA Removed ==
  ASSUME NEW rules \in Seq(RuleForms), NEW k \in DOMAIN rules
  PROVE  LET after == RemoveAt(rules, k)
         IN /\ after \in Seq(RuleForms)
            /\ DOMAIN after = 1..(Len(rules) - 1)
            /\ \A j \in 1..(Len(rules) - 1) : after[j] = rules[IF j < k THEN j ELSE j + 1]
<1> DEFINE n == Len(rules)
           front == SubSeq(rules, 1, k - 1)
           back == SubSeq(rules, k + 1, n)
<1>1. n \in Nat /\ k \in 1..n
  BY ConfigsAreSequences DEF ConfigOK
<1>2. /\ front \in Seq(RuleForms) /\ Len(front) = k - 1
      /\ \A j \in 1..(k - 1) : front[j] = rules[j]
  BY <1>1, SubSeqProperties
<1>3. /\ back \in Seq(RuleForms) /\ Len(back) = n - k
      /\ \A j \in 1..(n - k) : back[j] = rules[k + j]
  BY <1>1, SubSeqProperties
<1> HIDE DEF front, back
<1>4. RemoveAt(rules, k) = front \o back
  BY DEF RemoveAt, front, back
<1>5. /\ front \o back \in Seq(RuleForms)
      /\ Len(front \o back) = n - 1
      /\ \A j \in 1..(n - 1) : (front \o back)[j] = IF j <= k - 1 THEN front[j] ELSE back[j - (k - 1)]
  <2>1. /\ front \o back \in Seq(RuleForms)
        /\ Len(front \o back) = Len(front) + Len(back)
        /\ \A j \in 1 .. Len(front) + Len(back) :
             (front \o back)[j] = IF j <= Len(front) THEN front[j] ELSE back[j - Len(front)]
    BY <1>2, <1>3, ConcatProperties
  <2>2. Len(front) + Len(back) = n - 1
    BY <1>1, <1>2, <1>3
  <2> QED BY <1>2, <2>1, <2>2
<1>6. DOMAIN (front \o back) = 1..(n - 1)
  BY <1>5, LenProperties
<1>7. ASSUME NEW j \in 1..(n - 1)
      PROVE  (front \o back)[j] = rules[IF j < k THEN j ELSE j + 1]
  <2>1. CASE j < k
    BY <1>1, <1>2, <1>5, <2>1
  <2>2. CASE ~ (j < k)
    <3>1. j - (k - 1) \in 1..(n - k) /\ k + (j - (k - 1)) = j + 1 /\ ~ (j <= k - 1)
      BY <1>1, <2>2
    <3>2. (front \o back)[j] = back[j - (k - 1)]
      BY <1>5, <3>1
    <3> QED BY <1>3, <2>2, <3>1, <3>2
  <2> QED BY <2>1, <2>2
<1> HIDE DEF n
<1>8. n = Len(rules)
  BY DEF n
<1> QED BY <1>4, <1>5, <1>6, <1>7, <1>8

\* A finding that is new when a rule is removed is a conflict that was one of
\* three or more rules.
LEMMA RemovedRuleBringsNoFinding ==
  ASSUME NEW rules \in Seq(RuleForms), NEW k \in DOMAIN rules, NEW guards,
         NEW f \in NewFindings(rules, RemoveAt(rules, k), guards)
  PROVE  f.code = "duplicate_binding"
         /\ \E g \in FindDuplicateBindings(rules) : g.binding = f.on /\ Cardinality(DOMAIN g.rules) > 2
<1> DEFINE n == Len(rules)
           after == RemoveAt(rules, k)
           h == [j \in 1..(n - 1) |-> IF j < k THEN j ELSE j + 1]
<1>1. n \in Nat /\ DOMAIN rules = 1..n /\ k \in 1..n /\ IsFiniteSet(DOMAIN rules)
  BY ConfigsAreSequences DEF ConfigOK
<1>2. /\ DOMAIN after = 1..(n - 1) /\ IsFiniteSet(DOMAIN after)
      /\ \A j \in DOMAIN after : after[j] = rules[IF j < k THEN j ELSE j + 1]
  BY <1>1, Removed, ConfigsAreSequences
<1>3. /\ \A j \in 1..(n - 1) : h[j] = IF j < k THEN j ELSE j + 1
      /\ \A j \in 1..(n - 1) : h[j] \in 1..n /\ h[j] # k
      /\ \A i, j \in 1..(n - 1) : h[i] = h[j] => i = j
  BY <1>1
<1>4. \A i \in 1..n : i # k => \E j \in 1..(n - 1) : h[j] = i
  <2> SUFFICES ASSUME NEW i \in 1..n, i # k PROVE \E j \in 1..(n - 1) : h[j] = i
    OBVIOUS
  <2>1. CASE i < k
    <3> i \in 1..(n - 1) /\ h[i] = i
      BY <1>1, <2>1
    <3> QED OBVIOUS
  <2>2. CASE i > k
    <3> i - 1 \in 1..(n - 1) /\ h[i - 1] = i
      BY <1>1, <2>2
    <3> QED OBVIOUS
  <2> QED BY <1>1, <2>1, <2>2
<1>5. f \in Fingerprints(Evaluate(after, guards)) /\ f \notin Fingerprints(Evaluate(rules, guards))
  BY DEF NewFindings
<1> HIDE DEF n, h, after
<1>6. \A j \in DOMAIN after : h[j] \in DOMAIN rules /\ after[j] = rules[h[j]]
  BY <1>1, <1>2, <1>3
<1>7. Placed(after, rules, h)
  BY <1>2, <1>3, <1>6 DEF Placed
<1>8. ~ \E i \in DOMAIN after : \E c \in RuleCodes(after[i], guards) :
           f = [code |-> c, on |-> Binding(after[i]), name |-> after[i].name]
  BY <1>1, <1>5, <1>6, FingerprintsFound
<1>9. /\ guards["forbidDuplicateBindings"]
      /\ \E b : Cardinality(On(after, b)) >= 2 /\ f = Fingerprint(Conflict(after, b))
  <2>1. IsFiniteSet(DOMAIN after)
    BY <1>2
  <2>2. \/ \E i \in DOMAIN after : \E c \in RuleCodes(after[i], guards) :
             f = [code |-> c, on |-> Binding(after[i]), name |-> after[i].name]
        \/ /\ guards["forbidDuplicateBindings"]
           /\ \E b : Cardinality(On(after, b)) >= 2 /\ f = Fingerprint(Conflict(after, b))
    BY <1>5, <2>1, FingerprintsFound
  <2> QED BY <1>8, <2>2
<1> PICK b : Cardinality(On(after, b)) >= 2 /\ f = Fingerprint(Conflict(after, b))
  BY <1>9
<1>10. f.code = "duplicate_binding" /\ f.on = b
  BY DEF Fingerprint, Conflict
<1> DEFINE T == ImageOf(h, On(after, b))
<1>11. On(after, b) \subseteq DOMAIN after /\ On(rules, b) \subseteq DOMAIN rules
  BY DEF On
<1>12. T = ImageOf(h, On(after, b))
  OBVIOUS
<1> HIDE DEF T
<1>13. /\ T \subseteq On(rules, b) /\ IsFiniteSet(T) /\ Cardinality(T) = Cardinality(On(after, b))
       /\ \A i \in DOMAIN after : h[i] \in On(rules, b) => i \in On(after, b)
  <2> IsFiniteSet(DOMAIN after)
    BY <1>2
  <2> QED BY <1>7, <1>12, PlacedOn
<1>14. k \notin T
  BY <1>2, <1>3, <1>11, <1>12, ImageElements
<1>15. On(rules, b) \subseteq T \union {k}
  BY <1>1, <1>2, <1>4, <1>11, <1>12, <1>13, ImageElements
<1>16. k \in On(rules, b)
  <2> SUFFICES ASSUME k \notin On(rules, b) PROVE FALSE
    OBVIOUS
  <2>1. On(rules, b) = T
    BY <1>13, <1>15
  <2>2. Fingerprint(Conflict(rules, b)) = f /\ Cardinality(On(rules, b)) >= 2
    BY <1>2, <1>7, <1>12, <1>13, <2>1, SameConflict
  <2> QED BY <1>1, <1>5, <1>9, <2>2, FingerprintsFound
<1>17. On(rules, b) = T \union {k}
  BY <1>13, <1>15, <1>16
<1>18. Cardinality(On(rules, b)) > 2
  <2>1. Cardinality(T \union {k}) = Cardinality(T) + 1
    BY <1>13, <1>14, FS_AddElement
  <2>2. Cardinality(T) \in Nat
    BY <1>13, FS_CardinalityType
  <2> QED BY <1>13, <1>17, <2>1, <2>2
<1>19. Conflict(rules, b) \in FindDuplicateBindings(rules)
  BY <1>1, <1>18, ConflictsFound, OnIsFinite
<1>20. Conflict(rules, b).binding = b /\ DOMAIN Conflict(rules, b).rules = On(rules, b)
  BY DEF Conflict, Restrict
<1> QED BY <1>10, <1>18, <1>19, <1>20

\* One more rule on a binding makes another conflict of it: there is one rule
\* more of its label.
LEMMA AnotherConflict ==
  ASSUME NEW rules \in Seq(RuleForms), NEW r \in RuleForms,
         NEW b, Len(rules) + 1 \in On(Append(rules, r), b)
  PROVE  LET after == Append(rules, r)
         IN /\ Fingerprint(Conflict(rules, b)) # Fingerprint(Conflict(after, b))
            /\ On(after, b) = On(rules, b) \union {Len(rules) + 1}
<1> DEFINE after == Append(rules, r)
           n == Len(rules)
           S == On(rules, b)
           T == On(after, b)
           f == Restrict(rules, S)
           g == Restrict(after, T)
           l == Label(r)
           A == {i \in DOMAIN f : Label(f[i]) = l}
           B == {i \in DOMAIN g : Label(g[i]) = l}
<1>1. n \in Nat /\ DOMAIN rules = 1..n /\ IsFiniteSet(DOMAIN rules)
  BY ConfigsAreSequences DEF ConfigOK
<1>2. /\ DOMAIN after = 1..(n + 1) /\ after[n + 1] = r
      /\ \A i \in 1..n : after[i] = rules[i]
  <2>1. Len(after) = n + 1 /\ after \in Seq(RuleForms)
    BY AppendProperties
  <2> QED BY <2>1, AppendProperties, LenProperties
<1>3. T = S \union {n + 1} /\ n + 1 \notin S /\ n + 1 \in T
  <2>1. \A i \in 1..n : i \in T <=> i \in S
    BY <1>1, <1>2 DEF On
  <2>2. S \subseteq 1..n /\ T \subseteq 1..(n + 1)
    BY <1>1, <1>2 DEF On
  <2> HIDE DEF S, T
  <2>3. n + 1 \in T
    BY DEF T
  <2> HIDE DEF n
  <2>4. ASSUME NEW i \in T, i # n + 1
        PROVE  i \in S
    <3> i \in 1..n
      BY <1>1, <2>2, <2>4
    <3> QED BY <2>1
  <2>5. ASSUME NEW i \in S
        PROVE  i \in T /\ i # n + 1
    <3> i \in 1..n
      BY <2>2
    <3> QED BY <1>1, <2>1
  <2> QED BY <2>3, <2>4, <2>5
<1>4. IsFiniteSet(S)
  BY <1>1, OnIsFinite
<1>5. /\ DOMAIN f = S /\ \A i \in S : f[i] = rules[i]
      /\ DOMAIN g = T /\ \A i \in T : g[i] = after[i]
  BY DEF Restrict
<1>6. S \subseteq 1..n
  BY <1>1 DEF On
<1> HIDE DEF S, T, f, g, n, after
<1>7. B = A \union {n + 1} /\ n + 1 \notin A
  <2> HIDE DEF l
  <2> Label(r) = l
    BY DEF l
  <2> QED BY <1>2, <1>3, <1>5, <1>6
<1>8. IsFiniteSet(A)
  BY <1>4, <1>5, FS_Subset
<1>9. Cardinality(A) \in Nat /\ Cardinality(B) = Cardinality(A) + 1
  <2> HIDE DEF A, B
  <2> QED BY <1>7, <1>8, FS_AddElement, FS_CardinalityType
<1>10. RuleNames(f) # RuleNames(g)
  <2> SUFFICES ASSUME RuleNames(f) = RuleNames(g) PROVE FALSE
    OBVIOUS
  <2>1. l \in DOMAIN RuleNames(g) /\ RuleNames(g)[l] = Cardinality(B)
    BY <1>2, <1>3, <1>5 DEF RuleNames
  <2>2. l \in DOMAIN RuleNames(f) => RuleNames(f)[l] = Cardinality(A)
    BY DEF RuleNames
  <2> HIDE DEF l, A, B
  <2> QED BY <1>9, <2>1, <2>2
<1>11. Fingerprint(Conflict(rules, b)) # Fingerprint(Conflict(after, b))
  <2>1. /\ Fingerprint(Conflict(rules, b)).names = RuleNames(f)
        /\ Fingerprint(Conflict(after, b)).names = RuleNames(g)
    BY DEF Fingerprint, Conflict, f, g, S, T
  <2> QED BY <1>10, <2>1
<1> QED BY <1>3, <1>11 DEF S, T, n, after

\* The codes of the findings about a rule.
LEMMA CodesOfRule ==
  ASSUME NEW r, NEW guards
  PROVE  {f.code : f \in RuleFindings(r, guards)} = RuleCodes(r, guards)
<1>1. ASSUME NEW c \in RuleCodes(r, guards)
      PROVE  c \in {f.code : f \in RuleFindings(r, guards)}
  <2>1. [code |-> c, rule |-> r] \in RuleFindings(r, guards)
    BY FindingsOfRule
  <2> QED BY <2>1
<1>2. ASSUME NEW f \in RuleFindings(r, guards)
      PROVE  f.code \in RuleCodes(r, guards)
  BY FindingsOfRule
<1> QED BY <1>1, <1>2

\* A rule that is added shows, and so does the binding it takes.
LEMMA AddedRuleShows ==
  ASSUME NEW rules \in Seq(RuleForms), NEW r \in RuleForms, NEW guards
  PROVE  LET new == NewFindings(rules, Append(rules, r), guards)
             known == \E i \in DOMAIN rules : rules[i].name = r.name /\ Binding(rules[i]) = Binding(r)
             taken == \E i \in DOMAIN rules : Binding(rules[i]) = Binding(r)
         IN /\ ~ known => {f.code : f \in RuleFindings(r, guards)}
                          = {f.code : f \in new} \ {"duplicate_binding"}
            /\ taken /\ ValidBinding(r) /\ guards["forbidDuplicateBindings"] =>
                 \E f \in new : f.code = "duplicate_binding"
<1> DEFINE n == Len(rules)
           after == Append(rules, r)
           new == NewFindings(rules, after, guards)
           known == \E i \in DOMAIN rules : rules[i].name = r.name /\ Binding(rules[i]) = Binding(r)
           taken == \E i \in DOMAIN rules : Binding(rules[i]) = Binding(r)
<1>1. n \in Nat /\ DOMAIN rules = 1..n /\ IsFiniteSet(DOMAIN rules)
  BY ConfigsAreSequences DEF ConfigOK
<1>2. /\ DOMAIN after = 1..(n + 1) /\ after[n + 1] = r
      /\ \A i \in 1..n : after[i] = rules[i]
  <2>1. Len(after) = n + 1 /\ after \in Seq(RuleForms)
    BY AppendProperties
  <2> QED BY <2>1, AppendProperties, LenProperties
<1>3. IsFiniteSet(DOMAIN after)
  BY <1>1, <1>2, FS_Interval
<1>4. new = Fingerprints(Evaluate(after, guards)) \ Fingerprints(Evaluate(rules, guards))
  BY DEF NewFindings
<1>5. after = Append(rules, r)
  OBVIOUS
<1> HIDE DEF n, after, new
<1>6. ASSUME ~ known
      PROVE  RuleCodes(r, guards) = {f.code : f \in new} \ {"duplicate_binding"}
  <2>1. ASSUME NEW c \in RuleCodes(r, guards)
        PROVE  c \in {f.code : f \in new} /\ c # "duplicate_binding"
    <3> DEFINE p == [code |-> c, on |-> Binding(r), name |-> r.name]
    <3>1. c # "duplicate_binding"
      BY FingerprintOfRule
    <3>2. p \in Fingerprints(Evaluate(after, guards))
      <4>1. n + 1 \in DOMAIN after /\ after[n + 1] = r
        BY <1>1, <1>2
      <4> QED BY <1>3, <4>1, FingerprintsFound
    <3>3. ~ \E i \in DOMAIN rules : \E d \in RuleCodes(rules[i], guards) :
              p = [code |-> d, on |-> Binding(rules[i]), name |-> rules[i].name]
      BY <1>6
    <3>4. ~ \E b : p = Fingerprint(Conflict(rules, b))
      BY <3>1 DEF Fingerprint, Conflict
    <3>5. p \notin Fingerprints(Evaluate(rules, guards))
      <4> HIDE DEF p
      <4> QED BY <1>1, <3>3, <3>4, FingerprintsFound
    <3>6. p \in new /\ p.code = c
      BY <1>4, <3>2, <3>5
    <3> QED BY <3>1, <3>6
  <2>2. ASSUME NEW p \in new, p.code # "duplicate_binding"
        PROVE  p.code \in RuleCodes(r, guards)
    <3>1. p \in Fingerprints(Evaluate(after, guards)) /\ p \notin Fingerprints(Evaluate(rules, guards))
      BY <1>4
    <3>2. ~ \E b : p = Fingerprint(Conflict(after, b))
      BY <2>2 DEF Fingerprint, Conflict
    <3> PICK i \in DOMAIN after : \E c \in RuleCodes(after[i], guards) :
               p = [code |-> c, on |-> Binding(after[i]), name |-> after[i].name]
      BY <1>3, <3>1, <3>2, FingerprintsFound
    <3>3. i \notin 1..n
      <4> SUFFICES ASSUME i \in 1..n PROVE FALSE
        OBVIOUS
      <4> i \in DOMAIN rules /\ after[i] = rules[i]
        BY <1>1, <1>2
      <4> QED BY <1>1, <3>1, FingerprintsFound
    <3>4. after[i] = r
      BY <1>1, <1>2, <3>3
    <3> QED BY <3>4
  <2> QED BY <2>1, <2>2
<1>7. ASSUME taken, ValidBinding(r), guards["forbidDuplicateBindings"]
      PROVE  \E f \in new : f.code = "duplicate_binding"
  <2> DEFINE b == Binding(r)
             p == Fingerprint(Conflict(after, b))
  <2>1. n + 1 \in On(after, b)
    BY <1>1, <1>2, <1>7 DEF On
  <2>2. On(after, b) = On(rules, b) \union {n + 1} /\ p # Fingerprint(Conflict(rules, b))
    <3> HIDE DEF b
    <3>2. Len(rules) + 1 \in On(Append(rules, r), b)
      BY <1>5, <2>1 DEF n
    <3>3. /\ Fingerprint(Conflict(rules, b)) # Fingerprint(Conflict(after, b))
          /\ On(after, b) = On(rules, b) \union {Len(rules) + 1}
      BY <1>5, <3>2, AnotherConflict
    <3> QED BY <3>3 DEF n
  <2>3. PICK i \in DOMAIN rules : Binding(rules[i]) = b
    BY <1>7
  <2>4. ValidBinding(rules[i])
    <3>1. rules[i].protocol = r.protocol /\ rules[i].host = r.host /\ rules[i].port = r.port
      BY <2>3 DEF Binding
    <3> QED BY <1>7, <3>1, SameBinding
  <2>5. i \in On(after, b) /\ i # n + 1
    BY <1>1, <2>2, <2>3, <2>4 DEF On
  <2>6. Cardinality(On(after, b)) >= 2
    BY <1>3, <2>1, <2>5, TwoShare
  <2>7. p \in Fingerprints(Evaluate(after, guards))
    BY <1>3, <1>7, <2>6, FingerprintsFound
  <2>8. p.code = "duplicate_binding" /\ p.on = b /\ \A a : Fingerprint(Conflict(rules, a)).on = a
    BY DEF Fingerprint, Conflict
  <2>9. p \notin Fingerprints(Evaluate(rules, guards))
    <3>1. ~ \E j \in DOMAIN rules : \E c \in RuleCodes(rules[j], guards) :
              p = [code |-> c, on |-> Binding(rules[j]), name |-> rules[j].name]
      <4>1. ASSUME NEW j \in DOMAIN rules, NEW c \in RuleCodes(rules[j], guards)
            PROVE  p # [code |-> c, on |-> Binding(rules[j]), name |-> rules[j].name]
        <5>1. c # "duplicate_binding"
          BY FingerprintOfRule
        <5>2. [code |-> c, on |-> Binding(rules[j]), name |-> rules[j].name].code = c
          OBVIOUS
        <5> HIDE DEF p
        <5> QED BY <2>8, <5>1, <5>2
      <4> HIDE DEF p
      <4> QED BY <4>1
    <3>2. ~ \E a : p = Fingerprint(Conflict(rules, a))
      BY <2>2, <2>8
    <3> HIDE DEF p
    <3> QED BY <1>1, <3>1, <3>2, FingerprintsFound
  <2>10. p \in new
    BY <1>4, <2>7, <2>9
  <2> QED BY <2>8, <2>10
<1> QED BY <1>6, <1>7, CodesOfRule DEF new, after

\* A policy that permits what another one permits.
AsLooseAs(loose, strict) ==
  /\ \A g \in Allowances : strict[g] => loose[g]
  /\ loose["requireGroup"] => strict["requireGroup"]
  /\ loose["forbidDuplicateBindings"] => strict["forbidDuplicateBindings"]

\* A looser policy finds no more.
LEMMA LooserFindsNoMore ==
  ASSUME NEW rules, NEW loose, NEW strict, AsLooseAs(loose, strict)
  PROVE  Evaluate(rules, loose) \subseteq Evaluate(rules, strict)
<1>1. ASSUME NEW r
      PROVE  RuleFindings(r, loose) \subseteq RuleFindings(r, strict)
  <2> DEFINE Four == {"group_required", "lan_exposure_forbidden", "privileged_port_forbidden",
                      "autostart_forbidden"}
             P(d, guards) ==
               \/ d = "group_required" /\ guards["requireGroup"] /\ r.group = ""
               \/ d = "lan_exposure_forbidden" /\ ~ guards["allowLanExposure"] /\ r.host = "0.0.0.0"
               \/ d = "privileged_port_forbidden" /\ ~ guards["allowPrivilegedPorts"] /\ r.port \in 1..1023
               \/ d = "autostart_forbidden" /\ ~ guards["allowAutostart"] /\ r.enabled
  <2>1. /\ loose["requireGroup"] => strict["requireGroup"]
        /\ ~ loose["allowLanExposure"] => ~ strict["allowLanExposure"]
        /\ ~ loose["allowPrivilegedPorts"] => ~ strict["allowPrivilegedPorts"]
        /\ ~ loose["allowAutostart"] => ~ strict["allowAutostart"]
    BY DEF AsLooseAs, Allowances
  <2>2. ASSUME NEW d, P(d, loose)
        PROVE  P(d, strict)
    <3>1. CASE d = "group_required" /\ loose["requireGroup"] /\ r.group = ""
      BY <2>1, <3>1, ZenonT(60)
    <3>2. CASE d = "lan_exposure_forbidden" /\ ~ loose["allowLanExposure"] /\ r.host = "0.0.0.0"
      BY <2>1, <3>2, ZenonT(60)
    <3>3. CASE /\ d = "privileged_port_forbidden"
               /\ ~ loose["allowPrivilegedPorts"]
               /\ r.port \in 1..1023
      BY <2>1, <3>3, ZenonT(60)
    <3>4. CASE d = "autostart_forbidden" /\ ~ loose["allowAutostart"] /\ r.enabled
      BY <2>1, <3>4, ZenonT(60)
    <3> QED BY <2>2, <3>1, <3>2, <3>3, <3>4, ZenonT(60)
  <2>3. /\ RuleCodes(r, loose) = {d \in Four : P(d, loose)}
        /\ RuleCodes(r, strict) = {d \in Four : P(d, strict)}
    BY DEF RuleCodes
  <2> HIDE DEF P, Four
  <2>4. RuleCodes(r, loose) \subseteq RuleCodes(r, strict)
    BY <2>2, <2>3
  <2> QED BY <2>4, FindingsOfRule
<1> SUFFICES ASSUME NEW f \in Evaluate(rules, loose) PROVE f \in Evaluate(rules, strict)
  OBVIOUS
<1>2. \/ \E i \in DOMAIN rules : f \in RuleFindings(rules[i], loose)
      \/ loose["forbidDuplicateBindings"] /\ f \in FindDuplicateBindings(rules)
  BY FindingsFound
<1>3. \/ \E i \in DOMAIN rules : f \in RuleFindings(rules[i], strict)
      \/ strict["forbidDuplicateBindings"] /\ f \in FindDuplicateBindings(rules)
  BY <1>1, <1>2 DEF AsLooseAs
<1> QED BY <1>3, FindingsFound

\* A guardrail that is left out makes a policy looser.
LEMMA OmittingLoosens ==
  ASSUME NEW file \in [Guardrails -> {Omitted} \union BOOLEAN], NEW g \in Guardrails
  PROVE  AsLooseAs(Parse([file EXCEPT ![g] = Omitted]), Parse(file))
<1> DEFINE less == [file EXCEPT ![g] = Omitted]
<1>1. \A x \in Guardrails : less[x] = IF x = g THEN Omitted ELSE file[x]
  OBVIOUS
<1> HIDE DEF less
<1>2. ASSUME NEW x \in Allowances, Parse(file)[x]
      PROVE  Parse(less)[x]
  BY <1>1, <1>2 DEF Parse, Guardrails
<1>3. ASSUME NEW x \in Guardrails \ Allowances, Parse(less)[x]
      PROVE  Parse(file)[x]
  BY <1>1, <1>3 DEF Parse
<1>4. {"requireGroup", "forbidDuplicateBindings"} \subseteq Guardrails \ Allowances
  BY DEF Guardrails, Allowances
<1> QED BY <1>2, <1>3, <1>4 DEF AsLooseAs, less

\* The guardrails of the templates.
LEMMA TemplateGuards ==
  /\ builtinTemplates("permissive") = Guards(FALSE, TRUE, TRUE, TRUE, TRUE)
  /\ builtinTemplates("local-safe") = Guards(FALSE, FALSE, FALSE, TRUE, TRUE)
  /\ builtinTemplates("managed") = Guards(TRUE, FALSE, FALSE, FALSE, TRUE)
BY DEF builtinTemplates

\* The templates are in order.
LEMMA TemplatesLoosen ==
  /\ AsLooseAs(builtinTemplates("permissive"), builtinTemplates("local-safe"))
  /\ AsLooseAs(builtinTemplates("local-safe"), builtinTemplates("managed"))
<1> DEFINE p == builtinTemplates("permissive")
           l == builtinTemplates("local-safe")
           m == builtinTemplates("managed")
<1>1. /\ p["allowLanExposure"] = TRUE /\ p["allowPrivilegedPorts"] = TRUE
      /\ p["allowAutostart"] = TRUE /\ p["requireGroup"] = FALSE
      /\ p["forbidDuplicateBindings"] = TRUE
  BY TemplateGuards DEF Guards, Guardrails, Allowances
<1>2. /\ l["allowLanExposure"] = FALSE /\ l["allowPrivilegedPorts"] = FALSE
      /\ l["allowAutostart"] = TRUE /\ l["requireGroup"] = FALSE
      /\ l["forbidDuplicateBindings"] = TRUE
  BY TemplateGuards DEF Guards, Guardrails, Allowances
<1>3. /\ m["allowLanExposure"] = FALSE /\ m["allowPrivilegedPorts"] = FALSE
      /\ m["allowAutostart"] = FALSE /\ m["requireGroup"] = TRUE
      /\ m["forbidDuplicateBindings"] = TRUE
  BY TemplateGuards DEF Guards, Guardrails, Allowances
<1> HIDE DEF p, l, m
<1>4. AsLooseAs(p, l) /\ AsLooseAs(l, m)
  BY <1>1, <1>2, <1>3 DEF AsLooseAs, Allowances
<1> QED BY <1>4 DEF p, l, m

\* Both searches for duplicate bindings name the same rules.
LEMMA SearchesAgree ==
  ASSUME NEW rules \in Seq(RuleForms)
  PROVE  LET conflicts == FindDuplicateBindings(rules)
             named(c) == {i \in DuplicateErrors(rules) : Binding(rules[i]) = c.binding}
         IN /\ \A c \in conflicts : Cardinality(named(c)) = Cardinality(DOMAIN c.rules) - 1
            /\ DuplicateErrors(rules) = UNION {named(c) : c \in conflicts}
<1> DEFINE conflicts == FindDuplicateBindings(rules)
           named(c) == {i \in DuplicateErrors(rules) : Binding(rules[i]) = c.binding}
<1>1. DOMAIN rules = 1..Len(rules) /\ Len(rules) \in Nat /\ IsFiniteSet(DOMAIN rules)
  BY ConfigsAreSequences DEF ConfigOK
<1>2. /\ \A b : Conflict(rules, b).binding = b /\ DOMAIN Conflict(rules, b).rules = On(rules, b)
      /\ \A b : On(rules, b) \subseteq 1..Len(rules)
  BY <1>1 DEF Conflict, Restrict, On
<1>3. ASSUME NEW b
      PROVE  named(Conflict(rules, b)) = {j \in On(rules, b) : \E i \in On(rules, b) : i < j}
  <2>1. ASSUME NEW j \in DOMAIN rules, NEW i \in DOMAIN rules
        PROVE  i \in 1..(j - 1) <=> i < j
    BY <1>1
  <2>2. ASSUME NEW j \in DOMAIN rules
        PROVE  1..(j - 1) \subseteq DOMAIN rules
    BY <1>1
  <2> HIDE DEF named
  <2>3. ASSUME NEW j
        PROVE  j \in DuplicateErrors(rules) /\ Binding(rules[j]) = b
               <=> j \in On(rules, b) /\ \E i \in On(rules, b) : i < j
    BY <2>1, <2>2 DEF DuplicateErrors, On
  <2>4. \A j : j \in named(Conflict(rules, b))
               <=> j \in DuplicateErrors(rules) /\ Binding(rules[j]) = b
    BY <1>2 DEF named
  <2> QED BY <2>3, <2>4
<1>4. ASSUME NEW c \in conflicts
      PROVE  Cardinality(named(c)) = Cardinality(DOMAIN c.rules) - 1
  <2>1. PICK b : Cardinality(On(rules, b)) >= 2 /\ c = Conflict(rules, b)
    BY <1>1, ConflictsFound
  <2> DEFINE S == On(rules, b)
  <2>2. S # {} /\ S \subseteq Nat /\ IsFiniteSet(S) /\ Cardinality(S) \in Nat
    BY <1>1, <1>2, <2>1, FS_EmptySet, OnIsFinite
  <2>3. \E m \in S : \A i \in S : ~ (<<i, m>> \in OpToRel(<, Nat))
    BY <2>2, NatLessThanWellFounded, WFMin
  <2>4. PICK m \in S : \A i \in S : ~ (i < m)
    BY <2>2, <2>3 DEF OpToRel
  <2>5. \A i \in S : i # m => m < i
    BY <2>2, <2>4
  <2>6. named(c) = {j \in S : \E i \in S : i < j}
    BY <1>3, <2>1
  <2> HIDE DEF S, named
  <2>7. named(c) = S \ {m}
    BY <2>4, <2>5, <2>6
  <2>8. Cardinality(S \ {m}) = Cardinality(S) - 1
    BY <2>2, FS_RemoveElement
  <2>9. DOMAIN c.rules = S
    BY <1>2, <2>1 DEF S
  <2> QED BY <2>7, <2>8, <2>9
<1>5. ASSUME NEW j \in DuplicateErrors(rules)
      PROVE  \E c \in conflicts : j \in named(c)
  <2> DEFINE b == Binding(rules[j])
  <2>1. j \in DOMAIN rules
    BY DEF DuplicateErrors
  <2>2. j \in named(Conflict(rules, b))
    BY <1>2
  <2>3. PICK i \in On(rules, b) : j \in On(rules, b) /\ i < j
    BY <1>3, <2>2
  <2>4. i # j
    BY <1>1, <1>2, <2>3
  <2>5. Cardinality(On(rules, b)) >= 2
    BY <1>1, <2>3, <2>4, TwoShare
  <2>6. Conflict(rules, b) \in conflicts
    BY <1>1, <2>5, ConflictsFound
  <2> QED BY <2>2, <2>6
<1>6. DuplicateErrors(rules) = UNION {named(c) : c \in conflicts}
  BY <1>5
<1> QED BY <1>4, <1>6

\* The counts of a review add up.
LEMMA CountsAddUp ==
  ASSUME NEW rules \in Seq(RuleForms)
  PROVE  LET s == BuildSummary(rules)
             inGroups == {i \in DOMAIN rules : rules[i].group \in DOMAIN s.groups}
         IN /\ s.rules = s.enabled + s.disabled
            /\ s.rules = s.ungrouped + Cardinality(inGroups)
            /\ \A g \in DOMAIN s.groups : s.groups[g] > 0
<1> DEFINE s == BuildSummary(rules)
           switched(on) == {i \in DOMAIN rules : rules[i].enabled = on}
           in(g) == {i \in DOMAIN rules : rules[i].group = g}
           groups == {rules[i].group : i \in DOMAIN rules} \ {""}
           inGroups == {i \in DOMAIN rules : rules[i].group \in groups}
           n == Len(rules)
           D == DOMAIN rules
<1>1. n \in Nat /\ D = 1..n /\ IsFiniteSet(D) /\ Cardinality(D) = n
  BY ConfigsAreSequences, FS_Interval DEF ConfigOK
<1>2. \A i \in D : rules[i].enabled \in BOOLEAN
  BY ConfigsAreSequences, RulesAreRecords DEF ConfigOK
<1>3. /\ s.rules = n /\ s.enabled = Cardinality(switched(TRUE))
      /\ s.disabled = Cardinality(switched(FALSE)) /\ s.ungrouped = Cardinality(in(""))
      /\ s.groups = [g \in groups |-> Cardinality(in(g))]
  BY DEF BuildSummary
<1>4. /\ D = switched(TRUE) \union switched(FALSE) /\ switched(TRUE) \intersect switched(FALSE) = {}
      /\ switched(TRUE) \in SUBSET D /\ switched(FALSE) \in SUBSET D
  BY <1>2
<1>5. /\ D = in("") \union inGroups /\ in("") \intersect inGroups = {}
      /\ inGroups \in SUBSET D /\ \A g : in(g) \in SUBSET D
  OBVIOUS
<1>6. \A g \in groups : in(g) # {}
  OBVIOUS
<1> HIDE DEF D, switched, in, groups, inGroups, n, s
<1>7. ASSUME NEW A \in SUBSET D, NEW B \in SUBSET D, D = A \union B, A \intersect B = {}
      PROVE  n = Cardinality(A) + Cardinality(B)
  <2>1. IsFiniteSet(A) /\ IsFiniteSet(B)
    BY <1>1, FS_Subset
  <2>2. Cardinality(A) \in Nat /\ Cardinality(B) \in Nat /\ Cardinality(A \intersect B) = 0
    BY <1>7, <2>1, FS_CardinalityType, FS_EmptySet
  <2>3. Cardinality(A \union B) = Cardinality(A) + Cardinality(B) - Cardinality(A \intersect B)
    BY <2>1, FS_Union
  <2>4. Cardinality(A \union B) = n
    BY <1>1, <1>7
  <2> QED BY <2>2, <2>3, <2>4
<1>8. ASSUME NEW g \in groups PROVE Cardinality(in(g)) > 0
  <2>1. IsFiniteSet(in(g))
    BY <1>1, <1>5, FS_Subset
  <2> QED BY <1>6, <2>1, FS_EmptySet, FS_CardinalityType
<1>9. n = Cardinality(switched(TRUE)) + Cardinality(switched(FALSE))
  BY <1>4, <1>7
<1>10. n = Cardinality(in("")) + Cardinality(inGroups)
  BY <1>5, <1>7
<1>11. DOMAIN s.groups = groups /\ \A g \in groups : s.groups[g] = Cardinality(in(g))
  BY <1>3
<1>12. inGroups = {i \in DOMAIN rules : rules[i].group \in DOMAIN s.groups}
  BY <1>11 DEF inGroups
<1> QED BY <1>3, <1>8, <1>9, <1>10, <1>11, <1>12 DEF s

-----------------------------------------------------------------------------
(* The rules and the policy stay what they may be, and a check that passed *)
(* has left a report without findings.                                     *)

PolicyIInv ==
  /\ config \in Seq(RuleForms)
  /\ policyFile # Damaged => policyFile \in [Guardrails -> {Omitted} \union BOOLEAN]
  /\ passed \in BOOLEAN /\ (passed => report = {})

\* The first configuration and policy are in order, and no check has passed.
LEMMA PolicyBegins == PolicyInit => PolicyIInv
BY PoliciesAssumption DEF PolicyInit, PolicyIInv

\* One rule more, less or changed makes a configuration.
LEMMA NeighboursAreConfigs ==
  ASSUME NEW rules \in Seq(RuleForms), NEW next \in Neighbours(rules)
  PROVE  next \in Seq(RuleForms)
<1>1. CASE \E r \in RuleForms : next = Append(rules, r)
  BY <1>1, AppendProperties
<1>2. CASE \E i \in DOMAIN rules : next = RemoveAt(rules, i)
  BY <1>2, Removed
<1>3. CASE \E i \in DOMAIN rules, r \in RuleForms : next = [rules EXCEPT ![i] = r]
  BY <1>3, ConfigsAreSequences, ExceptSeq DEF ConfigOK
<1> QED BY <1>1, <1>2, <1>3 DEF Neighbours

\* A template is a policy file.
LEMMA TemplatesAreFiles ==
  ASSUME NEW name \in Templates
  PROVE  builtinTemplates(name) \in [Guardrails -> {Omitted} \union BOOLEAN]
<1>1. \A a, b, c, d, e \in BOOLEAN : Guards(a, b, c, d, e) \in [Guardrails -> {Omitted} \union BOOLEAN]
  BY DEF Guards
<1> QED BY <1>1, TemplateGuards DEF Templates

\* No command and no edit breaks the invariant.
LEMMA PolicyGoesOn == PolicyIInv /\ PolicyNext => PolicyIInv'
<1> SUFFICES ASSUME PolicyIInv, PolicyNext PROVE PolicyIInv'
  OBVIOUS
<1>1. ASSUME NEW findings, Emit(findings)
      PROVE  passed' \in BOOLEAN /\ (passed' => report' = {})
  <2>1. ExitCode(findings) = 0 <=> findings = {}
    BY DEF ExitCode
  <2>2. CASE report' = findings /\ passed' = (ExitCode(findings) = 0)
    BY <2>1, <2>2, Zenon
  <2>3. CASE passed' = FALSE
    BY <2>3
  <2> QED BY <1>1, <2>2, <2>3 DEF Emit
<1>2. CASE RunPolicyCheck
  BY <1>1, <1>2 DEF RunPolicyCheck, PolicyIInv
<1>3. CASE RunPolicyBaselineCreate
  BY <1>3 DEF RunPolicyBaselineCreate, PolicyIInv
<1>4. ASSUME NEW rules \in Neighbours(config), RunPolicyReview(rules)
      PROVE  PolicyIInv'
  BY <1>1, <1>4 DEF RunPolicyReview, PolicyIInv
<1>5. ASSUME NEW rules \in Neighbours(config), ChangeRules(rules)
      PROVE  PolicyIInv'
  <2>1. rules \in Seq(RuleForms)
    BY NeighboursAreConfigs DEF PolicyIInv
  <2> QED BY <1>5, <2>1 DEF ChangeRules, PolicyIInv
<1>6. ASSUME NEW file, ChangePolicy(file),
             file # Damaged => file \in [Guardrails -> {Omitted} \union BOOLEAN]
      PROVE  PolicyIInv'
  BY <1>6 DEF ChangePolicy, PolicyIInv
<1>7. ASSUME NEW file \in PolicyFiles \union {Damaged}, ChangePolicy(file)
      PROVE  PolicyIInv'
  BY <1>6, <1>7, PoliciesAssumption
<1>8. ASSUME NEW name \in Templates, RunPolicyTemplate(name)
      PROVE  PolicyIInv'
  BY <1>6, <1>8, TemplatesAreFiles DEF RunPolicyTemplate
<1> QED BY <1>2, <1>3, <1>4, <1>5, <1>7, <1>8 DEF PolicyNext

\* The invariant, and the lemmas about the operators, give every part.
LEMMA PoliciesAreTruthful == PolicyIInv => PoliciesTellTheTruth
<1> SUFFICES ASSUME PolicyIInv PROVE PoliciesTellTheTruth
  OBVIOUS
<1>1. config \in Seq(RuleForms)
  BY DEF PolicyIInv
<1>2. AcceptedIsQuiet
  BY <1>1, ReversedIsQuiet, RenumberedIsQuiet, SwitchedIsQuiet DEF AcceptedIsQuiet
<1>3. FixingAddsNothing
  BY <1>1, RemovedRuleBringsNoFinding DEF FixingAddsNothing
<1>4. NothingNewIsHidden
  BY <1>1, AddedRuleShows DEF NothingNewIsHidden
<1>5. OmittedGuardrailsPermit
  BY OmittingLoosens, LooserFindsNoMore DEF OmittedGuardrailsPermit, PolicyIInv
<1>6. TemplatesAreOrdered
  BY TemplatesLoosen, LooserFindsNoMore DEF TemplatesAreOrdered
<1>7. ValidateAgreesWithPolicy
  BY <1>1, SearchesAgree DEF ValidateAgreesWithPolicy
<1>8. SummaryAddsUp
  BY <1>1, CountsAddUp DEF SummaryAddsUp
<1>9. PassedMeansNothingNew
  <2> SUFFICES ASSUME passed PROVE CompareExit(baseline, report) \in {0, 2}
    BY DEF PassedMeansNothingNew
  <2>1. Fingerprints(report) = {}
    BY DEF PolicyIInv, Fingerprints
  <2>2. Compare(baseline, report).new = {}
    BY <2>1 DEF Compare
  <2> QED BY <2>2 DEF CompareExit
<1> QED BY <1>2, <1>3, <1>4, <1>5, <1>6, <1>7, <1>8, <1>9 DEF PoliciesTellTheTruth

-----------------------------------------------------------------------------
(* What is read back from a saved workflow.                                *)

SavedRuns == [id : Nat, workflow : Workflows, outcomes : [DOMAIN StepIds -> Outcomes],
              explained : BOOLEAN]
SavedPlans == [workflow : Workflows, codes : [DOMAIN StepIds -> PlanCodes \union {"valid"}],
               explained : BOOLEAN]

\* The runs and plans so far; the ids of the runs count down to 1.
ReplayIInv ==
  /\ runs \in Seq(SavedRuns) /\ plans \in Seq(SavedPlans)
  /\ \A i \in DOMAIN runs : runs[i].id = Len(runs) - i + 1

\* At first nothing was run or planned.
LEMMA ReplayBegins == ReplayInit => ReplayIInv
BY EmptySeq DEF ReplayInit, ReplayIInv

\* A run and a plan are put first, with the next id.
LEMMA ReplayGoesOn == ReplayIInv /\ ReplayNext => ReplayIInv'
<1> SUFFICES ASSUME ReplayIInv, ReplayNext PROVE ReplayIInv'
  OBVIOUS
<1>0. runs \in Seq(SavedRuns) /\ plans \in Seq(SavedPlans) /\ Len(runs) \in Nat
  BY LenProperties DEF ReplayIInv
<1>1. ASSUME NEW w \in Workflows, NEW e \in BOOLEAN,
             NEW outcomes \in [DOMAIN StepIds -> Outcomes], RunWorkflow(w, outcomes, e)
      PROVE  ReplayIInv'
  <2> DEFINE new == [id |-> Len(runs) + 1, workflow |-> w, outcomes |-> outcomes, explained |-> e]
  <2>1. new \in SavedRuns /\ <<new>> \in Seq(SavedRuns) /\ Len(<<new>>) = 1
    BY <1>0 DEF SavedRuns
  <2>2. runs' = <<new>> \o runs /\ plans' = plans
    BY <1>1 DEF RunWorkflow
  <2>3. new.id = Len(runs) + 1
    OBVIOUS
  <2> HIDE DEF new
  <2>4. /\ runs' \in Seq(SavedRuns) /\ Len(runs') = Len(runs) + 1
        /\ \A i \in 1..(Len(runs) + 1) :
             runs'[i] = IF i <= 1 THEN <<new>>[i] ELSE runs[i - 1]
    BY <1>0, <2>1, <2>2, ConcatProperties
  <2>5. DOMAIN runs' = 1..(Len(runs) + 1) /\ DOMAIN runs = 1..Len(runs)
    BY <1>0, <2>4, LenProperties
  <2>6. ASSUME NEW i \in DOMAIN runs' PROVE runs'[i].id = Len(runs') - i + 1
    <3>1. CASE i = 1
      BY <3>1, <1>0, <2>3, <2>4, <2>5
    <3>2. CASE i # 1
      <4>1. i - 1 \in DOMAIN runs /\ runs'[i] = runs[i - 1]
        BY <3>2, <1>0, <2>4, <2>5
      <4>2. runs[i - 1].id = Len(runs) - (i - 1) + 1
        BY <4>1 DEF ReplayIInv
      <4> QED BY <4>1, <4>2, <1>0, <2>4, <2>5
    <3> QED BY <3>1, <3>2
  <2> QED BY <1>0, <2>2, <2>4, <2>6 DEF ReplayIInv
<1>2. ASSUME NEW w \in Workflows, NEW e \in BOOLEAN,
             NEW codes \in [DOMAIN StepIds -> PlanCodes \union {"valid"}], PlanWorkflow(w, codes, e)
      PROVE  ReplayIInv'
  <2> DEFINE new == [workflow |-> w, codes |-> codes, explained |-> e]
  <2>1. <<new>> \in Seq(SavedPlans)
    BY DEF SavedPlans
  <2>2. plans' = <<new>> \o plans /\ runs' = runs
    BY <1>2 DEF PlanWorkflow
  <2> HIDE DEF new
  <2>3. plans' \in Seq(SavedPlans)
    BY <1>0, <2>1, <2>2, ConcatProperties
  <2> QED BY <2>2, <2>3 DEF ReplayIInv
<1> QED BY <1>1, <1>2 DEF ReplayNext

-----------------------------------------------------------------------------
\* A function on 1..n.
IsList(f, n) == f = [i \in 1..n |-> f[i]]

\* A function on 1..n is a sequence of length n.
LEMMA LengthOf ==
  ASSUME NEW n \in Nat, NEW f, IsList(f, n)
  PROVE  f \in Seq(ImageOf(f, 1..n)) /\ Len(f) = n /\ DOMAIN f = 1..n
<1>1. f \in [1..n -> ImageOf(f, 1..n)]
  BY ImageElements DEF IsList
<1>2. f \in Seq(ImageOf(f, 1..n))
  BY <1>1, SeqDef
<1>3. DOMAIN f = 1..n
  BY <1>1
<1>4. Len(f) \in Nat /\ DOMAIN f = 1..Len(f)
  BY <1>2, LenProperties
<1> QED BY <1>2, <1>3, <1>4

\* The codes of steps, runs or events.
LEMMA CodeElements ==
  ASSUME NEW f, NEW c
  PROVE  c \in CodesIn(f) <=> \E i \in DOMAIN f : c \in f[i].codes
BY DEF CodesIn

\* A timeline: an event of its own, those of the items, and another of its own.
LEMMA TheEvents ==
  ASSUME NEW n \in Nat, NEW f, IsList(f, n), NEW end
  PROVE  /\ Len(Between(f, end)) = n + 2 /\ DOMAIN Between(f, end) = 1..(n + 2)
         /\ Between(f, end)[1] = Lifecycle("started")
         /\ Between(f, end)[n + 2] = Lifecycle(end)
         /\ \A i \in 1..n : Between(f, end)[i + 1] = f[i]
<1> DEFINE S == ImageOf(f, 1..n) \union {Lifecycle("started"), Lifecycle(end)}
           first == <<Lifecycle("started")>>
           last == <<Lifecycle(end)>>
<1>1. f \in [1..n -> S]
  BY ImageElements DEF IsList
<1>2. f \in Seq(S) /\ Len(f) = n
  BY <1>1, SeqDef, LengthOf
<1>3. first \in Seq(S) /\ last \in Seq(S) /\ Len(first) = 1 /\ Len(last) = 1
      /\ first[1] = Lifecycle("started") /\ last[1] = Lifecycle(end)
  OBVIOUS
<1> HIDE DEF first, last, S
<1>4. /\ first \o f \in Seq(S) /\ Len(first \o f) = n + 1
      /\ \A i \in 1..(n + 1) : (first \o f)[i] = IF i <= 1 THEN first[i] ELSE f[i - 1]
  <2>1. /\ first \o f \in Seq(S)
        /\ Len(first \o f) = Len(first) + Len(f)
        /\ \A i \in 1..(Len(first) + Len(f)) :
             (first \o f)[i] = IF i <= Len(first) THEN first[i] ELSE f[i - Len(first)]
    BY <1>2, <1>3, ConcatProperties
  <2> QED BY <2>1, <1>2, <1>3
<1>5. /\ (first \o f) \o last \in Seq(S) /\ Len((first \o f) \o last) = n + 2
      /\ \A i \in 1..(n + 2) : ((first \o f) \o last)[i] =
           IF i <= n + 1 THEN (first \o f)[i] ELSE last[i - (n + 1)]
  <2> DEFINE front == first \o f
  <2>1. front \in Seq(S) /\ Len(front) = n + 1
    BY <1>4
  <2> HIDE DEF front
  <2>2. /\ front \o last \in Seq(S) /\ Len(front \o last) = n + 2
        /\ \A i \in 1..(n + 2) : (front \o last)[i] = IF i <= n + 1 THEN front[i] ELSE last[i - (n + 1)]
    <3>1. /\ front \o last \in Seq(S)
          /\ Len(front \o last) = Len(front) + Len(last)
          /\ \A i \in 1..(Len(front) + Len(last)) :
               (front \o last)[i] = IF i <= Len(front) THEN front[i] ELSE last[i - Len(front)]
      BY <2>1, <1>3, ConcatProperties
    <3> QED BY <3>1, <2>1, <1>3
  <2> QED BY <2>2 DEF front
<1>6. Between(f, end) = (first \o f) \o last
  BY ConcatAssociative, <1>2, <1>3 DEF Between, first, last
<1>7. DOMAIN Between(f, end) = 1..(n + 2)
  BY <1>5, <1>6, LenProperties
<1> QED BY <1>3, <1>4, <1>5, <1>6, <1>7

\* The two events of a timeline's own have no codes and stand for no item.
IsTimeline(events, f, n) ==
  /\ DOMAIN events = 1..(n + 2) /\ DOMAIN f = 1..n
  /\ events[1].codes = {} /\ events[n + 2].codes = {}
  /\ events[1].synthetic = TRUE /\ events[n + 2].synthetic = TRUE
  /\ \A i \in 1..n : events[i + 1] = f[i]

\* A timeline has its items between two events of its own.
LEMMA TimelineIs ==
  ASSUME NEW n \in Nat, NEW f, IsList(f, n), NEW end
  PROVE  IsTimeline(Between(f, end), f, n)
<1> DEFINE events == Between(f, end)
<1>1. /\ DOMAIN events = 1..(n + 2)
      /\ events[1] = Lifecycle("started") /\ events[n + 2] = Lifecycle(end)
      /\ \A i \in 1..n : events[i + 1] = f[i]
  BY TheEvents
<1>2. DOMAIN f = 1..n
  BY LengthOf
<1>3. \A s : Lifecycle(s).codes = {} /\ Lifecycle(s).synthetic = TRUE
  BY DEF Lifecycle
<1> HIDE DEF events
<1>4. IsTimeline(events, f, n)
  BY <1>1, <1>2, <1>3 DEF IsTimeline
<1> QED BY <1>4 DEF events

\* A timeline has the codes of its items.
LEMMA CodesOfTimeline ==
  ASSUME NEW n \in Nat, NEW f, IsList(f, n), NEW end
  PROVE  CodesIn(Between(f, end)) = CodesIn(f)
<1> DEFINE events == Between(f, end)
<1>0. IsTimeline(events, f, n)
  BY TimelineIs
<1> HIDE DEF events
<1>1. /\ DOMAIN events = 1..(n + 2) /\ DOMAIN f = 1..n
      /\ events[1].codes = {} /\ events[n + 2].codes = {}
      /\ \A i \in 1..n : events[i + 1] = f[i]
  BY <1>0 DEF IsTimeline
<1>2. ASSUME NEW c PROVE c \in CodesIn(events) <=> c \in CodesIn(f)
  <2>1. ASSUME c \in CodesIn(events) PROVE c \in CodesIn(f)
    <3>1. PICK i \in 1..(n + 2) : c \in events[i].codes
      BY <2>1, <1>1, CodeElements
    <3>2. i - 1 \in 1..n /\ i = (i - 1) + 1
      BY <3>1, <1>1
    <3>3. c \in f[i - 1].codes
      BY <3>1, <3>2, <1>1
    <3> QED BY <3>2, <3>3, <1>1, CodeElements
  <2>2. ASSUME c \in CodesIn(f) PROVE c \in CodesIn(events)
    <3>1. PICK i \in 1..n : c \in f[i].codes
      BY <2>2, <1>1, CodeElements
    <3>2. i + 1 \in 1..(n + 2) /\ c \in events[i + 1].codes
      BY <3>1, <1>1
    <3> QED BY <3>2, <1>1, CodeElements
  <2> QED BY <2>1, <2>2
<1> QED BY <1>2 DEF events

WithStatus(f, n, s) == {i \in 1..n : f[i].status = s}

\* A timeline counts its items by status.
LEMMA SummaryOfTimeline ==
  ASSUME NEW n \in Nat, NEW f, IsList(f, n), NEW end,
         \A i \in 1..n : f[i].synthetic = FALSE,
         NEW s \in StepStatuses
  PROVE  TimelineSummary(Between(f, end))[s] = Cardinality(WithStatus(f, n, s))
<1> DEFINE events == Between(f, end)
           S == {i \in 1..n : f[i].status = s}
           T == {i \in DOMAIN events : ~ events[i].synthetic /\ events[i].status = s}
           h == [i \in 1..n |-> i + 1]
<1>0. IsTimeline(events, f, n)
  BY TimelineIs
<1> HIDE DEF events
<1>1. /\ DOMAIN events = 1..(n + 2)
      /\ events[1].synthetic = TRUE /\ events[n + 2].synthetic = TRUE
      /\ \A i \in 1..n : events[i + 1] = f[i]
  BY <1>0 DEF IsTimeline
<1>2. TimelineSummary(events)[s] = Cardinality(T)
  BY DEF TimelineSummary
<1>3. IsFiniteSet(S)
  <2>1. IsFiniteSet(1..n) /\ S \in SUBSET (1..n)
    BY FS_Interval
  <2> QED BY <2>1, FS_Subset
<1>4. T = ImageOf(h, S)
  <2>1. ASSUME NEW i \in T PROVE i \in ImageOf(h, S)
    <3>1. i - 1 \in 1..n /\ i = (i - 1) + 1
      BY <1>1
    <3>2. i - 1 \in S /\ h[i - 1] = i
      BY <3>1, <1>1
    <3> QED BY <3>2, ImageElements
  <2>2. ASSUME NEW t \in ImageOf(h, S) PROVE t \in T
    <3>1. PICK i \in S : t = h[i]
      <4> HIDE DEF S, h
      <4> QED BY ImageElements
    <3>2. i \in 1..n /\ t = i + 1 /\ f[i].status = s
      BY <3>1
    <3>3. t \in DOMAIN events /\ events[t] = f[i]
      BY <3>2, <1>1
    <3> QED BY <3>2, <3>3
  <2> QED BY <2>1, <2>2
<1>5. \A i, j \in S : h[i] = h[j] => i = j
  OBVIOUS
<1> HIDE DEF S, T, h
<1>6. Cardinality(T) = Cardinality(S)
  BY <1>3, <1>4, <1>5, SizeOfImage
<1> QED BY <1>2, <1>6 DEF events, S, WithStatus

-----------------------------------------------------------------------------
\* What a saved report of a run or a plan looks like.
Shape(a) ==
  a = [kind |-> a.kind, workflow |-> a.workflow, result |-> a.result, steps |-> a.steps,
       explained |-> a.explained, runs |-> a.runs]

StepShape(s) == s = [id |-> s.id, status |-> s.status, codes |-> s.codes]

StepsAre(a, statuses) ==
  /\ IsList(a.steps, Len(StepIds))
  /\ \A i \in 1..Len(StepIds) :
       /\ StepShape(a.steps[i])
       /\ a.steps[i].id = StepIds[i] /\ a.steps[i].status \in statuses

RunStatuses == {"passed", "failed", "skipped"}
PlanStatuses == {"valid", "invalid"}

IsRunReport(a) ==
  /\ Shape(a) /\ a.kind = "run" /\ a.runs = <<>>
  /\ a.result \in {"passed", "failed"} /\ StepsAre(a, RunStatuses)

IsPlanReport(a) ==
  /\ Shape(a) /\ a.kind = "plan" /\ a.runs = <<>>
  /\ a.result \in PlanStatuses /\ StepsAre(a, PlanStatuses)

\* A workflow has steps.
LEMMA StepsOfAWorkflow == Len(StepIds) \in Nat \ {0} /\ DOMAIN StepIds = 1..Len(StepIds)
BY SavedAssumption, LenProperties, EmptySeq

\* What a step leaves, by its status.
LEMMA OutcomesAre ==
  ASSUME NEW o \in Outcomes
  PROVE  /\ o.status \in RunStatuses
         /\ o.status = "passed" => o.codes = {} /\ o.explain = {}
         /\ o.status = "skipped" => o.codes = {} /\ o.explain = {"dependency_failed"}
         /\ o.status = "failed" =>
              /\ o.codes \subseteq PolicyCodes
              /\ o.codes \subseteq o.explain
              /\ o.explain \subseteq o.codes \union {"input_failed", "runtime_unreachable"}
BY DEF Outcomes, Passed, Violations, InputFailed, Unreachable, SkippedStep, RunStatuses

\* The report of a run, step by step.
LEMMA RunReportIs ==
  ASSUME NEW run \in SavedRuns
  PROVE  /\ IsRunReport(RunReport(run))
         /\ RunReport(run).workflow = run.workflow
         /\ RunReport(run).result = RunResult(run.outcomes)
         /\ RunReport(run).explained = IF run.explained THEN ExplanationCodesForRun(run) ELSE {}
         /\ \A i \in 1..Len(StepIds) :
              /\ run.outcomes[i] \in Outcomes
              /\ RunReport(run).steps[i] = [id |-> StepIds[i], status |-> run.outcomes[i].status,
                                            codes |-> run.outcomes[i].codes]
<1> DEFINE n == Len(StepIds)
           a == RunReport(run)
           steps == [i \in 1..n |-> [id |-> StepIds[i], status |-> run.outcomes[i].status,
                                     codes |-> run.outcomes[i].codes]]
<1>1. run.outcomes \in [1..n -> Outcomes] /\ DOMAIN run.outcomes = 1..n
  BY StepsOfAWorkflow DEF SavedRuns
<1>2. a = [kind |-> "run", workflow |-> run.workflow, result |-> RunResult(run.outcomes),
           steps |-> steps,
           explained |-> IF run.explained THEN ExplanationCodesForRun(run) ELSE {},
           runs |-> <<>>]
  BY <1>1 DEF RunReport
<1>3. \A i \in 1..n : run.outcomes[i] \in Outcomes /\ run.outcomes[i].status \in RunStatuses
  BY <1>1, OutcomesAre
<1>4. RunResult(run.outcomes) \in {"passed", "failed"}
  BY DEF RunResult
<1>5. /\ IsList(steps, n)
      /\ \A i \in 1..n : /\ StepShape(steps[i])
                         /\ steps[i].id = StepIds[i] /\ steps[i].status \in RunStatuses
  BY <1>3 DEF IsList, StepShape
<1>6. \A i \in 1..n : steps[i] = [id |-> StepIds[i], status |-> run.outcomes[i].status,
                                  codes |-> run.outcomes[i].codes]
  OBVIOUS
<1> HIDE DEF a, steps
<1>7. a.steps = steps /\ a.kind = "run" /\ a.workflow = run.workflow /\ a.runs = <<>>
      /\ a.result = RunResult(run.outcomes)
      /\ Shape(a)
      /\ a.explained = IF run.explained THEN ExplanationCodesForRun(run) ELSE {}
  BY <1>2 DEF Shape
<1>8. IsRunReport(a)
  BY <1>4, <1>5, <1>7 DEF IsRunReport, StepsAre
<1> QED BY <1>3, <1>6, <1>7, <1>8 DEF a

\* The report of a plan.
LEMMA PlanReportIs ==
  ASSUME NEW plan \in SavedPlans
  PROVE  IsPlanReport(PlanReport(plan)) /\ PlanReport(plan).workflow = plan.workflow
<1> DEFINE n == Len(StepIds)
           a == PlanReport(plan)
           status(c) == IF c = "valid" THEN "valid" ELSE "invalid"
           steps == [i \in 1..n |-> [id |-> StepIds[i], status |-> status(plan.codes[i]),
                                     codes |-> {plan.codes[i]}]]
<1>1. DOMAIN plan.codes = 1..n
  BY StepsOfAWorkflow DEF SavedPlans
<1>2. /\ Shape(a) /\ a.kind = "plan" /\ a.runs = <<>> /\ a.workflow = plan.workflow
      /\ a.result \in PlanStatuses /\ a.steps = steps
  BY <1>1 DEF PlanReport, Shape, PlanStatuses
<1>3. /\ IsList(steps, n)
      /\ \A i \in 1..n : /\ StepShape(steps[i])
                         /\ steps[i].id = StepIds[i] /\ steps[i].status \in PlanStatuses
  BY DEF IsList, StepShape, PlanStatuses
<1> HIDE DEF a, steps
<1>4. IsPlanReport(a)
  BY <1>2, <1>3 DEF IsPlanReport, StepsAre
<1> QED BY <1>2, <1>4 DEF a

\* The reports are those of runs and of plans.
LEMMA ReportsAre ==
  ASSUME ReplayIInv, NEW a \in Reports
  PROVE  IsRunReport(a) \/ IsPlanReport(a)
<1>1. /\ \A i \in DOMAIN runs : runs[i] \in SavedRuns
      /\ \A i \in DOMAIN plans : plans[i] \in SavedPlans
  BY ElementOfSeq, LenProperties DEF ReplayIInv
<1>2. (\E i \in DOMAIN runs : a = RunReport(runs[i])) \/ (\E i \in DOMAIN plans : a = PlanReport(plans[i]))
  BY DEF Reports
<1> QED BY <1>1, <1>2, RunReportIs, PlanReportIs

\* What a step of a report keeps in a bundle.
Normalized(a) ==
  [i \in 1..Len(StepIds) |-> [id |-> a.steps[i].id, status |-> a.steps[i].status,
                              codes |-> NormalizeStep(a.steps[i])]]

\* A step with other codes.
LEMMA OtherCodes ==
  ASSUME NEW s, StepShape(s), NEW c
  PROVE  [s EXCEPT !.codes = c] = [id |-> s.id, status |-> s.status, codes |-> c]
<1> DEFINE t == [id |-> s.id, status |-> s.status, codes |-> s.codes]
<1>1. s = t
  BY DEF StepShape
<1>2. [t EXCEPT !.codes = c] = [id |-> s.id, status |-> s.status, codes |-> c]
  OBVIOUS
<1> HIDE DEF t
<1> QED BY <1>1, <1>2

\* A bundle, field by field.
LEMMA BundleIs ==
  ASSUME NEW a, IsRunReport(a) \/ IsPlanReport(a)
  PROVE  Bundle(a) = [kind |-> "bundle", workflow |-> a.workflow, result |-> a.result,
                      steps |-> Normalized(a),
                      explained |-> CodesIn(Normalized(a)) \union a.explained, runs |-> <<>>]
<1>1. /\ Shape(a) /\ a.runs = <<>> /\ IsList(a.steps, Len(StepIds))
      /\ \A i \in 1..Len(StepIds) : StepShape(a.steps[i])
  BY DEF IsRunReport, IsPlanReport, StepsAre
<1>2. DOMAIN a.steps = 1..Len(StepIds)
  BY <1>1 DEF IsList
<1>3. StepsWith(a, NormalizeStep) = Normalized(a)
  <2>1. StepsWith(a, NormalizeStep)
        = [i \in 1..Len(StepIds) |-> [a.steps[i] EXCEPT !.codes = NormalizeStep(a.steps[i])]]
    BY <1>2 DEF StepsWith
  <2>2. \A i \in 1..Len(StepIds) :
          [a.steps[i] EXCEPT !.codes = NormalizeStep(a.steps[i])]
          = [id |-> a.steps[i].id, status |-> a.steps[i].status, codes |-> NormalizeStep(a.steps[i])]
    BY <1>1, OtherCodes
  <2> QED BY <2>1, <2>2 DEF Normalized
<1>4. Bundle(a) = [a EXCEPT !.kind = "bundle", !.steps = Normalized(a),
                            !.explained = CodesIn(Normalized(a)) \union @]
  BY <1>3 DEF Bundle
<1> QED BY <1>1, <1>4 DEF Shape

IsBundle(a) ==
  /\ Shape(a) /\ a.kind = "bundle" /\ a.runs = <<>> /\ StepsAre(a, StepStatuses)

\* A bundle keeps the steps of its report, with other codes.
LEMMA BundleShape ==
  ASSUME NEW a, IsRunReport(a) \/ IsPlanReport(a)
  PROVE  /\ IsBundle(Bundle(a)) /\ Bundle(a).result = a.result
         /\ Bundle(a).workflow = a.workflow /\ Bundle(a).steps = Normalized(a)
         /\ Bundle(a).explained = CodesIn(Normalized(a)) \union a.explained
<1>1. Bundle(a) = [kind |-> "bundle", workflow |-> a.workflow, result |-> a.result,
                   steps |-> Normalized(a),
                   explained |-> CodesIn(Normalized(a)) \union a.explained, runs |-> <<>>]
  BY BundleIs
<1>2. /\ Shape(Bundle(a)) /\ Bundle(a).kind = "bundle" /\ Bundle(a).runs = <<>>
      /\ Bundle(a).steps = Normalized(a) /\ Bundle(a).result = a.result
      /\ Bundle(a).workflow = a.workflow
      /\ Bundle(a).explained = CodesIn(Normalized(a)) \union a.explained
  BY <1>1 DEF Shape
<1>3. \A i \in 1..Len(StepIds) : a.steps[i].id = StepIds[i] /\ a.steps[i].status \in StepStatuses
  BY DEF IsRunReport, IsPlanReport, StepsAre, RunStatuses, PlanStatuses, StepStatuses
<1>4. /\ IsList(Normalized(a), Len(StepIds))
      /\ \A i \in 1..Len(StepIds) :
           /\ StepShape(Normalized(a)[i]) /\ Normalized(a)[i].id = StepIds[i]
           /\ Normalized(a)[i].status = a.steps[i].status
           /\ Normalized(a)[i].codes = NormalizeStep(a.steps[i])
  BY <1>3 DEF IsList, Normalized, StepShape
<1> QED BY <1>2, <1>3, <1>4 DEF IsBundle, StepsAre

IsHistory(a, n) ==
  /\ Shape(a) /\ a.kind = "history" /\ a.steps = <<>> /\ a.explained = {}
  /\ IsList(a.runs, n)
  /\ \A i \in 1..n : a.runs[i].result \in {"passed", "failed"}

\* A history has the runs of the list it was made of.
LEMMA HistoryIs ==
  ASSUME NEW list \in Seq(SavedRuns)
  PROVE  /\ IsHistory(HistoryExport(list), Len(list))
         /\ Len(list) \in Nat
         /\ HistoryExport(list).runs = [i \in 1..Len(list) |-> ProjectRun(list[i])]
<1>1. Len(list) \in Nat /\ DOMAIN list = 1..Len(list)
  BY LenProperties
<1> DEFINE exported == [i \in 1..Len(list) |-> ProjectRun(list[i])]
           nameless == ""
<1>2. /\ IsList(exported, Len(list))
      /\ \A i \in 1..Len(list) : exported[i].result \in {"passed", "failed"}
  BY DEF IsList, ProjectRun, RunResult
<1>3. HistoryExport(list) = [kind |-> "history", workflow |-> nameless, result |-> nameless,
                             steps |-> <<>>, explained |-> {}, runs |-> exported]
  BY <1>1 DEF HistoryExport
<1> HIDE DEF exported, nameless
<1>4. /\ Shape(HistoryExport(list)) /\ HistoryExport(list).kind = "history"
      /\ HistoryExport(list).steps = <<>> /\ HistoryExport(list).explained = {}
      /\ HistoryExport(list).runs = exported
  BY <1>3 DEF Shape
<1> QED BY <1>1, <1>2, <1>4 DEF IsHistory, exported

-----------------------------------------------------------------------------
\* What the readers make of a file: its items are n steps or runs, and each is
\* an event of the timeline, with the codes the analysis counts for it.
ReadAs(a, n, events, items, end, failed) ==
  /\ Analyze(a) = Analysis(a, items, failed)
  /\ Timeline(a) = Between(events, end)
  /\ IsList(events, n) /\ DOMAIN items = 1..n
  /\ \A i \in 1..n : events[i].codes = items[i].codes /\ events[i].synthetic = FALSE
  /\ Facts(a).steps = Tally(a) /\ Facts(a).runs = RunTally(a)
  /\ Facts(a).codes = IF a.kind = "bundle" THEN CodesIn(items) ELSE CodesIn(items) \union a.explained

\* The steps of a file, and what is made of them.
StepList(a, codes) == [i \in 1..Len(StepIds) |-> Event(a.steps[i].status, codes[i])]

\* The codes of a step by the readers are those a bundle has.
LEMMA FindingsOf ==
  ASSUME NEW s
  PROVE  /\ s.status \in RunStatuses =>
              FindingCodes(s) = IF s.status = "skipped" THEN {"dependency_failed"}
                                ELSE IF s.status = "failed" THEN s.codes ELSE {}
         /\ s.status \in RunStatuses => FindingCodes(s) = NormalizeStep(s)
         /\ s.status \in PlanStatuses => InvalidCodes(s) = NormalizeStep(s)
BY DEF FindingCodes, InvalidCodes, NormalizeStep, RunStatuses, PlanStatuses

\* How the readers read the report of a run.
LEMMA ReportReaders ==
  ASSUME NEW a, IsRunReport(a)
  PROVE  /\ ReadAs(a, Len(StepIds), StepList(a, [i \in 1..Len(StepIds) |-> FindingCodes(a.steps[i])]),
                  StepsWith(a, FindingCodes), a.result, IdsWith(a, {"failed"}))
         /\ \A i \in 1..Len(StepIds) : StepsWith(a, FindingCodes)[i].codes = FindingCodes(a.steps[i])
         /\ DOMAIN StepsWith(a, FindingCodes) = 1..Len(StepIds)
<1> DEFINE n == Len(StepIds)
           items == StepsWith(a, FindingCodes)
           codes == [i \in 1..n |-> FindingCodes(a.steps[i])]
           events == StepList(a, codes)
<1>1. /\ a.kind = "run" /\ DOMAIN a.steps = 1..n
      /\ \A i \in 1..n : StepShape(a.steps[i]) /\ a.steps[i].status \in RunStatuses
  BY DEF IsRunReport, StepsAre, IsList
<1>2. items = [i \in 1..n |-> [a.steps[i] EXCEPT !.codes = FindingCodes(a.steps[i])]]
  BY <1>1 DEF StepsWith
<1>3. /\ DOMAIN items = 1..n
      /\ \A i \in 1..n : items[i] = [id |-> a.steps[i].id, status |-> a.steps[i].status,
                                     codes |-> FindingCodes(a.steps[i])]
  BY <1>1, <1>2, OtherCodes
<1>4. \A i \in 1..n : items[i].codes = FindingCodes(a.steps[i])
  <2> HIDE DEF items
  <2> QED BY <1>3
<1>5. /\ IsList(events, n)
      /\ \A i \in 1..n : events[i].codes = FindingCodes(a.steps[i]) /\ events[i].synthetic = FALSE
  BY DEF StepList, IsList, Event
<1>6. Timeline(a) = Between(events, a.result)
  <2> DEFINE local(s) == IF s.status = "skipped" THEN {"dependency_failed"}
                         ELSE IF s.status = "failed" THEN s.codes ELSE {}
  <2>1. Timeline(a) = Between([i \in 1..n |-> Event(a.steps[i].status, local(a.steps[i]))], a.result)
    BY <1>1 DEF Timeline, TimelineRun, StepEvents
  <2>2. \A i \in 1..n : local(a.steps[i]) = FindingCodes(a.steps[i])
    BY <1>1, FindingsOf
  <2>3. [i \in 1..n |-> Event(a.steps[i].status, local(a.steps[i]))] = events
    BY <2>2 DEF StepList
  <2> QED BY <2>1, <2>3
<1>7. Analyze(a) = Analysis(a, items, IdsWith(a, {"failed"}))
  BY <1>1 DEF Analyze, AnalyzeRun
<1>8. /\ Facts(a).steps = Tally(a) /\ Facts(a).runs = RunTally(a)
      /\ Facts(a).codes = CodesIn(items) \union a.explained
  <2> DEFINE local(s) == IF s.status = "skipped" THEN {"dependency_failed"}
                         ELSE IF s.status = "failed" THEN s.codes ELSE {}
             theirs == StepsWith(a, local)
  <2>1. /\ Facts(a).steps = Tally(a) /\ Facts(a).runs = RunTally(a)
        /\ Facts(a).codes = CodesIn(theirs) \union a.explained
    BY <1>1 DEF Facts, RunFacts, NoFacts
  <2>2. \A i \in 1..n : local(a.steps[i]) = FindingCodes(a.steps[i])
    BY <1>1, FindingsOf
  <2>3. theirs = [i \in 1..n |-> [a.steps[i] EXCEPT !.codes = local(a.steps[i])]]
    BY <1>1 DEF StepsWith
  <2>4. theirs = items
    BY <1>2, <2>2, <2>3
  <2> QED BY <2>1, <2>4
<1>9. /\ ReadAs(a, n, events, items, a.result, IdsWith(a, {"failed"}))
      /\ \A i \in 1..n : items[i].codes = FindingCodes(a.steps[i])
      /\ DOMAIN items = 1..n
  <2> HIDE DEF items, events
  <2> QED BY <1>1, <1>3, <1>4, <1>5, <1>6, <1>7, <1>8 DEF ReadAs
<1> QED BY <1>9

\* How they read the report of a plan.
LEMMA PlanReaders ==
  ASSUME NEW a, IsPlanReport(a)
  PROVE  /\ ReadAs(a, Len(StepIds), StepList(a, [i \in 1..Len(StepIds) |-> InvalidCodes(a.steps[i])]),
                  StepsWith(a, InvalidCodes), a.result, IdsWith(a, {"invalid"}))
         /\ \A i \in 1..Len(StepIds) : StepsWith(a, InvalidCodes)[i].codes = InvalidCodes(a.steps[i])
         /\ DOMAIN StepsWith(a, InvalidCodes) = 1..Len(StepIds)
<1> DEFINE n == Len(StepIds)
           items == StepsWith(a, InvalidCodes)
           codes == [i \in 1..n |-> InvalidCodes(a.steps[i])]
           events == StepList(a, codes)
<1>1. /\ a.kind = "plan" /\ DOMAIN a.steps = 1..n
      /\ \A i \in 1..n : StepShape(a.steps[i]) /\ a.steps[i].status \in PlanStatuses
  BY DEF IsPlanReport, StepsAre, IsList
<1>2. items = [i \in 1..n |-> [a.steps[i] EXCEPT !.codes = InvalidCodes(a.steps[i])]]
  BY <1>1 DEF StepsWith
<1>3. /\ DOMAIN items = 1..n
      /\ \A i \in 1..n : items[i] = [id |-> a.steps[i].id, status |-> a.steps[i].status,
                                     codes |-> InvalidCodes(a.steps[i])]
  BY <1>1, <1>2, OtherCodes
<1>4. \A i \in 1..n : items[i].codes = InvalidCodes(a.steps[i])
  <2> HIDE DEF items
  <2> QED BY <1>3
<1>5. /\ IsList(events, n)
      /\ \A i \in 1..n : events[i].codes = InvalidCodes(a.steps[i]) /\ events[i].synthetic = FALSE
  BY DEF StepList, IsList, Event
<1>6. Timeline(a) = Between(events, a.result)
  <2> DEFINE local(s) == IF s.status = "invalid" THEN s.codes ELSE {}
  <2>1. Timeline(a) = Between([i \in 1..n |-> Event(a.steps[i].status, local(a.steps[i]))], a.result)
    BY <1>1 DEF Timeline, TimelinePlan, StepEvents
  <2>2. \A i \in 1..n : local(a.steps[i]) = InvalidCodes(a.steps[i])
    BY <1>1 DEF InvalidCodes
  <2>3. [i \in 1..n |-> Event(a.steps[i].status, local(a.steps[i]))] = events
    BY <2>2 DEF StepList
  <2> QED BY <2>1, <2>3
<1>7. Analyze(a) = Analysis(a, items, IdsWith(a, {"invalid"}))
  BY <1>1 DEF Analyze, AnalyzePlan
<1>8. /\ Facts(a).steps = Tally(a) /\ Facts(a).runs = RunTally(a)
      /\ Facts(a).codes = CodesIn(items) \union a.explained
  <2> DEFINE local(s) == IF s.status = "invalid" THEN s.codes ELSE {}
             theirs == StepsWith(a, local)
  <2>1. /\ Facts(a).steps = Tally(a) /\ Facts(a).runs = RunTally(a)
        /\ Facts(a).codes = CodesIn(theirs) \union a.explained
    BY <1>1 DEF Facts, PlanFacts, NoFacts
  <2>2. \A i \in 1..n : local(a.steps[i]) = InvalidCodes(a.steps[i])
    BY <1>1 DEF InvalidCodes
  <2>3. theirs = [i \in 1..n |-> [a.steps[i] EXCEPT !.codes = local(a.steps[i])]]
    BY <1>1 DEF StepsWith
  <2>4. theirs = items
    BY <1>2, <2>2, <2>3
  <2> QED BY <2>1, <2>4
<1>9. /\ ReadAs(a, n, events, items, a.result, IdsWith(a, {"invalid"}))
      /\ \A i \in 1..n : items[i].codes = InvalidCodes(a.steps[i])
      /\ DOMAIN items = 1..n
  <2> HIDE DEF items, events
  <2> QED BY <1>1, <1>3, <1>4, <1>5, <1>6, <1>7, <1>8 DEF ReadAs
<1> QED BY <1>9

\* How they read a bundle.
LEMMA BundleReaders ==
  ASSUME NEW a, IsBundle(a)
  PROVE  /\ ReadAs(a, Len(StepIds), StepList(a, [i \in 1..Len(StepIds) |-> SavedCodes(a.steps[i])]),
                  StepsWith(a, SavedCodes), a.result, IdsWith(a, {"failed", "invalid"}))
         /\ \A i \in 1..Len(StepIds) : StepsWith(a, SavedCodes)[i].codes = SavedCodes(a.steps[i])
         /\ DOMAIN StepsWith(a, SavedCodes) = 1..Len(StepIds)
<1> DEFINE n == Len(StepIds)
           items == StepsWith(a, SavedCodes)
           codes == [i \in 1..n |-> SavedCodes(a.steps[i])]
           events == StepList(a, codes)
<1>1. /\ a.kind = "bundle" /\ DOMAIN a.steps = 1..n
      /\ \A i \in 1..n : StepShape(a.steps[i]) /\ a.steps[i].status \in StepStatuses
  BY DEF IsBundle, StepsAre, IsList
<1>2. items = [i \in 1..n |-> [a.steps[i] EXCEPT !.codes = SavedCodes(a.steps[i])]]
  BY <1>1 DEF StepsWith
<1>3. /\ DOMAIN items = 1..n
      /\ \A i \in 1..n : items[i] = [id |-> a.steps[i].id, status |-> a.steps[i].status,
                                     codes |-> SavedCodes(a.steps[i])]
  BY <1>1, <1>2, OtherCodes
<1>4. \A i \in 1..n : items[i].codes = SavedCodes(a.steps[i])
  <2> HIDE DEF items
  <2> QED BY <1>3
<1>5. /\ IsList(events, n)
      /\ \A i \in 1..n : events[i].codes = SavedCodes(a.steps[i]) /\ events[i].synthetic = FALSE
  BY DEF StepList, IsList, Event
<1>6. Timeline(a) = Between(events, a.result)
  <2>1. Timeline(a) = Between([i \in 1..n |-> Event(a.steps[i].status, SavedCodes(a.steps[i]))], a.result)
    BY <1>1 DEF Timeline, TimelineBundle, StepEvents
  <2>2. [i \in 1..n |-> Event(a.steps[i].status, SavedCodes(a.steps[i]))] = events
    BY DEF StepList
  <2> QED BY <2>1, <2>2
<1>7. Analyze(a) = Analysis(a, items, IdsWith(a, {"failed", "invalid"}))
  BY <1>1 DEF Analyze, AnalyzeBundle
<1>8. /\ Facts(a).steps = Tally(a) /\ Facts(a).runs = RunTally(a)
      /\ Facts(a).codes = CodesIn(items)
  <2>1. /\ Facts(a).steps = Tally(a) /\ Facts(a).runs = RunTally(a)
        /\ Facts(a).codes = CodesIn(a.steps)
    BY <1>1 DEF Facts, BundleFacts, NoFacts
  <2>2. \A i \in 1..n : items[i].codes = a.steps[i].codes
    <3> HIDE DEF items
    <3> QED BY <1>4 DEF SavedCodes
  <2> HIDE DEF items
  <2>3. \A c : c \in CodesIn(items) <=> c \in CodesIn(a.steps)
    BY <1>1, <1>3, <2>2, CodeElements
  <2> QED BY <2>1, <2>3
<1>9. /\ ReadAs(a, n, events, items, a.result, IdsWith(a, {"failed", "invalid"}))
      /\ \A i \in 1..n : items[i].codes = SavedCodes(a.steps[i])
      /\ DOMAIN items = 1..n
  <2> HIDE DEF items, events
  <2> QED BY <1>1, <1>3, <1>4, <1>5, <1>6, <1>7, <1>8 DEF ReadAs
<1> QED BY <1>9

\* How they read a history.
LEMMA HistoryReaders ==
  ASSUME NEW n \in Nat, NEW a, IsHistory(a, n)
  PROVE  ReadAs(a, n, [i \in 1..n |-> Event(a.runs[i].result, a.runs[i].codes)],
               a.runs, "reconstructed", FailedRuns(a))
<1> DEFINE events == [i \in 1..n |-> Event(a.runs[i].result, a.runs[i].codes)]
<1>1. a.kind = "history" /\ DOMAIN a.runs = 1..n /\ a.explained = {}
  BY DEF IsHistory, IsList
<1>2. Timeline(a) = Between(events, "reconstructed")
  BY <1>1 DEF Timeline, TimelineHistory
<1>3. /\ IsList(events, n)
      /\ \A i \in 1..n : events[i].codes = a.runs[i].codes /\ events[i].synthetic = FALSE
  BY DEF IsList, Event
<1>4. Analyze(a) = Analysis(a, a.runs, FailedRuns(a))
  BY <1>1 DEF Analyze, AnalyzeHistory
<1>5. /\ Facts(a).steps = Tally(a) /\ Facts(a).runs = RunTally(a)
      /\ Facts(a).codes = CodesIn(a.runs)
  BY <1>1 DEF Facts, HistoryFacts, NoFacts
<1> HIDE DEF events
<1>6. ReadAs(a, n, events, a.runs, "reconstructed", FailedRuns(a))
  BY <1>1, <1>2, <1>3, <1>4, <1>5 DEF ReadAs
<1> QED BY <1>6 DEF events

\* The items of a file are tallied by status, steps and runs together.
Tallied(a, n, events) ==
  /\ n \in Nat /\ Len(a.steps) + Len(a.runs) = n
  /\ \A s \in StepStatuses :
       Cardinality(WithStatus(events, n, s))
       = Tally(a)[s] + (IF s \in {"passed", "failed"} THEN RunTally(a)[s] ELSE 0)

\* Some of n places are finitely many.
LEMMA SomeAreFew ==
  ASSUME NEW n \in Nat, NEW S \in SUBSET (1..n)
  PROVE  IsFiniteSet(S) /\ Cardinality(S) \in Nat
<1>1. IsFiniteSet(1..n)
  BY FS_Interval
<1> QED BY <1>1, FS_Subset, FS_CardinalityType

\* The events of steps are tallied as the steps.
LEMMA StepsTallied ==
  ASSUME NEW a, NEW codes, a.runs = <<>>, NEW statuses, StepsAre(a, statuses)
  PROVE  Tallied(a, Len(StepIds), StepList(a, codes))
<1> DEFINE n == Len(StepIds)
           events == StepList(a, codes)
<1>1. n \in Nat /\ IsList(a.steps, n)
  BY StepsOfAWorkflow DEF StepsAre
<1>2. DOMAIN a.steps = 1..n /\ Len(a.steps) = n
  BY <1>1, LengthOf
<1>3. Len(a.runs) = 0
  OBVIOUS
<1>4. \A i \in 1..n : events[i].status = a.steps[i].status
  BY DEF StepList, Event
<1> HIDE DEF n, events
<1>5. ASSUME NEW s \in StepStatuses
      PROVE  Cardinality(WithStatus(events, n, s))
             = Tally(a)[s] + (IF s \in {"passed", "failed"} THEN RunTally(a)[s] ELSE 0)
  <2>1. Tally(a)[s] = Cardinality(WithStatus(a.steps, n, s))
    BY <1>2 DEF Tally, WithStatus
  <2>2. WithStatus(events, n, s) = WithStatus(a.steps, n, s)
    BY <1>4 DEF WithStatus
  <2>3. s \in {"passed", "failed"} => RunTally(a)[s] = 0
    <3>1. {i \in DOMAIN a.runs : a.runs[i].result = s} = {}
      OBVIOUS
    <3>2. s \in {"passed", "failed"} =>
            RunTally(a)[s] = Cardinality({i \in DOMAIN a.runs : a.runs[i].result = s})
      BY DEF RunTally
    <3> QED BY <3>1, <3>2, FS_EmptySet
  <2>4. Cardinality(WithStatus(a.steps, n, s)) \in Nat
    <3>1. WithStatus(a.steps, n, s) \in SUBSET (1..n)
      BY DEF WithStatus
    <3> QED BY <3>1, <1>1, SomeAreFew
  <2> QED BY <2>1, <2>2, <2>3, <2>4
<1>6. Tallied(a, n, events)
  BY <1>1, <1>2, <1>3, <1>5 DEF Tallied
<1> QED BY <1>6 DEF n, events

\* The events of runs are tallied as the runs.
LEMMA RunsTallied ==
  ASSUME NEW n \in Nat, NEW a, IsHistory(a, n)
  PROVE  Tallied(a, n, [i \in 1..n |-> Event(a.runs[i].result, a.runs[i].codes)])
<1> DEFINE events == [i \in 1..n |-> Event(a.runs[i].result, a.runs[i].codes)]
<1>1. /\ IsList(a.runs, n) /\ a.steps = <<>>
      /\ \A i \in 1..n : a.runs[i].result \in {"passed", "failed"}
  BY DEF IsHistory
<1>2. DOMAIN a.runs = 1..n /\ Len(a.runs) = n
  BY <1>1, LengthOf
<1>3. Len(a.steps) = 0 /\ DOMAIN a.steps = {}
  BY <1>1
<1>4. \A i \in 1..n : events[i].status = a.runs[i].result
  BY DEF Event
<1> HIDE DEF events
<1>5. ASSUME NEW s \in StepStatuses
      PROVE  Cardinality(WithStatus(events, n, s))
             = Tally(a)[s] + (IF s \in {"passed", "failed"} THEN RunTally(a)[s] ELSE 0)
  <2>1. Tally(a)[s] = 0
    <3>1. {i \in DOMAIN a.steps : a.steps[i].status = s} = {}
      BY <1>3
    <3> QED BY <3>1, FS_EmptySet DEF Tally
  <2> DEFINE S == {i \in 1..n : a.runs[i].result = s}
  <2>2. WithStatus(events, n, s) = S
    BY <1>4 DEF WithStatus
  <2>3. Cardinality(S) \in Nat
    <3>1. S \in SUBSET (1..n)
      OBVIOUS
    <3> HIDE DEF S
    <3> QED BY <3>1, SomeAreFew
  <2>4. CASE s \in {"passed", "failed"}
    <3>1. RunTally(a)[s] = Cardinality(S)
      BY <1>2, <2>4 DEF RunTally
    <3> HIDE DEF S
    <3> QED BY <2>1, <2>2, <2>3, <2>4, <3>1
  <2>5. CASE s \notin {"passed", "failed"}
    <3>1. S = {}
      BY <1>1, <2>5
    <3> HIDE DEF S
    <3> QED BY <2>1, <2>2, <2>5, <3>1, FS_EmptySet
  <2> QED BY <2>4, <2>5
<1>6. Tallied(a, n, events)
  BY <1>2, <1>3, <1>5 DEF Tallied
<1> QED BY <1>6 DEF events

\* The readers agree about a file whose items they read alike.
LEMMA ReadersAgreeOn ==
  ASSUME NEW a, NEW n, NEW events, NEW items, NEW end, NEW failed,
         ReadAs(a, n, events, items, end, failed), Tallied(a, n, events)
  PROVE  /\ Facts(a).steps = Analyze(a).steps /\ Facts(a).runs = Analyze(a).runs
         /\ Len(Timeline(a)) = Len(a.steps) + Len(a.runs) + 2
         /\ \A s \in StepStatuses : TimelineSummary(Timeline(a))[s] = Analyze(a).steps[s] +
              (IF s \in {"passed", "failed"} THEN Analyze(a).runs[s] ELSE 0)
         /\ DOMAIN Analyze(a).codes = CodesIn(Timeline(a)) \union a.explained
         /\ Facts(a).codes = IF a.kind = "bundle" THEN CodesIn(Timeline(a))
                             ELSE DOMAIN Analyze(a).codes
         /\ DOMAIN Analyze(a).codes = CodesIn(items) \union a.explained
<1>1. /\ n \in Nat /\ IsList(events, n) /\ Timeline(a) = Between(events, end)
      /\ \A i \in 1..n : events[i].synthetic = FALSE
  BY DEF ReadAs, Tallied
<1>2. /\ Analyze(a).steps = Tally(a) /\ Analyze(a).runs = RunTally(a)
      /\ DOMAIN Analyze(a).codes = CodesIn(items) \union a.explained
  <2>1. Analyze(a) = Analysis(a, items, failed)
    BY DEF ReadAs
  <2>2. /\ Analysis(a, items, failed).steps = Tally(a) /\ Analysis(a, items, failed).runs = RunTally(a)
        /\ Analysis(a, items, failed).codes = CountCodes(items, a.explained)
    BY DEF Analysis
  <2>3. DOMAIN CountCodes(items, a.explained) = CodesIn(items) \union a.explained
    BY DEF CountCodes
  <2> QED BY <2>1, <2>2, <2>3
<1>3. Len(Timeline(a)) = n + 2
  BY <1>1, TheEvents
<1>4. \A s \in StepStatuses :
        TimelineSummary(Timeline(a))[s] = Cardinality(WithStatus(events, n, s))
  BY <1>1, SummaryOfTimeline
<1>5. CodesIn(Timeline(a)) = CodesIn(items)
  <2>1. CodesIn(Timeline(a)) = CodesIn(events)
    BY <1>1, CodesOfTimeline
  <2>2. /\ DOMAIN events = 1..n /\ DOMAIN items = 1..n
        /\ \A i \in 1..n : events[i].codes = items[i].codes
    BY <1>1, LengthOf DEF ReadAs
  <2>3. \A c : c \in CodesIn(events) <=> c \in CodesIn(items)
    BY <2>2, CodeElements
  <2> QED BY <2>1, <2>3
<1>6. /\ Facts(a).steps = Tally(a) /\ Facts(a).runs = RunTally(a)
      /\ Facts(a).codes = IF a.kind = "bundle" THEN CodesIn(items)
                          ELSE CodesIn(items) \union a.explained
  BY DEF ReadAs
<1>7. /\ Len(a.steps) + Len(a.runs) = n
      /\ \A s \in StepStatuses :
           Cardinality(WithStatus(events, n, s))
           = Tally(a)[s] + (IF s \in {"passed", "failed"} THEN RunTally(a)[s] ELSE 0)
  BY DEF Tallied
<1>8. \A s \in StepStatuses : TimelineSummary(Timeline(a))[s] = Analyze(a).steps[s] +
        (IF s \in {"passed", "failed"} THEN Analyze(a).runs[s] ELSE 0)
  BY <1>2, <1>4, <1>7
<1> QED BY <1>2, <1>3, <1>5, <1>6, <1>7, <1>8

\* The histories are those of the latest runs.
LEMMA HistoriesAre ==
  ASSUME ReplayIInv, NEW a \in Histories
  PROVE  \E n \in Nat : IsHistory(a, n)
<1>1. runs \in Seq(SavedRuns) /\ Len(runs) \in Nat
  BY LenProperties DEF ReplayIInv
<1>2. PICK i \in 1..(Len(runs) + 1) : a = HistoryExport(SubSeq(runs, i, Len(runs)))
  BY DEF Histories
<1>3. SubSeq(runs, i, Len(runs)) \in Seq(SavedRuns)
  BY <1>1, <1>2, SubSeqProperties
<1> QED BY <1>2, <1>3, HistoryIs

\* Every file is of one of the four kinds, and so read alike.
LEMMA ReadersDoAgree ==
  ASSUME ReplayIInv
  PROVE  ReadersAgree
<1> SUFFICES ASSUME NEW a \in Artifacts
             PROVE  /\ Facts(a).steps = Analyze(a).steps /\ Facts(a).runs = Analyze(a).runs
                    /\ Len(Timeline(a)) = Len(a.steps) + Len(a.runs) + 2
                    /\ \A s \in StepStatuses : TimelineSummary(Timeline(a))[s] = Analyze(a).steps[s] +
                         (IF s \in {"passed", "failed"} THEN Analyze(a).runs[s] ELSE 0)
                    /\ DOMAIN Analyze(a).codes = CodesIn(Timeline(a)) \union a.explained
                    /\ Facts(a).codes = IF a.kind = "bundle" THEN CodesIn(Timeline(a))
                                        ELSE DOMAIN Analyze(a).codes
  BY DEF ReadersAgree
<1>1. CASE IsRunReport(a)
  <2>1. a.runs = <<>> /\ StepsAre(a, RunStatuses)
    BY <1>1 DEF IsRunReport
  <2> QED BY <1>1, <2>1, ReportReaders, StepsTallied, ReadersAgreeOn
<1>2. CASE IsPlanReport(a)
  <2>1. a.runs = <<>> /\ StepsAre(a, PlanStatuses)
    BY <1>2 DEF IsPlanReport
  <2> QED BY <1>2, <2>1, PlanReaders, StepsTallied, ReadersAgreeOn
<1>3. CASE IsBundle(a)
  <2>1. a.runs = <<>> /\ StepsAre(a, StepStatuses)
    BY <1>3 DEF IsBundle
  <2> QED BY <1>3, <2>1, BundleReaders, StepsTallied, ReadersAgreeOn
<1>4. CASE \E n \in Nat : IsHistory(a, n)
  BY <1>4, HistoryReaders, RunsTallied, ReadersAgreeOn
<1>5. a \in Reports \/ (\E b \in Reports : a = Bundle(b)) \/ a \in Histories
  BY DEF Artifacts
<1> QED BY <1>1, <1>2, <1>3, <1>4, <1>5, ReportsAre, BundleShape, HistoriesAre

-----------------------------------------------------------------------------
\* The ids of the steps with some statuses.
LEMMA IdElements ==
  ASSUME NEW a, NEW statuses, NEW x
  PROVE  x \in IdsWith(a, statuses)
         <=> \E i \in DOMAIN a.steps : a.steps[i].status \in statuses /\ x = a.steps[i].id
BY DEF IdsWith

\* Steps with the same statuses have the same tally.
LEMMA SameTally ==
  ASSUME NEW a, NEW b, DOMAIN a.steps = DOMAIN b.steps,
         \A i \in DOMAIN a.steps : a.steps[i].status = b.steps[i].status
  PROVE  Tally(a) = Tally(b)
<1>1. \A s : {i \in DOMAIN a.steps : a.steps[i].status = s} = {i \in DOMAIN b.steps : b.steps[i].status = s}
  OBVIOUS
<1> QED BY <1>1 DEF Tally

\* The same runs have the same tally.
LEMMA SameRunTally ==
  ASSUME NEW a, NEW b, a.runs = b.runs
  PROVE  RunTally(a) = RunTally(b)
BY DEF RunTally

\* The analysis of a report and of its bundle.
LEMMA BundleOfReport ==
  ASSUME NEW a, IsRunReport(a) \/ IsPlanReport(a)
  PROVE  [Analyze(a) EXCEPT !.codes = DOMAIN @] = [Analyze(Bundle(a)) EXCEPT !.codes = DOMAIN @]
<1> DEFINE n == Len(StepIds)
           b == Bundle(a)
           items == IF a.kind = "run" THEN StepsWith(a, FindingCodes) ELSE StepsWith(a, InvalidCodes)
           failed == IF a.kind = "run" THEN {"failed"} ELSE {"invalid"}
<1>1. /\ a.kind \in {"run", "plan"} /\ a.runs = <<>> /\ IsList(a.steps, n)
      /\ \A i \in 1..n : /\ StepShape(a.steps[i]) /\ a.steps[i].id = StepIds[i]
                         /\ a.kind = "run" => a.steps[i].status \in RunStatuses
                         /\ a.kind = "plan" => a.steps[i].status \in PlanStatuses
  BY DEF IsRunReport, IsPlanReport, StepsAre
<1>2. DOMAIN a.steps = 1..n
  BY <1>1 DEF IsList
<1>3. /\ IsBundle(b) /\ b.result = a.result /\ b.workflow = a.workflow /\ b.steps = Normalized(a)
      /\ b.explained = CodesIn(Normalized(a)) \union a.explained
  BY BundleShape
<1>4. /\ DOMAIN b.steps = 1..n
      /\ \A i \in 1..n : /\ b.steps[i].id = a.steps[i].id
                         /\ b.steps[i].status = a.steps[i].status
                         /\ b.steps[i].codes = NormalizeStep(a.steps[i])
  <2>1. /\ DOMAIN Normalized(a) = 1..n
        /\ \A i \in 1..n : /\ Normalized(a)[i].id = a.steps[i].id
                           /\ Normalized(a)[i].status = a.steps[i].status
                           /\ Normalized(a)[i].codes = NormalizeStep(a.steps[i])
    BY DEF Normalized
  <2> QED BY <2>1, <1>3
<1>5. b.runs = a.runs
  BY <1>1, <1>3 DEF IsBundle
<1>6. /\ Analyze(a) = Analysis(a, items, IdsWith(a, failed))
      /\ DOMAIN items = 1..n
      /\ \A i \in 1..n : items[i].codes = NormalizeStep(a.steps[i])
  <2>1. CASE IsRunReport(a)
    <3>1. a.kind = "run"
      BY <2>1 DEF IsRunReport
    <3> DEFINE its == StepsWith(a, FindingCodes)
    <3>2. /\ Analyze(a) = Analysis(a, its, IdsWith(a, {"failed"}))
          /\ DOMAIN its = 1..n
          /\ \A i \in 1..n : its[i].codes = FindingCodes(a.steps[i])
      BY <2>1, ReportReaders DEF ReadAs
    <3>3. items = its /\ failed = {"failed"}
      BY <3>1
    <3> HIDE DEF items, its, failed
    <3> QED BY <3>1, <3>2, <3>3, <1>1, FindingsOf
  <2>2. CASE IsPlanReport(a)
    <3>1. a.kind = "plan"
      BY <2>2 DEF IsPlanReport
    <3> DEFINE its == StepsWith(a, InvalidCodes)
    <3>2. /\ Analyze(a) = Analysis(a, its, IdsWith(a, {"invalid"}))
          /\ DOMAIN its = 1..n
          /\ \A i \in 1..n : its[i].codes = InvalidCodes(a.steps[i])
      BY <2>2, PlanReaders DEF ReadAs
    <3>3. items = its /\ failed = {"invalid"}
      BY <3>1
    <3> HIDE DEF items, its, failed
    <3> QED BY <3>1, <3>2, <3>3, <1>1, FindingsOf
  <2> QED BY <2>1, <2>2
<1> DEFINE theirs == StepsWith(b, SavedCodes)
<1>7. /\ Analyze(b) = Analysis(b, theirs, IdsWith(b, {"failed", "invalid"}))
      /\ DOMAIN theirs = 1..n
      /\ \A i \in 1..n : theirs[i].codes = NormalizeStep(a.steps[i])
  <2>1. /\ Analyze(b) = Analysis(b, theirs, IdsWith(b, {"failed", "invalid"}))
        /\ DOMAIN theirs = 1..n
        /\ \A i \in 1..n : theirs[i].codes = SavedCodes(b.steps[i])
    BY <1>3, BundleReaders DEF ReadAs
  <2> HIDE DEF theirs, b
  <2> QED BY <2>1, <1>4 DEF SavedCodes
<1> HIDE DEF items, theirs, b
<1>8. Tally(a) = Tally(b) /\ RunTally(a) = RunTally(b)
  BY <1>2, <1>4, <1>5, SameTally, SameRunTally
<1>9. IdsWith(a, failed) = IdsWith(b, {"failed", "invalid"})
  <2>1. \A i \in 1..n : a.steps[i].status \in failed <=> b.steps[i].status \in {"failed", "invalid"}
    BY <1>1, <1>4 DEF RunStatuses, PlanStatuses
  <2> HIDE DEF failed
  <2>2. \A x : x \in IdsWith(a, failed) <=> x \in IdsWith(b, {"failed", "invalid"})
    BY <2>1, <1>2, <1>4, IdElements
  <2> QED BY <2>2
<1> HIDE DEF failed
<1>10. CodesIn(items) \union a.explained = CodesIn(theirs) \union b.explained
  <2>1. \A c : c \in CodesIn(items) <=> c \in CodesIn(theirs)
    BY <1>6, <1>7, CodeElements
  <2>2. \A c : c \in CodesIn(Normalized(a)) <=> c \in CodesIn(theirs)
    BY <1>3, <1>4, <1>7, CodeElements
  <2> QED BY <2>1, <2>2, <1>3
<1>11. /\ [Analysis(a, items, IdsWith(a, failed)) EXCEPT !.codes = DOMAIN @]
          = [result |-> a.result, workflow |-> a.workflow, steps |-> Tally(a), runs |-> RunTally(a),
             codes |-> CodesIn(items) \union a.explained, failed |-> IdsWith(a, failed)]
       /\ [Analysis(b, theirs, IdsWith(b, {"failed", "invalid"})) EXCEPT !.codes = DOMAIN @]
          = [result |-> b.result, workflow |-> b.workflow, steps |-> Tally(b), runs |-> RunTally(b),
             codes |-> CodesIn(theirs) \union b.explained,
             failed |-> IdsWith(b, {"failed", "invalid"})]
  <2>1. /\ DOMAIN CountCodes(items, a.explained) = CodesIn(items) \union a.explained
        /\ DOMAIN CountCodes(theirs, b.explained) = CodesIn(theirs) \union b.explained
    BY DEF CountCodes
  <2> QED BY <2>1 DEF Analysis
<1>12. [Analyze(a) EXCEPT !.codes = DOMAIN @] = [Analyze(b) EXCEPT !.codes = DOMAIN @]
  BY <1>3, <1>6, <1>7, <1>8, <1>9, <1>10, <1>11
<1> QED BY <1>12 DEF b

\* A bundle is analysed as the report it was made of.
LEMMA BundlesKeepReports ==
  ASSUME ReplayIInv
  PROVE  BundleKeepsTheReport
<1> SUFFICES ASSUME NEW a \in Reports
             PROVE  [Analyze(a) EXCEPT !.codes = DOMAIN @] = [Analyze(Bundle(a)) EXCEPT !.codes = DOMAIN @]
  BY Zenon DEF BundleKeepsTheReport
<1> QED BY ReportsAre, BundleOfReport

\* The codes of a run, in its report and in the history.
LEMMA CodesOfRun ==
  ASSUME NEW run \in SavedRuns
  PROVE  LET recorded == ExplanationCodesForRun(run)
             reported == DOMAIN Analyze(RunReport(run)).codes
         IN IF run.explained THEN recorded = reported
            ELSE reported = recorded \ {"input_failed", "runtime_unreachable"}
<1> DEFINE n == Len(StepIds)
           a == RunReport(run)
           recorded == ExplanationCodesForRun(run)
           items == StepsWith(a, FindingCodes)
<1>1. /\ IsRunReport(a)
      /\ a.explained = IF run.explained THEN recorded ELSE {}
      /\ \A i \in 1..n : /\ run.outcomes[i] \in Outcomes
                         /\ a.steps[i].status = run.outcomes[i].status
                         /\ a.steps[i].codes = run.outcomes[i].codes
  <2>1. /\ IsRunReport(a)
        /\ a.explained = IF run.explained THEN recorded ELSE {}
        /\ \A i \in 1..n : /\ run.outcomes[i] \in Outcomes
                           /\ a.steps[i] = [id |-> StepIds[i], status |-> run.outcomes[i].status,
                                            codes |-> run.outcomes[i].codes]
    BY RunReportIs
  <2> HIDE DEF a, recorded
  <2>2. ASSUME NEW i \in 1..n
        PROVE  a.steps[i].status = run.outcomes[i].status /\ a.steps[i].codes = run.outcomes[i].codes
    <3>1. a.steps[i] = [id |-> StepIds[i], status |-> run.outcomes[i].status,
                        codes |-> run.outcomes[i].codes]
      BY <2>1
    <3> QED BY <3>1
  <2> QED BY <2>1, <2>2
<1>2. /\ DOMAIN Analyze(a).codes = CodesIn(items) \union a.explained
      /\ DOMAIN items = 1..n
      /\ \A i \in 1..n : items[i].codes = FindingCodes(a.steps[i])
  <2>1. a.runs = <<>> /\ StepsAre(a, RunStatuses)
    BY <1>1 DEF IsRunReport
  <2> DEFINE events == StepList(a, [i \in 1..n |-> FindingCodes(a.steps[i])])
  <2>2. /\ ReadAs(a, n, events, items, a.result, IdsWith(a, {"failed"}))
        /\ DOMAIN items = 1..n
        /\ \A i \in 1..n : items[i].codes = FindingCodes(a.steps[i])
    BY <1>1, ReportReaders
  <2>3. Tallied(a, n, events)
    BY <2>1, StepsTallied
  <2> HIDE DEF a, n, events, items
  <2> QED BY <2>2, <2>3, ReadersAgreeOn
<1> HIDE DEF items, a
<1>3. \A c : c \in recorded <=> \E i \in 1..n : run.outcomes[i].status # "passed"
                                                 /\ c \in run.outcomes[i].explain
  <2>1. DOMAIN run.outcomes = 1..n
    BY StepsOfAWorkflow DEF SavedRuns
  <2> QED BY <2>1 DEF ExplanationCodesForRun
<1> HIDE DEF recorded
<1>4. \A i \in 1..n :
        /\ items[i].codes \subseteq run.outcomes[i].explain
        /\ run.outcomes[i].status = "passed" => items[i].codes = {}
        /\ run.outcomes[i].status # "passed" =>
             run.outcomes[i].explain \subseteq items[i].codes \union {"input_failed", "runtime_unreachable"}
        /\ items[i].codes \intersect {"input_failed", "runtime_unreachable"} = {}
  <2> SUFFICES ASSUME NEW i \in 1..n
               PROVE  /\ items[i].codes \subseteq run.outcomes[i].explain
                      /\ run.outcomes[i].status = "passed" => items[i].codes = {}
                      /\ run.outcomes[i].status # "passed" =>
                           run.outcomes[i].explain
                           \subseteq items[i].codes \union {"input_failed", "runtime_unreachable"}
                      /\ items[i].codes \intersect {"input_failed", "runtime_unreachable"} = {}
    OBVIOUS
  <2> DEFINE o == run.outcomes[i]
  <2>1. /\ o.status \in RunStatuses
        /\ o.status = "passed" => o.codes = {} /\ o.explain = {}
        /\ o.status = "skipped" => o.codes = {} /\ o.explain = {"dependency_failed"}
        /\ o.status = "failed" =>
             /\ o.codes \subseteq PolicyCodes
             /\ o.codes \subseteq o.explain
             /\ o.explain \subseteq o.codes \union {"input_failed", "runtime_unreachable"}
    BY <1>1, OutcomesAre
  <2>2. items[i].codes = IF o.status = "skipped" THEN {"dependency_failed"}
                         ELSE IF o.status = "failed" THEN o.codes ELSE {}
    <3>1. a.steps[i].status = o.status /\ a.steps[i].codes = o.codes
      BY <1>1
    <3> HIDE DEF o
    <3> QED BY <1>2, <2>1, <3>1, FindingsOf
  <2> HIDE DEF o
  <2>3. /\ items[i].codes \subseteq o.explain
        /\ o.status = "passed" => items[i].codes = {}
        /\ o.status # "passed" =>
             o.explain \subseteq items[i].codes \union {"input_failed", "runtime_unreachable"}
        /\ items[i].codes \intersect {"input_failed", "runtime_unreachable"} = {}
    BY <2>1, <2>2, SavedAssumption DEF RunStatuses
  <2> QED BY <2>3 DEF o
<1>5. /\ CodesIn(items) \subseteq recorded
      /\ recorded \subseteq CodesIn(items) \union {"input_failed", "runtime_unreachable"}
      /\ CodesIn(items) \intersect {"input_failed", "runtime_unreachable"} = {}
  <2>1. ASSUME NEW c \in CodesIn(items)
        PROVE  c \in recorded /\ c \notin {"input_failed", "runtime_unreachable"}
    <3>1. PICK i \in 1..n : c \in items[i].codes
      BY <1>2, CodeElements
    <3> QED BY <3>1, <1>3, <1>4
  <2>2. ASSUME NEW c \in recorded
        PROVE  c \in CodesIn(items) \union {"input_failed", "runtime_unreachable"}
    <3>1. PICK i \in 1..n : run.outcomes[i].status # "passed" /\ c \in run.outcomes[i].explain
      BY <1>3
    <3> QED BY <3>1, <1>2, <1>4, CodeElements
  <2> QED BY <2>1, <2>2
<1>6. IF run.explained THEN recorded = DOMAIN Analyze(a).codes
      ELSE DOMAIN Analyze(a).codes = recorded \ {"input_failed", "runtime_unreachable"}
  BY <1>1, <1>2, <1>5
<1> QED BY <1>6 DEF a, recorded

\* The history has the codes of a run that its report has.
LEMMA HistoryTellsReports ==
  ASSUME ReplayIInv
  PROVE  HistoryTellsTheReport
<1>1. \A i \in DOMAIN runs : runs[i] \in SavedRuns
  BY ElementOfSeq, LenProperties DEF ReplayIInv
<1>2. \A i \in DOMAIN runs : ProjectRun(runs[i]).codes = ExplanationCodesForRun(runs[i])
  BY DEF ProjectRun
<1> QED BY <1>1, <1>2, CodesOfRun, Zenon DEF HistoryTellsTheReport

-----------------------------------------------------------------------------
\* What is made of a document that is no history.
LEMMA Detection ==
  ASSUME NEW d, d.source # "workflow-history"
  PROVE  /\ d.schema /\ d.result \in {"valid", "invalid"} /\ d.steps > 0 => DetectJSON(d) = "plan"
         /\ ~ d.schema /\ d.result \in {"passed", "failed"} /\ d.steps > 0 => DetectJSON(d) = "run"
         /\ ~ (d.schema /\ d.result \in {"valid", "invalid"} /\ d.steps > 0)
            /\ ~ (~ d.schema /\ d.result \in {"passed", "failed"} /\ d.steps > 0)
            => DetectJSON(d) = "refused"
BY DEF DetectJSON

\* A report has as many steps as the workflow.
LEMMA StepCount ==
  ASSUME NEW a, NEW statuses, StepsAre(a, statuses)
  PROVE  Len(a.steps) = Len(StepIds)
BY StepsOfAWorkflow, LengthOf DEF StepsAre

\* Every file is classified as what the CLI wrote.
LEMMA FilesAreDetected ==
  ASSUME ReplayIInv
  PROVE  DetectedAsWritten
<1> DEFINE n == Len(StepIds)
<1>0. n \in Nat /\ n > 0
  BY StepsOfAWorkflow
<1>1. ASSUME NEW a \in Reports
      PROVE  /\ DetectJSON(DocumentOf(a)) = a.kind
             /\ DetectJSON(DocumentOf(Bundle(a))) = IF a.kind = "run" THEN "run" ELSE "refused"
             /\ a.kind = "run" => DetectJSON([DocumentOf(a) EXCEPT !.schema = TRUE]) = "refused"
  <2>1. IsRunReport(a) \/ IsPlanReport(a)
    BY ReportsAre
  <2>2. /\ Len(a.steps) = n /\ a.kind \in {"run", "plan"}
        /\ a.kind = "run" => a.result \in {"passed", "failed"}
        /\ a.kind = "plan" => a.result \in {"valid", "invalid"}
    BY <2>1, StepCount DEF IsRunReport, IsPlanReport, PlanStatuses
  <2>3. /\ Bundle(a).kind = "bundle" /\ Bundle(a).result = a.result /\ Len(Bundle(a).steps) = n
    BY <2>1, BundleShape, StepCount DEF IsBundle
  <2> DEFINE d == DocumentOf(a)
             bundled == DocumentOf(Bundle(a))
             stamped == [d EXCEPT !.schema = TRUE]
  <2>4. /\ d.source # "workflow-history" /\ d.result = a.result /\ d.steps = n
        /\ (d.schema <=> a.kind = "plan")
    BY <2>2 DEF DocumentOf, Document
  <2>5. /\ bundled.source # "workflow-history" /\ bundled.result = a.result /\ bundled.steps = n
        /\ ~ bundled.schema
    BY <2>3 DEF DocumentOf, Document
  <2>6. /\ stamped.source # "workflow-history" /\ stamped.result = a.result /\ stamped.steps = n
        /\ stamped.schema
    BY <2>2 DEF DocumentOf, Document
  <2> HIDE DEF n, d, bundled, stamped
  <2>7. DetectJSON(d) = a.kind
    BY <1>0, <2>2, <2>4, Detection
  <2>8. DetectJSON(bundled) = IF a.kind = "run" THEN "run" ELSE "refused"
    BY <1>0, <2>2, <2>5, Detection
  <2>9. a.kind = "run" => DetectJSON(stamped) = "refused"
    BY <1>0, <2>2, <2>6, Detection
  <2> QED BY <2>7, <2>8, <2>9 DEF d, bundled, stamped
<1>2. ASSUME NEW a \in Histories PROVE DetectJSON(DocumentOf(a)) = a.kind
  <2>1. a.kind = "history"
    BY HistoriesAre DEF IsHistory
  <2> QED BY <2>1 DEF DetectJSON, DocumentOf, Document
<1>3. ASSUME NEW result \in {"passed", "failed", "valid", "invalid"}, NEW schema \in BOOLEAN
      PROVE  DetectJSON(Document(schema, "", result, 0)) = "refused"
  <2> DEFINE d == Document(schema, "", result, 0)
  <2>1. d.source # "workflow-history" /\ d.steps = 0
    BY DEF Document
  <2> HIDE DEF d
  <2>2. DetectJSON(d) = "refused"
    BY <2>1, Detection
  <2> QED BY <2>2 DEF d
<1> QED BY <1>1, <1>2, <1>3 DEF DetectedAsWritten

-----------------------------------------------------------------------------
\* A comparison of one kind that shows nothing: the facts are the same.
LEMMA NothingDiffers ==
  ASSUME NEW l, NEW r, NEW plain, NEW sets, ~ Changed(Differences(l, r, plain, sets))
  PROVE  /\ \A f \in plain : l[f] = r[f]
         /\ \A f \in sets : l[f] \ r[f] = {} /\ r[f] \ l[f] = {}
<1> DEFINE d == Differences(l, r, plain, sets)
<1>1. /\ d.plain = {f \in plain : l[f] # r[f]}
      /\ DOMAIN d.added = sets
      /\ \A f \in sets : d.added[f] = r[f] \ l[f] /\ d.removed[f] = l[f] \ r[f]
  BY DEF Differences
<1>2. d.plain = {} /\ \A f \in DOMAIN d.added : d.added[f] \union d.removed[f] = {}
  BY DEF Changed
<1> HIDE DEF d
<1>3. \A f \in plain : l[f] = r[f]
  BY <1>1, <1>2
<1>4. ASSUME NEW f \in sets PROVE l[f] \ r[f] = {} /\ r[f] \ l[f] = {}
  <2>1. d.added[f] \union d.removed[f] = {}
    BY <1>1, <1>2
  <2> QED BY <2>1, <1>1
<1> QED BY <1>3, <1>4

\* Ids are of one step each: the same ids are the same steps.
LEMMA SameIds ==
  ASSUME NEW a, NEW b, NEW statuses, NEW all, StepsAre(a, all), StepsAre(b, all),
         IdsWith(a, statuses) \ IdsWith(b, statuses) = {}
  PROVE  \A i \in 1..Len(StepIds) : a.steps[i].status \in statuses => b.steps[i].status \in statuses
<1>1. /\ DOMAIN a.steps = 1..Len(StepIds) /\ DOMAIN b.steps = 1..Len(StepIds)
      /\ \A i \in 1..Len(StepIds) : a.steps[i].id = StepIds[i] /\ b.steps[i].id = StepIds[i]
  BY DEF StepsAre, IsList
<1> SUFFICES ASSUME NEW i \in 1..Len(StepIds), a.steps[i].status \in statuses
             PROVE  b.steps[i].status \in statuses
  OBVIOUS
<1>2. StepIds[i] \in IdsWith(b, statuses)
  BY <1>1, IdElements
<1>3. PICK j \in 1..Len(StepIds) : b.steps[j].status \in statuses /\ StepIds[i] = StepIds[j]
  BY <1>1, <1>2, IdElements
<1> QED BY <1>3, StepsOfAWorkflow, SavedAssumption

\* Two runs that compare as the same.
LEMMA SilentRuns ==
  ASSUME NEW a, NEW b, IsRunReport(a), IsRunReport(b), Same(a, b)
  PROVE  a.workflow = b.workflow /\ \A i \in DOMAIN a.steps : a.steps[i].status = b.steps[i].status
<1>1. a.kind = "run" /\ b.kind = "run" /\ StepsAre(a, RunStatuses) /\ StepsAre(b, RunStatuses)
  BY DEF IsRunReport
<1>2. /\ Facts(a).kind = "run" /\ Facts(a).workflow = a.workflow
      /\ Facts(a).failed = IdsWith(a, {"failed"}) /\ Facts(a).skipped = IdsWith(a, {"skipped"})
      /\ Facts(b).kind = "run" /\ Facts(b).workflow = b.workflow
      /\ Facts(b).failed = IdsWith(b, {"failed"}) /\ Facts(b).skipped = IdsWith(b, {"skipped"})
  BY <1>1 DEF Facts, RunFacts, NoFacts
<1>3. ~ Changed(Differences(Facts(a), Facts(b), {"workflow", "result", "steps"},
                            {"codes", "failed", "skipped"}))
  BY <1>2 DEF Same, BuildCompare, CompareRuns
<1>4. /\ Facts(a).workflow = Facts(b).workflow
      /\ Facts(a).failed \ Facts(b).failed = {} /\ Facts(b).failed \ Facts(a).failed = {}
      /\ Facts(a).skipped \ Facts(b).skipped = {} /\ Facts(b).skipped \ Facts(a).skipped = {}
  BY <1>3, NothingDiffers
<1>5. \A i \in 1..Len(StepIds) :
        /\ a.steps[i].status = "failed" <=> b.steps[i].status = "failed"
        /\ a.steps[i].status = "skipped" <=> b.steps[i].status = "skipped"
  <2>1. \A i \in 1..Len(StepIds) :
          a.steps[i].status \in {"failed"} <=> b.steps[i].status \in {"failed"}
    BY <1>1, <1>2, <1>4, SameIds
  <2>2. \A i \in 1..Len(StepIds) :
          a.steps[i].status \in {"skipped"} <=> b.steps[i].status \in {"skipped"}
    BY <1>1, <1>2, <1>4, SameIds
  <2> QED BY <2>1, <2>2
<1>6. /\ DOMAIN a.steps = 1..Len(StepIds)
      /\ \A i \in 1..Len(StepIds) : a.steps[i].status \in RunStatuses /\ b.steps[i].status \in RunStatuses
  BY <1>1 DEF StepsAre, IsList
<1> QED BY <1>2, <1>4, <1>5, <1>6 DEF RunStatuses

\* Two plans that compare as the same.
LEMMA SilentPlans ==
  ASSUME NEW a, NEW b, IsPlanReport(a), IsPlanReport(b), Same(a, b)
  PROVE  a.workflow = b.workflow /\ \A i \in DOMAIN a.steps : a.steps[i].status = b.steps[i].status
<1>1. a.kind = "plan" /\ b.kind = "plan" /\ StepsAre(a, PlanStatuses) /\ StepsAre(b, PlanStatuses)
  BY DEF IsPlanReport
<1>2. /\ Facts(a).kind = "plan" /\ Facts(a).workflow = a.workflow
      /\ Facts(a).invalid = IdsWith(a, {"invalid"})
      /\ Facts(b).kind = "plan" /\ Facts(b).workflow = b.workflow
      /\ Facts(b).invalid = IdsWith(b, {"invalid"})
  BY <1>1 DEF Facts, PlanFacts, NoFacts
<1>3. ~ Changed(Differences(Facts(a), Facts(b), {"workflow", "result", "steps"},
                            {"codes", "invalid"}))
  BY <1>2 DEF Same, BuildCompare, ComparePlans
<1>4. /\ Facts(a).workflow = Facts(b).workflow
      /\ Facts(a).invalid \ Facts(b).invalid = {} /\ Facts(b).invalid \ Facts(a).invalid = {}
  BY <1>3, NothingDiffers
<1>5. \A i \in 1..Len(StepIds) :
        a.steps[i].status \in {"invalid"} <=> b.steps[i].status \in {"invalid"}
  BY <1>1, <1>2, <1>4, SameIds
<1>6. /\ DOMAIN a.steps = 1..Len(StepIds)
      /\ \A i \in 1..Len(StepIds) : a.steps[i].status \in PlanStatuses /\ b.steps[i].status \in PlanStatuses
  BY <1>1 DEF StepsAre, IsList
<1> QED BY <1>2, <1>4, <1>5, <1>6 DEF PlanStatuses

\* The facts know the kind of the file.
LEMMA FactsOfKind ==
  ASSUME NEW a, IsRunReport(a) \/ IsPlanReport(a)
  PROVE  Facts(a).kind = a.kind
<1>1. CASE a.kind = "run"
  BY <1>1 DEF Facts, RunFacts, NoFacts
<1>2. CASE a.kind = "plan"
  BY <1>2 DEF Facts, PlanFacts, NoFacts
<1> QED BY <1>1, <1>2 DEF IsRunReport, IsPlanReport

\* Reports that compare as the same are the same step by step.
LEMMA SilenceIsMeant ==
  ASSUME ReplayIInv
  PROVE  SilenceMeansSame
<1> SUFFICES ASSUME NEW a \in Reports, NEW b \in Reports, Same(a, b)
             PROVE  a.workflow = b.workflow /\ \A i \in DOMAIN a.steps : a.steps[i].status = b.steps[i].status
  BY Zenon DEF SilenceMeansSame
<1>1. (IsRunReport(a) \/ IsPlanReport(a)) /\ (IsRunReport(b) \/ IsPlanReport(b))
  BY ReportsAre
<1>2. a.kind = b.kind
  <2> SUFFICES ASSUME Facts(a).kind # Facts(b).kind PROVE FALSE
    BY <1>1, FactsOfKind
  <2>1. BuildCompare(Facts(a), Facts(b))
        = [Differences(Facts(a), Facts(b), {}, {}) EXCEPT !.sameKind = FALSE]
    BY DEF BuildCompare
  <2>2. BuildCompare(Facts(a), Facts(b)).sameKind = FALSE
    BY <2>1 DEF Differences
  <2> QED BY <2>2 DEF Same, Changed
<1>3. /\ (IsRunReport(a) => a.kind = "run") /\ (IsRunReport(b) => b.kind = "run")
      /\ (IsPlanReport(a) => a.kind = "plan") /\ (IsPlanReport(b) => b.kind = "plan")
  BY DEF IsRunReport, IsPlanReport
<1> QED BY <1>1, <1>2, <1>3, SilentRuns, SilentPlans

-----------------------------------------------------------------------------
\* The facts of a history.
LEMMA HistoryFactsAre ==
  ASSUME NEW n \in Nat, NEW a, IsHistory(a, n)
  PROVE  /\ Facts(a).kind = "history" /\ Facts(a).codes = CodesIn(a.runs)
         /\ Facts(a).failed = FailedRuns(a)
         /\ n = 0 => Facts(a).latest = 0
         /\ n > 0 => Facts(a).latest = a.runs[1].id
<1>1. a.kind = "history" /\ IsList(a.runs, n)
  BY DEF IsHistory
<1>2. /\ Facts(a).kind = "history" /\ Facts(a).codes = CodesIn(a.runs)
      /\ Facts(a).failed = FailedRuns(a)
      /\ Facts(a).latest = IF a.runs = <<>> THEN 0 ELSE a.runs[1].id
  BY <1>1 DEF Facts, HistoryFacts, NoFacts
<1>3. a.runs \in Seq(ImageOf(a.runs, 1..n)) /\ Len(a.runs) = n
  BY <1>1, LengthOf
<1>4. a.runs = <<>> <=> n = 0
  BY <1>3, EmptySeq
<1> QED BY <1>2, <1>4

\* The ids of the failed runs of a history.
LEMMA FailedElements ==
  ASSUME NEW a, NEW n, DOMAIN a.runs = 1..n, NEW x
  PROVE  x \in FailedRuns(a) <=> \E i \in 1..n : a.runs[i].result = "failed" /\ x = a.runs[i].id
BY DEF FailedRuns

\* The runs of a history, and those it had before the latest i.
Grown(l, r, n, i) ==
  /\ DOMAIN l.runs = 1..(n - i) /\ DOMAIN r.runs = 1..n
  /\ \A k \in 1..(n - i) : l.runs[k] = r.runs[i + k]
  /\ \A k \in 1..n : r.runs[k].id = n - k + 1

\* A longer history has every failure and code of the shorter one.
LEMMA GrownKeeps ==
  ASSUME NEW n \in Nat, NEW i \in 1..n, NEW l, NEW r, Grown(l, r, n, i)
  PROVE  /\ FailedRuns(l) \ FailedRuns(r) = {}
         /\ CodesIn(l.runs) \ CodesIn(r.runs) = {}
<1>1. \A k \in 1..(n - i) : i + k \in 1..n
  OBVIOUS
<1>2. /\ DOMAIN l.runs = 1..(n - i) /\ DOMAIN r.runs = 1..n
      /\ \A k \in 1..(n - i) : l.runs[k] = r.runs[i + k]
  BY DEF Grown
<1>3. ASSUME NEW x \in FailedRuns(l) PROVE x \in FailedRuns(r)
  <2>1. x \in FailedRuns(l)
        <=> \E k \in 1..(n - i) : l.runs[k].result = "failed" /\ x = l.runs[k].id
    BY <1>2, FailedElements
  <2>2. x \in FailedRuns(r) <=> \E k \in 1..n : r.runs[k].result = "failed" /\ x = r.runs[k].id
    BY <1>2, FailedElements
  <2>3. PICK k \in 1..(n - i) : l.runs[k].result = "failed" /\ x = l.runs[k].id
    BY <2>1
  <2> QED BY <2>2, <2>3, <1>1, <1>2
<1>4. ASSUME NEW x \in CodesIn(l.runs) PROVE x \in CodesIn(r.runs)
  <2>1. PICK k \in 1..(n - i) : x \in l.runs[k].codes
    BY <1>2, CodeElements
  <2> QED BY <2>1, <1>1, <1>2, CodeElements
<1> QED BY <1>3, <1>4

\* The new failures of a longer history are its latest failed runs.
LEMMA GrownAdds ==
  ASSUME NEW n \in Nat, NEW i \in 1..n, NEW l, NEW r, Grown(l, r, n, i), NEW x
  PROVE  x \in FailedRuns(r) \ FailedRuns(l)
         <=> \E k \in 1..i : r.runs[k].result = "failed" /\ x = r.runs[k].id
<1>1. DOMAIN l.runs = 1..(n - i) /\ DOMAIN r.runs = 1..n
  BY DEF Grown
<1>2. \A k \in 1..(n - i) : l.runs[k] = r.runs[i + k]
  BY DEF Grown
<1>3. \A k \in 1..n : r.runs[k].id = n - k + 1
  BY DEF Grown
<1>4. x \in FailedRuns(l)
      <=> \E k \in 1..(n - i) : l.runs[k].result = "failed" /\ x = l.runs[k].id
  BY <1>1, FailedElements
<1>5. x \in FailedRuns(r) <=> \E k \in 1..n : r.runs[k].result = "failed" /\ x = r.runs[k].id
  BY <1>1, FailedElements
<1>6. ASSUME x \in FailedRuns(r), x \notin FailedRuns(l)
      PROVE  \E k \in 1..i : r.runs[k].result = "failed" /\ x = r.runs[k].id
  <2>1. PICK k \in 1..n : r.runs[k].result = "failed" /\ x = r.runs[k].id
    BY <1>6, <1>5
  <2>2. k \in 1..i
    <3> SUFFICES ASSUME k > i PROVE FALSE
      OBVIOUS
    <3>1. k - i \in 1..(n - i) /\ i + (k - i) = k
      OBVIOUS
    <3>2. l.runs[k - i] = r.runs[k]
      BY <3>1, <1>2
    <3> QED BY <1>6, <2>1, <3>1, <3>2, <1>4
  <2> QED BY <2>1, <2>2
<1>7. ASSUME NEW k \in 1..i, r.runs[k].result = "failed", x = r.runs[k].id
      PROVE  x \in FailedRuns(r) /\ x \notin FailedRuns(l)
  <2>1. k \in 1..n /\ x = n - k + 1
    BY <1>3, <1>7
  <2>2. ASSUME x \in FailedRuns(l) PROVE FALSE
    <3>1. PICK m \in 1..(n - i) : x = l.runs[m].id
      BY <2>2, <1>4
    <3>2. i + m \in 1..n
      OBVIOUS
    <3>3. x = n - (i + m) + 1
      BY <3>1, <3>2, <1>3, <1>2
    <3> QED BY <2>1, <3>2, <3>3
  <2> QED BY <1>7, <1>5, <2>1, <2>2
<1> QED BY <1>6, <1>7

\* A comparison of a history with what it was.
LEMMA GrownShows ==
  ASSUME NEW n \in Nat, NEW i \in 1..n, NEW l, NEW r,
         IsHistory(l, n - i), IsHistory(r, n), Grown(l, r, n, i)
  PROVE  LET c == BuildCompare(Facts(l), Facts(r))
         IN /\ Changed(c)
            /\ c.added.failed = FailedRuns(r) \ FailedRuns(l)
            /\ c.removed.failed = {} /\ c.removed.codes = {}
<1> DEFINE c == BuildCompare(Facts(l), Facts(r))
<1>1. n - i \in Nat /\ n > 0 /\ 1 \in 1..n
  OBVIOUS
<1>2. /\ Facts(l).kind = "history" /\ Facts(r).kind = "history"
      /\ Facts(l).codes = CodesIn(l.runs) /\ Facts(r).codes = CodesIn(r.runs)
      /\ Facts(l).failed = FailedRuns(l) /\ Facts(r).failed = FailedRuns(r)
      /\ Facts(r).latest = r.runs[1].id
      /\ n - i = 0 => Facts(l).latest = 0
      /\ n - i > 0 => Facts(l).latest = l.runs[1].id
  <2>1. /\ Facts(r).kind = "history" /\ Facts(r).codes = CodesIn(r.runs)
        /\ Facts(r).failed = FailedRuns(r)
        /\ n > 0 => Facts(r).latest = r.runs[1].id
    BY HistoryFactsAre
  <2>2. ASSUME NEW m \in Nat, IsHistory(l, m)
        PROVE  /\ Facts(l).kind = "history" /\ Facts(l).codes = CodesIn(l.runs)
               /\ Facts(l).failed = FailedRuns(l)
               /\ m = 0 => Facts(l).latest = 0
               /\ m > 0 => Facts(l).latest = l.runs[1].id
    BY <2>2, HistoryFactsAre
  <2> QED BY <1>1, <2>1, <2>2
<1>3. Facts(r).latest = n
  <2>1. r.runs[1].id = n - 1 + 1
    BY <1>1 DEF Grown
  <2>2. Facts(r).latest = r.runs[1].id
    BY <1>2
  <2> QED BY <2>1, <2>2
<1>4. n - i > 0 => l.runs[1].id = n - i
  <2> SUFFICES ASSUME n - i > 0 PROVE l.runs[1].id = n - i
    OBVIOUS
  <2>1. 1 \in 1..(n - i) /\ i + 1 \in 1..n
    OBVIOUS
  <2>2. l.runs[1] = r.runs[i + 1] /\ r.runs[i + 1].id = n - (i + 1) + 1
    BY <2>1 DEF Grown
  <2> QED BY <2>2
<1>5. Facts(l).latest # n
  BY <1>1, <1>2, <1>4
<1>6. c = Differences(Facts(l), Facts(r), {"runs", "workflows", "latest"}, {"codes", "failed"})
  BY <1>2 DEF BuildCompare, CompareHistory
<1> HIDE DEF c
<1>7. /\ c.sameKind = TRUE
      /\ "latest" \in c.plain
      /\ c.added.failed = FailedRuns(r) \ FailedRuns(l)
      /\ c.removed.failed = FailedRuns(l) \ FailedRuns(r)
      /\ c.removed.codes = CodesIn(l.runs) \ CodesIn(r.runs)
  BY <1>2, <1>3, <1>5, <1>6 DEF Differences
<1>8. Changed(c)
  BY <1>7 DEF Changed
<1>9. /\ Changed(c) /\ c.added.failed = FailedRuns(r) \ FailedRuns(l)
      /\ c.removed.failed = {} /\ c.removed.codes = {}
  BY <1>7, <1>8, GrownKeeps
<1> QED BY <1>9 DEF c

\* The histories of a list of runs, and of it without its first i.
LEMMA ListGrown ==
  ASSUME NEW list \in Seq(SavedRuns), NEW i \in 1..Len(list),
         \A j \in 1..Len(list) : list[j].id = Len(list) - j + 1
  PROVE  LET n == Len(list)
             l == HistoryExport(SubSeq(list, i + 1, n))
             r == HistoryExport(list)
         IN /\ n \in Nat /\ IsHistory(l, n - i) /\ IsHistory(r, n) /\ Grown(l, r, n, i)
            /\ \A k \in 1..n : r.runs[k].result = RunResult(list[k].outcomes) /\ r.runs[k].id = list[k].id
<1> DEFINE n == Len(list)
           earlier == SubSeq(list, i + 1, n)
           l == HistoryExport(earlier)
           r == HistoryExport(list)
<1>1. n \in Nat /\ i \in 1..n /\ i \in Int /\ n \in Int
  BY LenProperties
<1>2. \A j \in (i + 1)..n : list[j] \in SavedRuns
  BY <1>1, ElementOfSeq
<1>3. /\ earlier \in Seq(SavedRuns)
      /\ Len(earlier) = IF i + 1 <= n THEN n - (i + 1) + 1 ELSE 0
      /\ \A k \in 1..(n - (i + 1) + 1) : earlier[k] = list[i + 1 + k - 1]
  <2>1. i + 1 \in Int
    BY <1>1
  <2> HIDE DEF n
  <2> QED BY <1>1, <1>2, <2>1, SubSeqProperties
<1> HIDE DEF earlier
<1>4. Len(earlier) = n - i /\ \A k \in 1..(n - i) : earlier[k] = list[i + k]
  <2> HIDE DEF n
  <2>1. Len(earlier) = n - i
    BY <1>1, <1>3
  <2>2. ASSUME NEW k \in 1..(n - i) PROVE earlier[k] = list[i + k]
    <3>1. k \in 1..(n - (i + 1) + 1) /\ i + 1 + k - 1 = i + k
      BY <1>1
    <3>2. earlier[k] = list[i + 1 + k - 1]
      BY <1>3, <3>1
    <3> QED BY <3>1, <3>2
  <2> QED BY <2>1, <2>2
<1>5. /\ IsHistory(l, n - i) /\ l.runs = [k \in 1..(n - i) |-> ProjectRun(earlier[k])]
      /\ IsHistory(r, n) /\ r.runs = [k \in 1..n |-> ProjectRun(list[k])]
  <2>1. /\ IsHistory(l, Len(earlier)) /\ l.runs = [k \in 1..Len(earlier) |-> ProjectRun(earlier[k])]
        /\ IsHistory(r, Len(list)) /\ r.runs = [k \in 1..Len(list) |-> ProjectRun(list[k])]
    BY <1>3, HistoryIs
  <2> HIDE DEF l, r
  <2> QED BY <2>1, <1>4
<1>6. \A j \in 1..n : list[j].id = n - j + 1
  OBVIOUS
<1> HIDE DEF l, r, n
<1>7. \A k \in 1..n : /\ r.runs[k].id = list[k].id
                      /\ r.runs[k].result = RunResult(list[k].outcomes)
  <2>1. \A k \in 1..n : r.runs[k] = ProjectRun(list[k])
    BY <1>5
  <2>2. \A run : ProjectRun(run).id = run.id /\ ProjectRun(run).result = RunResult(run.outcomes)
    BY DEF ProjectRun
  <2> QED BY <2>1, <2>2
<1>8. ASSUME NEW k \in 1..(n - i) PROVE l.runs[k] = r.runs[i + k]
  <2>1. i + k \in 1..n
    BY <1>1
  <2>2. l.runs[k] = ProjectRun(earlier[k]) /\ r.runs[i + k] = ProjectRun(list[i + k])
    BY <2>1, <1>5
  <2> QED BY <2>2, <1>4
<1>9. DOMAIN l.runs = 1..(n - i) /\ DOMAIN r.runs = 1..n
  BY <1>5
<1>10. Grown(l, r, n, i)
  BY <1>6, <1>7, <1>8, <1>9 DEF Grown
<1> QED BY <1>1, <1>5, <1>7, <1>10 DEF l, r, n, earlier

\* So it is for the runs so far.
LEMMA NewRunsDoShow ==
  ASSUME ReplayIInv
  PROVE  NewRunsShow
<1>1. /\ runs \in Seq(SavedRuns) /\ Len(runs) \in Nat /\ DOMAIN runs = 1..Len(runs)
      /\ \A j \in 1..Len(runs) : runs[j].id = Len(runs) - j + 1
  BY LenProperties DEF ReplayIInv
<1> SUFFICES ASSUME NEW i \in 1..Len(runs)
             PROVE  LET c == BuildCompare(Facts(HistoryExport(SubSeq(runs, i + 1, Len(runs)))),
                                          Facts(HistoryExport(runs)))
                    IN /\ Changed(c)
                       /\ c.added.failed = {runs[j].id : j \in {k \in 1..i :
                                                RunResult(runs[k].outcomes) = "failed"}}
                       /\ c.removed.failed = {} /\ c.removed.codes = {}
  BY <1>1, Zenon DEF NewRunsShow
<1> DEFINE l == HistoryExport(SubSeq(runs, i + 1, Len(runs)))
           r == HistoryExport(runs)
           c == BuildCompare(Facts(l), Facts(r))
           new == {runs[j].id : j \in {k \in 1..i : RunResult(runs[k].outcomes) = "failed"}}
<1>2. /\ IsHistory(l, Len(runs) - i) /\ IsHistory(r, Len(runs)) /\ Grown(l, r, Len(runs), i)
      /\ \A k \in 1..Len(runs) : /\ r.runs[k].result = RunResult(runs[k].outcomes)
                                 /\ r.runs[k].id = runs[k].id
  BY <1>1, ListGrown
<1>3. \A k \in 1..i : k \in 1..Len(runs)
  BY <1>1
<1> HIDE DEF l, r
<1>4. /\ Changed(c) /\ c.added.failed = FailedRuns(r) \ FailedRuns(l)
      /\ c.removed.failed = {} /\ c.removed.codes = {}
  BY <1>1, <1>2, GrownShows
<1>5. \A x : x \in FailedRuns(r) \ FailedRuns(l)
             <=> \E k \in 1..i : RunResult(runs[k].outcomes) = "failed" /\ x = runs[k].id
  <2>1. \A x : x \in FailedRuns(r) \ FailedRuns(l)
               <=> \E k \in 1..i : r.runs[k].result = "failed" /\ x = r.runs[k].id
    BY <1>1, <1>2, GrownAdds
  <2> QED BY <2>1, <1>2, <1>3
<1>6. \A x : x \in new <=> \E k \in 1..i : RunResult(runs[k].outcomes) = "failed" /\ x = runs[k].id
  OBVIOUS
<1> HIDE DEF new, c
<1>7. FailedRuns(r) \ FailedRuns(l) = new
  BY <1>5, <1>6
<1>8. /\ Changed(c) /\ c.added.failed = new /\ c.removed.failed = {} /\ c.removed.codes = {}
  BY <1>4, <1>7
<1> QED BY <1>8, Zenon DEF c, l, r, new

\* What is read back from saved files is what was saved.
LEMMA ReplayIsTruthful == ReplayIInv => ReplayTellsTheTruth
BY ReadersDoAgree, BundlesKeepReports, HistoryTellsReports, FilesAreDetected,
   SilenceIsMeant, NewRunsDoShow DEF ReplayTellsTheTruth

-----------------------------------------------------------------------------
-----------------------------------------------------------------------------
(* CliFiles: the commands that write files which others keep.              *)

Contents == [form : {"none", "torn", "array", "other", "bad", "whole"}, save : Nat]
Bundles == [form : {"whole"}, items : SUBSET Entries, by : Writers]
Canonical == Content("array", 0)

WriterForms ==
  [at : {"begin", "look", "copy", "name", "open", "fill", "write", "create", "put", "done"},
   data : Contents, kept : Contents, now : 0..MaxSeconds, name : Names \union {<<>>},
   left : Seq(Entries), items : SUBSET Entries, passed : BOOLEAN, code : {-1, 0, 1}]

FilesType ==
  /\ job \in {"migrate", "bundle"}
  /\ args \in [Writers -> [write : BOOLEAN, out : BOOLEAN]]
  /\ files \in [{"config", "out"} -> Contents]
  /\ backups \in [Names -> Contents]
  /\ dir \in [Entries -> {NoFile, Torn, Content("whole", 0)} \union Bundles]
  /\ writer \in [Writers -> WriterForms]
  /\ second \in 0..MaxSeconds /\ saves \in Nat

\* What the commands of one kind leave alone is as it was at first.
EachDoesItsJob ==
  /\ job = "bundle" =>
       /\ replaced = {} /\ files = NoFiles /\ \A n \in Names : backups[n] = NoFile
       /\ \A p \in Writers : /\ writer[p].at \in {"begin", "create", "put", "done"}
                             /\ writer[p].name = <<>>
                             /\ writer[p].kept = NoFile /\ writer[p].data = NoFile
  /\ job = "migrate" =>
       /\ dir = Directory(NoFile)
       /\ \A p \in Writers : /\ writer[p].at \notin {"create", "put"}
                             /\ writer[p].items = {} /\ writer[p].left = <<>>

\* What a migrate holds at each of its steps.
MigrateHolds(p) ==
  LET w == writer[p]
  IN /\ w.at \in {"look", "copy", "name", "open", "fill", "write"} =>
          w.data.form = "array" /\ args[p].write
     /\ w.at = "copy" => files[Target(p)] # NoFile
     /\ w.at \in {"begin", "look", "copy"} => w.kept = NoFile
     /\ w.at \in {"begin", "look", "copy", "name"} => w.name = <<>>
     /\ w.at \in {"name", "open", "fill"} => w.kept # NoFile
     /\ w.at \in {"open", "fill"} => w.name # <<>>
     /\ w.at = "write" => w.name # <<>> \/ w.kept = NoFile
     /\ w.name # <<>> => w.name[1] = Target(p) /\ w.kept # NoFile
     /\ w.at \in {"fill", "write"} /\ w.name # <<>> => backups[w.name] # NoFile

\* An exit code comes last, and 0 of a migrate that writes means it has written.
Coded(p) ==
  /\ writer[p].at # "done" => writer[p].code = -1
  /\ (job = "migrate" /\ writer[p].code = 0 /\ args[p].write) =>
       writer[p].data.form = "array" /\ (saves = 0 => files[Target(p)].form = "array")

FilesAreNotTorn == \A path \in {"config", "out"} : files[path].form # "torn"

\* While nobody else saves, a file holds what it held at first, and then the
\* canonical form; what a command has copied is still there, until then.
WithoutSaves ==
  saves = 0 => /\ \A path \in {"config", "out"} : files[path].save = 0
               /\ \A p \in Writers : writer[p].data.save = 0
               /\ \A p \in Writers : files[Target(p)] # Canonical /\ writer[p].kept # NoFile =>
                                       writer[p].kept = files[Target(p)]
               /\ Canonical \in replaced => \E path \in {"config", "out"} : files[path] = Canonical

BackupsAreOfWriters ==
  \A n \in Names : backups[n] # NoFile =>
    \E q \in Writers : writer[q].name = n /\ backups[n] \in {Torn, writer[q].kept}

Shared(p) == \E q \in Writers \ {p} : writer[q].name = writer[p].name

\* A migrate that is about to write has its backup, unless another has its name.
BackupIsMade(p) ==
  writer[p].at = "write" /\ writer[p].name # <<>> =>
    backups[writer[p].name] = writer[p].kept \/ Shared(p)

\* The backup of a migrate that is done has what it replaced, unless another
\* took its name; and without saves that one had a copy of the same.
Secures(p, c) ==
  /\ writer[p].at = "done" /\ writer[p].name # <<>> /\ writer[p].kept = c
  /\ backups[writer[p].name] # NoFile
  /\ backups[writer[p].name] = c \/ Shared(p)
  /\ saves = 0 /\ c # Canonical =>
       /\ backups[writer[p].name] \in {c, Torn}
       /\ \A q \in Writers : writer[q].name = writer[p].name => writer[q].kept = c
Secured(c) == \E p \in Writers : Secures(p, c)

\* What a bundle's command holds: what it has yet to write ends with the
\* manifest, and its other artifacts are there or yet to be written.
BundleHolds(p) ==
  LET w == writer[p]
  IN /\ w.items # {} <=> w.left # <<>>
     /\ w.items # {} => w.at \in {"create", "put", "done"} /\ dir["theirs"] = NoFile
     /\ w.at \in {"create", "put"} => w.items # {}
     /\ \A i \in DOMAIN w.left : w.left[i] # "theirs"
     /\ \A i \in DOMAIN w.left : w.left[i] = "manifest" <=> i = Len(w.left)
     /\ \A a \in w.items : /\ a \notin {"theirs", "manifest"}
                           /\ dir[a] # NoFile \/ \E i \in DOMAIN w.left : w.left[i] = a
     /\ (job = "bundle" /\ w.code = 0) =>
          w.items # {} /\ w.left = <<"manifest">> /\ dir["manifest"] # NoFile

ManifestsAreLast ==
  dir["manifest"].form = "whole" =>
    /\ dir["manifest"].by \in Writers
    /\ dir["manifest"].items = writer[dir["manifest"].by].items
    /\ dir["manifest"].items # {}
    /\ writer[dir["manifest"].by].at = "done"
    /\ writer[dir["manifest"].by].left = <<"manifest">>

\* Whoever left an entry half written is writing it, or failed or was killed.
Tears(q, e) ==
  /\ writer[q].left # <<>> /\ Head(writer[q].left) = e
  /\ \/ writer[q].at = "put"
     \/ writer[q].at = "done" /\ writer[q].code # 0

TornByOne == \A e \in Entries : dir[e].form = "torn" => \E q \in Writers : Tears(q, e)

TheirsIsAlone == dir["theirs"] # NoFile => \A e \in Entries \ {"theirs"} : dir[e] = NoFile

Migrating ==
  /\ \A p \in Writers : MigrateHolds(p) /\ BackupIsMade(p)
  /\ FilesAreNotTorn /\ WithoutSaves /\ BackupsAreOfWriters
  /\ \A c \in replaced : Secured(c)

Bundling ==
  /\ \A p \in Writers : BundleHolds(p)
  /\ ManifestsAreLast /\ TornByOne /\ TheirsIsAlone

FilesIInv ==
  /\ FilesType /\ EachDoesItsJob /\ \A p \in Writers : Coded(p)
  /\ job = "migrate" => Migrating
  /\ job = "bundle" => Bundling

-----------------------------------------------------------------------------
\* No name is no name of a backup.
LEMMA NoName == <<>> \notin Names
BY DEF Names

\* What is not there, what is half written and the canonical form differ.
LEMMA NoFileIsEmpty ==
  /\ NoFile \in Contents /\ Torn \in Contents /\ Canonical \in Contents
  /\ NoFile # Torn /\ NoFile.form = "none" /\ Torn.form = "torn" /\ NoFile.save = 0
BY DEF NoFile, Torn, Canonical, Content, Contents

\* The manifest and what others left are two entries.
LEMMA NamesAreApart == "manifest" # "theirs" /\ "manifest" \in Entries /\ "theirs" \in Entries
BY DEF Entries

\* Nothing of a bundle is there when the commands migrate.
LEMMA NoBundles ==
  ASSUME FilesType, EachDoesItsJob, job = "migrate"
  PROVE  Bundling
<1>1. dir["manifest"] = NoFile /\ dir["theirs"] = NoFile /\ \A e \in Entries : dir[e] = NoFile
  BY NamesAreApart DEF EachDoesItsJob, Directory
<1>2. ASSUME NEW p \in Writers PROVE BundleHolds(p)
  <2>1. writer[p].items = {} /\ writer[p].left = <<>> /\ writer[p].at \notin {"create", "put"}
    BY DEF EachDoesItsJob
  <2> QED BY <2>1, EmptySeq DEF BundleHolds
<1>3. ManifestsAreLast
  BY <1>1, NoFileIsEmpty DEF ManifestsAreLast
<1>4. TornByOne
  BY <1>1, NoFileIsEmpty DEF TornByOne
<1>5. TheirsIsAlone
  BY <1>1 DEF TheirsIsAlone
<1> QED BY <1>2, <1>3, <1>4, <1>5 DEF Bundling

\* And nothing of a migrate when they fill bundles.
LEMMA NoMigrates ==
  ASSUME FilesType, EachDoesItsJob, job = "bundle"
  PROVE  Migrating
<1>1. ASSUME NEW p \in Writers PROVE MigrateHolds(p) /\ BackupIsMade(p)
  <2>1. /\ writer[p].at \in {"begin", "create", "put", "done"}
        /\ writer[p].name = <<>> /\ writer[p].kept = NoFile
    BY DEF EachDoesItsJob
  <2> QED BY <2>1 DEF MigrateHolds, BackupIsMade
<1>2. \A path \in {"config", "out"} : files[path] = NoFile
  BY DEF EachDoesItsJob, NoFiles
<1>3. FilesAreNotTorn
  BY <1>2, NoFileIsEmpty DEF FilesAreNotTorn
<1>4. WithoutSaves
  <2>1. \A p \in Writers : writer[p].data = NoFile /\ writer[p].kept = NoFile
    BY DEF EachDoesItsJob
  <2>2. replaced = {}
    BY DEF EachDoesItsJob
  <2> QED BY <1>2, <2>1, <2>2, NoFileIsEmpty DEF WithoutSaves
<1>5. BackupsAreOfWriters
  BY DEF EachDoesItsJob, BackupsAreOfWriters
<1>6. \A c \in replaced : Secured(c)
  BY DEF EachDoesItsJob
<1> QED BY <1>1, <1>3, <1>4, <1>5, <1>6 DEF Migrating

\* There is always a name for a backup: there are more than commands.
LEMMA NamesAreFree ==
  ASSUME FilesType, BackupsAreOfWriters, NEW path \in {"config", "out"}, NEW now \in 0..MaxSeconds
  PROVE  FreeName(path, now) \in Names /\ backups[FreeName(path, now)] = NoFile
<1> DEFINE N == Cardinality(Writers)
           At0(n) == <<path, now, n>>
           free == {n \in 0..N : backups[At0(n)] = NoFile}
<1>1. IsFiniteSet(Writers) /\ N \in Nat
  BY FilesAssumption, FS_CardinalityType
<1>2. \A n \in 0..N : At0(n) \in Names
  BY DEF Names
<1>3. free # {}
  <2> SUFFICES ASSUME free = {} PROVE FALSE
    OBVIOUS
  <2>1. \A n \in 0..N : backups[At0(n)] # NoFile
    OBVIOUS
  <2>2. \A n \in 0..N : \E q \in Writers : writer[q].name = At0(n)
    BY <1>2, <2>1 DEF BackupsAreOfWriters
  <2> DEFINE f == [n \in 0..N |-> CHOOSE q \in Writers : writer[q].name = At0(n)]
  <2>3. ASSUME NEW n \in 0..N PROVE f[n] \in Writers /\ writer[f[n]].name = At0(n)
    BY <2>2
  <2>4. f \in [0..N -> Writers]
    BY <2>3
  <2>5. IsFiniteSet(0..N) /\ Cardinality(0..N) = N + 1
    BY <1>1, FS_Interval
  <2>6. N < Cardinality(0..N)
    BY <1>1, <2>5
  <2> HIDE DEF f
  <2>7. PICK x, y \in 0..N : x # y /\ f[x] = f[y]
    BY <1>1, <2>4, <2>5, <2>6, FS_PigeonHole
  <2>8. At0(x) = At0(y)
    BY <2>3, <2>7
  <2> QED BY <2>7, <2>8
<1>4. PICK least \in free : \A m \in free : least <= m
  <2>1. free \subseteq Nat
    BY <1>1
  <2> HIDE DEF free
  <2>2. \E y \in free : \A z \in free : ~ (<<z, y>> \in OpToRel(<, Nat))
    BY <1>3, <2>1, NatLessThanWellFounded, WFMin
  <2>3. PICK y \in free : \A z \in free : ~ (z < y)
    BY <2>1, <2>2 DEF OpToRel
  <2>4. \A z \in free : y <= z
    BY <2>1, <2>3
  <2> QED BY <2>4
<1>5. FreeName(path, now) = At0(CHOOSE n \in free : \A m \in free : n <= m)
  BY DEF FreeName
<1>6. (CHOOSE n \in free : \A m \in free : n <= m) \in free
  BY <1>4
<1> QED BY <1>2, <1>5, <1>6

-----------------------------------------------------------------------------
\* A command that takes a step changes its own state; its backup has its name,
\* and a name that it takes is free.
Steps(m) ==
  /\ job' = job /\ args' = args /\ saves' = saves
  /\ writer[m].at # "done"
  /\ \A q \in Writers \ {m} : writer'[q] = writer[q]
  /\ writer[m].name # <<>> => writer'[m].name = writer[m].name /\ writer'[m].kept = writer[m].kept
  /\ writer'[m].name # writer[m].name =>
       writer'[m].name \in Names /\ backups[writer'[m].name] = NoFile
  /\ \A n \in Names : backups'[n] # backups[n] =>
       n = writer[m].name /\ backups'[n] \in {Torn, writer[m].kept} /\ backups'[n] # NoFile

\* A command that moves changes its own state only.
LEMMA WriterMoves ==
  ASSUME FilesType, NEW p \in Writers, NEW r \in WriterForms, Goes(p, r)
  PROVE  /\ writer' \in [Writers -> WriterForms] /\ writer'[p] = r
         /\ \A q \in Writers \ {p} : writer'[q] = writer[q]
BY DEF FilesType, Goes

\* Where the name of a writer was taken it stays taken.
LEMMA NamesStay ==
  ASSUME FilesType, NEW m \in Writers, Steps(m), NEW q \in Writers, writer[q].name # <<>>
  PROVE  writer'[q].name = writer[q].name /\ writer'[q].kept = writer[q].kept
BY DEF Steps

\* A name that was taken is a name of a backup.
LEMMA NamesAreNames ==
  ASSUME FilesType, NEW p \in Writers, writer[p].name # <<>>
  PROVE  writer[p].name \in Names
<1>1. writer[p] \in WriterForms
  BY DEF FilesType
<1> QED BY <1>1 DEF WriterForms

\* A name that two commands took they both keep.
LEMMA SharedStays ==
  ASSUME FilesType, NEW m \in Writers, Steps(m), NEW p \in Writers, writer[p].name # <<>>, Shared(p)
  PROVE  Shared(p)'
<1>1. PICK q \in Writers \ {p} : writer[q].name = writer[p].name
  BY DEF Shared
<1>2. writer'[q].name = writer[q].name /\ writer'[p].name = writer[p].name
  BY <1>1, NamesStay
<1> QED BY <1>1, <1>2 DEF Shared

\* What is secured stays secured, whichever command takes a step.
LEMMA SecuredStays ==
  ASSUME FilesType, NEW m \in Writers, Steps(m), NEW c, Secured(c)
  PROVE  Secured(c)'
<1>1. PICK p \in Writers : Secures(p, c)
  BY DEF Secured
<1>2. p # m
  BY <1>1 DEF Secures, Steps
<1>3. writer'[p] = writer[p]
  BY <1>2 DEF Steps
<1> DEFINE n == writer[p].name
<1>4. n # <<>> /\ n \in Names /\ backups[n] # NoFile
  BY <1>1, NamesAreNames DEF Secures
<1>5. backups'[n] # backups[n] =>
        n = writer[m].name /\ backups'[n] \in {Torn, writer[m].kept} /\ backups'[n] # NoFile
  BY <1>4 DEF Steps
<1>6. backups'[n] # NoFile
  BY <1>4, <1>5
<1>7. backups'[n] = c \/ Shared(p)'
  <2>1. CASE backups'[n] = backups[n]
    BY <1>1, <1>4, <2>1, SharedStays DEF Secures
  <2>2. CASE backups'[n] # backups[n]
    <3>1. Shared(p)
      BY <1>2, <1>5, <2>2 DEF Shared
    <3> QED BY <1>4, <3>1, SharedStays
  <2> QED BY <2>1, <2>2
<1>8. ASSUME saves' = 0, c # Canonical
      PROVE  /\ backups'[n] \in {c, Torn}
             /\ \A q \in Writers : writer'[q].name = n => writer'[q].kept = c
  <2>1. saves = 0
    BY <1>8 DEF Steps
  <2>2. /\ backups[n] \in {c, Torn}
        /\ \A q \in Writers : writer[q].name = n => writer[q].kept = c
    BY <1>1, <1>8, <2>1 DEF Secures
  <2>3. backups'[n] \in {c, Torn}
    BY <1>5, <2>2
  <2>4. ASSUME NEW q \in Writers, writer'[q].name = n
        PROVE  writer'[q].kept = c
    <3>1. CASE q # m
      BY <2>2, <2>4, <3>1 DEF Steps
    <3>2. CASE q = m
      <4>1. writer[m].name = n
        BY <1>4, <2>4, <3>2 DEF Steps
      <4> QED BY <1>4, <2>2, <3>2, <4>1, NamesStay
    <3> QED BY <3>1, <3>2
  <2> QED BY <2>3, <2>4
<1> HIDE DEF n
<1>9. writer'[p].at = "done" /\ writer'[p].name # <<>> /\ writer'[p].kept = c /\ writer'[p].name = n
  BY <1>1, <1>3 DEF Secures, n
<1>10. Secures(p, c)'
  BY <1>6, <1>7, <1>8, <1>9 DEF Secures
<1> QED BY <1>10 DEF Secured

\* A backup is still one of a command that has its name.
LEMMA BackupsStay ==
  ASSUME FilesType, BackupsAreOfWriters, NEW m \in Writers, Steps(m)
  PROVE  BackupsAreOfWriters'
<1> SUFFICES ASSUME NEW n \in Names, backups'[n] # NoFile
             PROVE  \E q \in Writers : writer'[q].name = n /\ backups'[n] \in {Torn, writer'[q].kept}
  BY DEF BackupsAreOfWriters, Names
<1>1. n # <<>>
  BY NoName
<1>2. CASE backups'[n] = backups[n]
  <2>1. PICK q \in Writers : writer[q].name = n /\ backups[n] \in {Torn, writer[q].kept}
    BY <1>2 DEF BackupsAreOfWriters
  <2>2. writer'[q].name = n /\ writer'[q].kept = writer[q].kept
    BY <1>1, <2>1, NamesStay
  <2> QED BY <1>2, <2>1, <2>2
<1>3. CASE backups'[n] # backups[n]
  <2>1. n = writer[m].name /\ backups'[n] \in {Torn, writer[m].kept}
    BY <1>3 DEF Steps
  <2>2. writer'[m].name = n /\ writer'[m].kept = writer[m].kept
    BY <1>1, <2>1, NamesStay
  <2> QED BY <2>1, <2>2
<1> QED BY <1>2, <1>3

\* What the others hold.
LEMMA OthersHold ==
  ASSUME FilesType, NEW m \in Writers, Steps(m), NEW q \in Writers \ {m},
         \A path \in {"config", "out"} : files[path] # NoFile => files'[path] # NoFile,
         MigrateHolds(q), BackupIsMade(q)
  PROVE  MigrateHolds(q)' /\ BackupIsMade(q)'
<1>1. writer'[q] = writer[q] /\ args' = args
  BY DEF Steps
<1>2. Target(q)' = Target(q) /\ Target(q) \in {"config", "out"}
  BY <1>1 DEF Target
<1> DEFINE w == writer[q]
           n == writer[q].name
<1>3. n # <<>> => n \in Names
  BY NamesAreNames
<1>4. n # <<>> /\ backups[n] # NoFile => backups'[n] # NoFile
  BY <1>3 DEF Steps
<1>5. files[Target(q)] # NoFile => files'[Target(q)] # NoFile
  BY <1>2
<1>6. /\ w.at \in {"look", "copy", "name", "open", "fill", "write"} =>
           w.data.form = "array" /\ args[q].write
      /\ w.at = "copy" => files[Target(q)] # NoFile
      /\ w.at \in {"begin", "look", "copy"} => w.kept = NoFile
      /\ w.at \in {"begin", "look", "copy", "name"} => w.name = <<>>
      /\ w.at \in {"name", "open", "fill"} => w.kept # NoFile
      /\ w.at \in {"open", "fill"} => w.name # <<>>
      /\ w.at = "write" => w.name # <<>> \/ w.kept = NoFile
      /\ w.name # <<>> => w.name[1] = Target(q) /\ w.kept # NoFile
      /\ w.at \in {"fill", "write"} /\ w.name # <<>> => backups[w.name] # NoFile
  BY DEF MigrateHolds
<1>7. /\ w.at = "copy" => files'[Target(q)] # NoFile
      /\ w.at \in {"fill", "write"} /\ w.name # <<>> => backups'[w.name] # NoFile
  BY <1>4, <1>5, <1>6
<1>8. MigrateHolds(q)'
  BY <1>1, <1>2, <1>6, <1>7 DEF MigrateHolds
<1>9. BackupIsMade(q)'
  <2> SUFFICES ASSUME w.at = "write", n # <<>> PROVE backups'[n] = w.kept \/ Shared(q)'
    BY <1>1 DEF BackupIsMade
  <2>1. CASE Shared(q)
    BY <2>1, SharedStays
  <2>2. CASE ~ Shared(q)
    <3>1. backups[n] = w.kept
      BY <2>2 DEF BackupIsMade
    <3>2. n # writer[m].name
      BY <2>2 DEF Shared
    <3> QED BY <1>3, <3>1, <3>2 DEF Steps
  <2> QED BY <2>1, <2>2
<1> QED BY <1>8, <1>9

\* What has to be shown of a step of a migrate.
LEMMA MigrateStep ==
  ASSUME FilesIInv, job = "migrate", NEW m \in Writers, Steps(m), FilesType', dir' = dir,
         writer'[m].at \notin {"create", "put"}, writer'[m].items = {}, writer'[m].left = <<>>,
         Coded(m)', MigrateHolds(m)', BackupIsMade(m)', FilesAreNotTorn', WithoutSaves',
         \A path \in {"config", "out"} :
           /\ files[path] # NoFile => files'[path] # NoFile
           /\ files[path].form = "array" => files'[path].form = "array",
         \A c \in replaced' : c \in replaced \/ Secured(c)'
  PROVE  FilesIInv'
<1>1. EachDoesItsJob'
  <2>1. job' = "migrate" /\ \A q \in Writers \ {m} : writer'[q] = writer[q]
    BY DEF Steps
  <2>2. /\ dir = Directory(NoFile)
        /\ \A p \in Writers : /\ writer[p].at \notin {"create", "put"}
                              /\ writer[p].items = {} /\ writer[p].left = <<>>
    BY DEF FilesIInv, EachDoesItsJob
  <2>3. dir' = Directory(NoFile)'
    BY <2>2 DEF Directory, NoFile
  <2>4. \A p \in Writers : /\ writer'[p].at \notin {"create", "put"}
                           /\ writer'[p].items = {} /\ writer'[p].left = <<>>
    BY <2>1, <2>2
  <2> QED BY <2>1, <2>3, <2>4 DEF EachDoesItsJob
<1>2. ASSUME NEW q \in Writers PROVE Coded(q)'
  <2>1. CASE q = m
    BY <2>1
  <2>2. CASE q # m
    <3>1. writer'[q] = writer[q] /\ args' = args /\ job' = job /\ saves' = saves
      BY <2>2 DEF Steps
    <3>2. Target(q)' = Target(q) /\ Target(q) \in {"config", "out"}
      BY <3>1 DEF Target
    <3>3. Coded(q)
      BY DEF FilesIInv
    <3>4. files[Target(q)].form = "array" => files'[Target(q)].form = "array"
      BY <3>2
    <3> QED BY <3>1, <3>2, <3>3, <3>4 DEF Coded
  <2> QED BY <2>1, <2>2
<1>3. FilesType /\ BackupsAreOfWriters /\ \A q \in Writers : MigrateHolds(q) /\ BackupIsMade(q)
  BY DEF FilesIInv, Migrating
<1>4. \A q \in Writers : MigrateHolds(q)' /\ BackupIsMade(q)'
  <2> SUFFICES ASSUME NEW q \in Writers PROVE MigrateHolds(q)' /\ BackupIsMade(q)'
    OBVIOUS
  <2>1. CASE q = m
    BY <2>1
  <2>2. CASE q # m
    BY <1>3, <2>2, OthersHold
  <2> QED BY <2>1, <2>2
<1>5. BackupsAreOfWriters'
  BY <1>3, BackupsStay
<1>6. \A c \in replaced' : Secured(c)'
  <2> SUFFICES ASSUME NEW c \in replaced' PROVE Secured(c)'
    OBVIOUS
  <2>1. CASE c \in replaced
    <3>1. Secured(c)
      BY <2>1 DEF FilesIInv, Migrating
    <3> QED BY <1>3, <3>1, SecuredStays
  <2> QED BY <2>1
<1>7. Migrating'
  BY <1>4, <1>5, <1>6 DEF Migrating
<1>8. job' = "migrate"
  BY DEF Steps
<1> QED BY <1>1, <1>2, <1>7, <1>8 DEF FilesIInv

-----------------------------------------------------------------------------
\* Steps of a migrate that touch no file.
LEMMA QuietStep ==
  ASSUME FilesIInv, job = "migrate", NEW m \in Writers,
         UNCHANGED <<job, args, files, backups, dir, replaced, second, saves>>,
         NEW r \in WriterForms, Goes(m, r), writer[m].at # "done",
         r.at \notin {"create", "put"}, r.items = {}, r.left = <<>>,
         writer[m].name # <<>> => r.name = writer[m].name /\ r.kept = writer[m].kept,
         r.name # writer[m].name => r.name \in Names /\ backups[r.name] = NoFile,
         saves = 0 => r.data.save = 0,
         r.kept \in {NoFile, writer[m].kept, files[Target(m)]},
         Coded(m)', MigrateHolds(m)', BackupIsMade(m)'
  PROVE  FilesIInv'
<1>1. FilesType /\ Migrating
  BY DEF FilesIInv
<1>2. /\ writer' \in [Writers -> WriterForms] /\ writer'[m] = r
      /\ \A q \in Writers \ {m} : writer'[q] = writer[q]
  BY <1>1, WriterMoves
<1>3. Steps(m)
  BY <1>2 DEF Steps
<1>4. FilesType'
  BY <1>1, <1>2 DEF FilesType, WriterForms, Bundles, Contents, Names, Entries, Content, NoFile, Torn
<1>5. FilesAreNotTorn'
  BY <1>1 DEF Migrating, FilesAreNotTorn
<1>6. WithoutSaves'
  <2> SUFFICES ASSUME saves = 0 PROVE WithoutSaves'
    BY DEF WithoutSaves
  <2>1. /\ \A path \in {"config", "out"} : files[path].save = 0
        /\ \A p \in Writers : writer[p].data.save = 0
        /\ \A p \in Writers : files[Target(p)] # Canonical /\ writer[p].kept # NoFile =>
                                writer[p].kept = files[Target(p)]
        /\ Canonical \in replaced => \E path \in {"config", "out"} : files[path] = Canonical
    BY <1>1 DEF Migrating, WithoutSaves
  <2>2. \A p \in Writers : Target(p)' = Target(p)
    BY DEF Target
  <2>3. Canonical' = Canonical /\ NoFile' = NoFile
    BY DEF Canonical, NoFile, Content
  <2>4. ASSUME NEW p \in Writers
        PROVE  /\ writer'[p].data.save = 0
               /\ files[Target(p)] # Canonical /\ writer'[p].kept # NoFile =>
                    writer'[p].kept = files[Target(p)]
    <3>1. CASE p = m
      BY <1>2, <2>1, <3>1
    <3>2. CASE p # m
      BY <1>2, <2>1, <3>2
    <3> QED BY <3>1, <3>2
  <2> QED BY <2>1, <2>2, <2>3, <2>4 DEF WithoutSaves
<1> QED BY <1>2, <1>3, <1>4, <1>5, <1>6, MigrateStep

\* What a writer is that ends.
LEMMA WriterEnds ==
  ASSUME NEW w \in WriterForms, NEW c \in {-1, 0, 1}
  PROVE  LET r == [w EXCEPT !.at = "done", !.code = c]
         IN /\ r \in WriterForms /\ r.at = "done" /\ r.code = c
            /\ r.name = w.name /\ r.kept = w.kept /\ r.data = w.data /\ r.items = w.items
            /\ r.left = w.left
BY DEF WriterForms

\* A migrate that ends without having written leaves all files alone.
LEMMA MigrateEnds ==
  ASSUME FilesIInv, job = "migrate", NEW p \in Writers, NEW c \in {-1, 0, 1},
         writer[p].at # "done", Ends(p, c), c = 0 => ~ args[p].write,
         UNCHANGED <<job, args, files, backups, dir, replaced, second, saves>>
  PROVE  FilesIInv'
<1> DEFINE w == writer[p]
           r == [w EXCEPT !.at = "done", !.code = c]
<1>1. FilesType /\ MigrateHolds(p) /\ WithoutSaves
  BY DEF FilesIInv, Migrating
<1>2. w \in WriterForms
  BY <1>1 DEF FilesType
<1>3. /\ r \in WriterForms /\ r.at = "done" /\ r.code = c
      /\ r.name = w.name /\ r.kept = w.kept /\ r.data = w.data /\ r.items = w.items
      /\ r.left = w.left
  BY <1>2, WriterEnds
<1>4. Goes(p, r)
  BY DEF Ends
<1>5. w.items = {} /\ w.left = <<>>
  BY DEF FilesIInv, EachDoesItsJob
<1>6. w.name # <<>> => w.name[1] = Target(p) /\ w.kept # NoFile
  BY <1>1 DEF MigrateHolds
<1>7. saves = 0 => r.data.save = 0
  BY <1>1, <1>3 DEF WithoutSaves
<1> HIDE DEF r
<1>8. writer'[p] = r
  BY <1>1, <1>3, <1>4, WriterMoves
<1>9. Target(p)' = Target(p)
  BY DEF Target
<1>10. Coded(p)'
  BY <1>3, <1>8 DEF Coded
<1>11. MigrateHolds(p)'
  BY <1>3, <1>6, <1>8, <1>9 DEF MigrateHolds
<1>12. BackupIsMade(p)'
  BY <1>3, <1>8 DEF BackupIsMade
<1> QED BY <1>3, <1>4, <1>5, <1>7, <1>10, <1>11, <1>12, QuietStep

\* Reading classifies, and a dry run or a bad file ends here.
LEMMA ReadKeeps ==
  ASSUME FilesIInv, job = "migrate", NEW p \in Writers, Read(p),
         UNCHANGED <<job, args, dir, second, saves>>
  PROVE  FilesIInv'
<1> DEFINE w == writer[p]
           found == files["config"]
           r == [w EXCEPT !.at = "look", !.data = Content("array", found.save)]
<1>1. FilesType /\ MigrateHolds(p) /\ WithoutSaves /\ w \in WriterForms /\ Coded(p)
  BY DEF FilesIInv, Migrating, FilesType
<1>2. w.at = "begin" /\ UNCHANGED <<job, args, files, backups, dir, replaced, second, saves>>
  BY DEF Read
<1>3. CASE Ends(p, 1)
  BY <1>2, <1>3, MigrateEnds
<1>4. CASE ~ args[p].write /\ Ends(p, 0)
  BY <1>2, <1>4, MigrateEnds
<1>5. CASE args[p].write /\ Goes(p, r)
  <2>1. Content("array", found.save) \in Contents /\ Content("array", found.save).form = "array"
        /\ Content("array", found.save).save = found.save
    <3>1. found \in Contents
      BY <1>1 DEF FilesType
    <3> QED BY <3>1 DEF Contents, Content
  <2>2. /\ r \in WriterForms /\ r.at = "look" /\ r.data = Content("array", found.save)
        /\ r.code = w.code /\ r.name = w.name /\ r.kept = w.kept /\ r.items = w.items
        /\ r.left = w.left
    BY <1>1, <2>1 DEF WriterForms
  <2>3. w.items = {} /\ w.left = <<>>
    BY DEF FilesIInv, EachDoesItsJob
  <2>4. w.name = <<>> /\ w.kept = NoFile
    BY <1>1, <1>2 DEF MigrateHolds
  <2>5. saves = 0 => r.data.save = 0
    BY <1>1, <2>1, <2>2 DEF WithoutSaves
  <2> HIDE DEF r
  <2>6. writer'[p] = r
    BY <1>1, <1>5, <2>2, WriterMoves
  <2>7. Coded(p)'
    BY <1>1, <1>2, <2>2, <2>6 DEF Coded
  <2>8. MigrateHolds(p)'
    BY <1>2, <1>5, <2>1, <2>2, <2>4, <2>6 DEF MigrateHolds, NoFile
  <2>9. BackupIsMade(p)'
    BY <2>2, <2>6 DEF BackupIsMade
  <2> QED BY <1>2, <1>5, <2>2, <2>3, <2>4, <2>5, <2>7, <2>8, <2>9, QuietStep
<1> QED BY <1>3, <1>4, <1>5 DEF Read

\* Only a target that is there will be copied.
LEMMA LookKeeps ==
  ASSUME FilesIInv, job = "migrate", NEW p \in Writers, Look(p),
         UNCHANGED <<job, args, dir, second, saves>>
  PROVE  FilesIInv'
<1> DEFINE w == writer[p]
           next == IF files[Target(p)] = NoFile THEN "write" ELSE "copy"
           r == [w EXCEPT !.at = next]
<1>1. FilesType /\ MigrateHolds(p) /\ WithoutSaves /\ w \in WriterForms /\ Coded(p)
  BY DEF FilesIInv, Migrating, FilesType
<1>2. w.at = "look" /\ UNCHANGED <<job, args, files, backups, dir, replaced, second, saves>>
  BY DEF Look
<1>3. next \in {"write", "copy"} /\ (next = "copy" => files[Target(p)] # NoFile)
  OBVIOUS
<1>4. Goes(p, r)
  BY DEF Look, At
<1> HIDE DEF next
<1>5. /\ r \in WriterForms /\ r.at = next /\ r.data = w.data
      /\ r.code = w.code /\ r.name = w.name /\ r.kept = w.kept /\ r.items = w.items
      /\ r.left = w.left
  BY <1>1, <1>3 DEF WriterForms
<1>6. w.items = {} /\ w.left = <<>>
  BY DEF FilesIInv, EachDoesItsJob
<1>7. w.name = <<>> /\ w.kept = NoFile /\ w.data.form = "array" /\ args[p].write
  BY <1>1, <1>2 DEF MigrateHolds
<1>8. saves = 0 => r.data.save = 0
  BY <1>1, <1>5 DEF WithoutSaves
<1> HIDE DEF r
<1>9. writer'[p] = r
  BY <1>1, <1>4, <1>5, WriterMoves
<1>10. Coded(p)'
  BY <1>1, <1>2, <1>3, <1>5, <1>9 DEF Coded
<1>11. Target(p)' = Target(p) /\ NoFile' = NoFile
  BY <1>2 DEF Target, NoFile
<1>12. MigrateHolds(p)'
  BY <1>2, <1>3, <1>5, <1>7, <1>9, <1>11 DEF MigrateHolds
<1>13. BackupIsMade(p)'
  BY <1>5, <1>7, <1>9 DEF BackupIsMade
<1> QED BY <1>2, <1>3, <1>4, <1>5, <1>6, <1>7, <1>8, <1>10, <1>12, <1>13, QuietStep

\* The copy is what the target holds now.
LEMMA CopyKeeps ==
  ASSUME FilesIInv, job = "migrate", NEW p \in Writers, Copy(p),
         UNCHANGED <<job, args, dir, second, saves>>
  PROVE  FilesIInv'
<1> DEFINE w == writer[p]
           r == [w EXCEPT !.at = "name", !.kept = files[Target(p)], !.now = second]
<1>1. FilesType /\ MigrateHolds(p) /\ WithoutSaves /\ w \in WriterForms /\ Coded(p)
  BY DEF FilesIInv, Migrating, FilesType
<1>2. w.at = "copy" /\ UNCHANGED <<job, args, files, backups, dir, replaced, second, saves>>
  BY DEF Copy
<1>3. CASE Ends(p, 1)
  BY <1>2, <1>3, MigrateEnds
<1>4. CASE Goes(p, r)
  <2>1. files[Target(p)] \in Contents /\ second \in 0..MaxSeconds
    BY <1>1 DEF FilesType, Target
  <2>2. /\ r \in WriterForms /\ r.at = "name" /\ r.data = w.data /\ r.kept = files[Target(p)]
        /\ r.code = w.code /\ r.name = w.name /\ r.items = w.items /\ r.left = w.left
    BY <1>1, <2>1 DEF WriterForms
  <2>3. w.items = {} /\ w.left = <<>>
    BY DEF FilesIInv, EachDoesItsJob
  <2>4. w.name = <<>> /\ w.data.form = "array" /\ args[p].write /\ files[Target(p)] # NoFile
    BY <1>1, <1>2 DEF MigrateHolds
  <2>5. saves = 0 => r.data.save = 0
    BY <1>1, <2>2 DEF WithoutSaves
  <2> HIDE DEF r
  <2>6. writer'[p] = r
    BY <1>1, <1>4, <2>2, WriterMoves
  <2>7. Coded(p)'
    BY <1>1, <1>2, <2>2, <2>6 DEF Coded
  <2>8. Target(p)' = Target(p) /\ NoFile' = NoFile
    BY <1>2 DEF Target, NoFile
  <2>9. MigrateHolds(p)'
    BY <1>2, <2>2, <2>4, <2>6, <2>8 DEF MigrateHolds
  <2>10. BackupIsMade(p)'
    BY <2>2, <2>6 DEF BackupIsMade
  <2> QED BY <1>2, <1>4, <2>2, <2>3, <2>4, <2>5, <2>7, <2>9, <2>10, QuietStep
<1> QED BY <1>3, <1>4 DEF Copy

\* The name that is taken was free.
LEMMA NameKeeps ==
  ASSUME FilesIInv, job = "migrate", NEW p \in Writers, Name(p),
         UNCHANGED <<job, args, dir, second, saves>>
  PROVE  FilesIInv'
<1> DEFINE w == writer[p]
           name == FreeName(Target(p), w.now)
           r == [w EXCEPT !.at = "open", !.name = name]
<1>1. FilesType /\ MigrateHolds(p) /\ WithoutSaves /\ w \in WriterForms /\ Coded(p)
      /\ BackupsAreOfWriters
  BY DEF FilesIInv, Migrating, FilesType
<1>2. w.at = "name" /\ UNCHANGED <<job, args, files, backups, dir, replaced, second, saves>>
  BY DEF Name
<1>3. Target(p) \in {"config", "out"} /\ w.now \in 0..MaxSeconds
  BY <1>1 DEF Target, WriterForms
<1>4. name \in Names /\ backups[name] = NoFile
  BY <1>1, <1>3, NamesAreFree
<1>5. name[1] = Target(p)
  BY DEF FreeName
<1>6. Goes(p, r)
  BY DEF Name
<1> HIDE DEF name
<1>7. /\ r \in WriterForms /\ r.at = "open" /\ r.data = w.data /\ r.kept = w.kept
      /\ r.code = w.code /\ r.name = name /\ r.items = w.items /\ r.left = w.left
  BY <1>1, <1>4 DEF WriterForms
<1>8. w.items = {} /\ w.left = <<>>
  BY DEF FilesIInv, EachDoesItsJob
<1>9. w.name = <<>> /\ w.kept # NoFile /\ w.data.form = "array" /\ args[p].write
  BY <1>1, <1>2 DEF MigrateHolds
<1>10. saves = 0 => r.data.save = 0
  BY <1>1, <1>7 DEF WithoutSaves
<1> HIDE DEF r
<1>11. writer'[p] = r
  BY <1>1, <1>6, <1>7, WriterMoves
<1>12. Coded(p)'
  BY <1>1, <1>2, <1>7, <1>11 DEF Coded
<1>13. Target(p)' = Target(p) /\ NoFile' = NoFile /\ name # <<>>
  BY <1>2, <1>4, NoName DEF Target, NoFile
<1>14. MigrateHolds(p)'
  BY <1>2, <1>5, <1>7, <1>9, <1>11, <1>13 DEF MigrateHolds
<1>15. BackupIsMade(p)'
  BY <1>7, <1>11 DEF BackupIsMade
<1> QED BY <1>2, <1>4, <1>6, <1>7, <1>8, <1>9, <1>10, <1>12, <1>14, <1>15, QuietStep

-----------------------------------------------------------------------------
\* The two steps in which a backup is written.
LEMMA BackupKeeps ==
  ASSUME FilesIInv, job = "migrate", NEW p \in Writers,
         NEW next \in {"fill", "write"}, NEW content \in {Torn, writer[p].kept},
         writer[p].at = IF next = "fill" THEN "open" ELSE "fill",
         next = "write" => content = writer[p].kept,
         Backup(p, next, content),
         UNCHANGED <<job, args, files, dir, replaced, second, saves>>
  PROVE  FilesIInv'
<1> DEFINE w == writer[p]
           n == w.name
           r == [w EXCEPT !.at = next]
<1>1. FilesType /\ MigrateHolds(p) /\ WithoutSaves /\ w \in WriterForms /\ Coded(p)
      /\ FilesAreNotTorn
  BY DEF FilesIInv, Migrating, FilesType
<1>2. w.at \in {"open", "fill"}
  OBVIOUS
<1>3. CASE Ends(p, 1) /\ UNCHANGED backups
  BY <1>2, <1>3, MigrateEnds
<1>4. CASE At(p, next) /\ backups' = [backups EXCEPT ![n] = content]
  <2>1. /\ r \in WriterForms /\ r.at = next /\ r.data = w.data /\ r.kept = w.kept
        /\ r.code = w.code /\ r.name = n /\ r.items = w.items /\ r.left = w.left
    BY <1>1 DEF WriterForms
  <2>2. w.items = {} /\ w.left = <<>>
    BY DEF FilesIInv, EachDoesItsJob
  <2>3. /\ n # <<>> /\ n \in Names /\ n[1] = Target(p)
        /\ w.kept # NoFile /\ w.data.form = "array" /\ args[p].write
    BY <1>1, <1>2, NamesAreNames DEF MigrateHolds
  <2>4. content # NoFile /\ content \in Contents
    BY <1>1, <2>3, NoFileIsEmpty DEF WriterForms
  <2>5. Goes(p, r)
    BY <1>4 DEF At
  <2> HIDE DEF r
  <2>6. /\ writer' \in [Writers -> WriterForms] /\ writer'[p] = r
        /\ \A q \in Writers \ {p} : writer'[q] = writer[q]
    BY <1>1, <2>1, <2>5, WriterMoves
  <2>7. backups' \in [Names -> Contents] /\ backups'[n] = content
        /\ \A m \in Names : m # n => backups'[m] = backups[m]
    BY <1>1, <1>4, <2>3, <2>4 DEF FilesType
  <2>8. Steps(p)
    BY <1>2, <2>1, <2>4, <2>6, <2>7 DEF Steps
  <2>9. FilesType'
    BY <1>1, <2>6, <2>7 DEF FilesType, WriterForms, Bundles, Contents, Names, Entries,
                             Content, NoFile, Torn
  <2>10. Coded(p)'
    BY <1>1, <1>2, <2>1, <2>6 DEF Coded
  <2>11. Target(p)' = Target(p) /\ NoFile' = NoFile
    BY DEF Target, NoFile
  <2>12. MigrateHolds(p)'
    BY <2>1, <2>3, <2>4, <2>6, <2>7, <2>11 DEF MigrateHolds
  <2>13. BackupIsMade(p)'
    BY <2>1, <2>6, <2>7 DEF BackupIsMade
  <2>14. FilesAreNotTorn'
    BY <1>1 DEF FilesAreNotTorn
  <2>15. WithoutSaves'
    <3> SUFFICES ASSUME saves = 0 PROVE WithoutSaves'
      BY DEF WithoutSaves
    <3>1. /\ \A path \in {"config", "out"} : files[path].save = 0
          /\ \A q \in Writers : writer[q].data.save = 0
          /\ \A q \in Writers : files[Target(q)] # Canonical /\ writer[q].kept # NoFile =>
                                  writer[q].kept = files[Target(q)]
          /\ Canonical \in replaced => \E path \in {"config", "out"} : files[path] = Canonical
      BY <1>1 DEF WithoutSaves
    <3>2. \A q \in Writers : writer'[q].data = writer[q].data /\ writer'[q].kept = writer[q].kept
                             /\ Target(q)' = Target(q)
      BY <2>1, <2>6 DEF Target
    <3>3. Canonical' = Canonical /\ NoFile' = NoFile
      BY DEF Canonical, NoFile, Content
    <3> QED BY <3>1, <3>2, <3>3 DEF WithoutSaves
  <2>16. writer'[p].at \notin {"create", "put"} /\ writer'[p].items = {} /\ writer'[p].left = <<>>
    BY <2>1, <2>2, <2>6
  <2> QED BY <2>8, <2>9, <2>10, <2>12, <2>13, <2>14, <2>15, <2>16, MigrateStep
<1> QED BY <1>3, <1>4 DEF Backup

\* A backup is truncated first.
LEMMA OpenKeeps ==
  ASSUME FilesIInv, job = "migrate", NEW p \in Writers, Open(p),
         UNCHANGED <<job, args, dir, second, saves>>
  PROVE  FilesIInv'
BY BackupKeeps DEF Open

\* Then it has the copy.
LEMMA FillKeeps ==
  ASSUME FilesIInv, job = "migrate", NEW p \in Writers, Fill(p),
         UNCHANGED <<job, args, dir, second, saves>>
  PROVE  FilesIInv'
BY BackupKeeps DEF Fill

\* Without saves what a migrate writes is the canonical form.
LEMMA CanonicalContent ==
  ASSUME NEW c \in Contents, c.form = "array", c.save = 0
  PROVE  c = Canonical
BY DEF Contents, Canonical, Content

\* What is replaced now has its backup, and each other copy of it by that name.
LEMMA WriteKeeps ==
  ASSUME FilesIInv, job = "migrate", NEW p \in Writers, Write(p),
         UNCHANGED <<job, args, dir, second, saves>>
  PROVE  FilesIInv'
<1> DEFINE w == writer[p]
           n == w.name
           t == Target(p)
           r == [w EXCEPT !.at = "done", !.code = 0]
<1>1. FilesType /\ MigrateHolds(p) /\ WithoutSaves /\ w \in WriterForms
      /\ FilesAreNotTorn /\ BackupsAreOfWriters /\ BackupIsMade(p)
      /\ \A q \in Writers : MigrateHolds(q)
  BY DEF FilesIInv, Migrating, FilesType
<1>2. w.at = "write" /\ UNCHANGED backups
  BY DEF Write
<1>3. CASE Ends(p, 1) /\ UNCHANGED <<files, replaced>>
  BY <1>2, <1>3, MigrateEnds
<1>4. CASE /\ files' = [files EXCEPT ![t] = w.data]
           /\ replaced' = replaced \union (({files[t]} \intersect {w.kept}) \ {NoFile})
           /\ Ends(p, 0)
  <2>1. /\ r \in WriterForms /\ r.at = "done" /\ r.code = 0
        /\ r.name = n /\ r.kept = w.kept /\ r.data = w.data /\ r.items = w.items
        /\ r.left = w.left
    BY <1>1, WriterEnds
  <2>2. w.items = {} /\ w.left = <<>>
    BY DEF FilesIInv, EachDoesItsJob
  <2>3. w.data.form = "array" /\ w.data \in Contents /\ t \in {"config", "out"}
    BY <1>1, <1>2 DEF MigrateHolds, WriterForms, Target
  <2>4. n # <<>> => n \in Names /\ n[1] = t /\ w.kept # NoFile /\ backups[n] # NoFile
    BY <1>1, <1>2, NamesAreNames DEF MigrateHolds
  <2>5. Goes(p, r)
    BY <1>4 DEF Ends
  <2> HIDE DEF r
  <2>6. /\ writer' \in [Writers -> WriterForms] /\ writer'[p] = r
        /\ \A q \in Writers \ {p} : writer'[q] = writer[q]
    BY <1>1, <2>1, <2>5, WriterMoves
  <2>7. files' \in [{"config", "out"} -> Contents] /\ files'[t] = w.data
        /\ \A path \in {"config", "out"} : path # t => files'[path] = files[path]
    BY <1>1, <1>4, <2>3 DEF FilesType
  <2>8. Steps(p)
    BY <1>2, <2>1, <2>6 DEF Steps
  <2>9. FilesType'
    BY <1>1, <1>2, <2>6, <2>7 DEF FilesType, WriterForms, Bundles, Contents, Names, Entries,
                             Content, NoFile, Torn
  <2>10. t' = t /\ NoFile' = NoFile /\ \A q \in Writers : Target(q)' = Target(q)
    BY DEF Target, NoFile
  <2>11. Coded(p)'
    BY <2>1, <2>3, <2>6, <2>7, <2>10 DEF Coded
  <2>12. MigrateHolds(p)'
    BY <2>1, <2>4, <2>6, <2>10 DEF MigrateHolds
  <2>13. BackupIsMade(p)'
    BY <2>1, <2>6 DEF BackupIsMade
  <2>14. FilesAreNotTorn'
    BY <1>1, <2>3, <2>7 DEF FilesAreNotTorn
  <2>15. WithoutSaves'
    <3> SUFFICES ASSUME saves = 0 PROVE WithoutSaves'
      BY DEF WithoutSaves
    <3>1. /\ \A path \in {"config", "out"} : files[path].save = 0
          /\ \A q \in Writers : writer[q].data.save = 0
          /\ \A q \in Writers : files[Target(q)] # Canonical /\ writer[q].kept # NoFile =>
                                  writer[q].kept = files[Target(q)]
      BY <1>1 DEF WithoutSaves
    <3>2. w.data = Canonical
      BY <2>3, <3>1, CanonicalContent
    <3>3. \A q \in Writers : writer'[q].data = writer[q].data /\ writer'[q].kept = writer[q].kept
      BY <2>1, <2>6
    <3>4. Canonical' = Canonical
      BY DEF Canonical, Content
    <3>5. \A path \in {"config", "out"} : files'[path].save = 0
      BY <2>7, <3>1
    <3>6. files'[t] = Canonical
      BY <2>7, <3>2
    <3>7. ASSUME NEW q \in Writers, files'[Target(q)] # Canonical, writer[q].kept # NoFile
          PROVE  writer[q].kept = files'[Target(q)]
      <4>1. Target(q) # t /\ Target(q) \in {"config", "out"}
        BY <3>6, <3>7 DEF Target
      <4>2. files'[Target(q)] = files[Target(q)]
        BY <2>7, <4>1
      <4> QED BY <3>1, <3>7, <4>2
    <3> QED BY <2>3, <2>10, <3>1, <3>3, <3>4, <3>5, <3>6, <3>7 DEF WithoutSaves
  <2>16. writer'[p].at \notin {"create", "put"} /\ writer'[p].items = {} /\ writer'[p].left = <<>>
    BY <2>1, <2>2, <2>6
  <2>17. ASSUME NEW path \in {"config", "out"}
         PROVE  /\ files[path] # NoFile => files'[path] # NoFile
                /\ files[path].form = "array" => files'[path].form = "array"
    BY <2>3, <2>7, NoFileIsEmpty
  <2>18. ASSUME NEW c \in replaced', c \notin replaced
         PROVE  Secured(c)'
    <3>1. c = files[t] /\ c = w.kept /\ c # NoFile
      BY <1>4, <2>18
    <3>2. n # <<>> /\ n \in Names /\ backups[n] # NoFile
      BY <1>1, <1>2, <2>4, <3>1 DEF MigrateHolds
    <3>3. backups[n] = c \/ Shared(p)'
      BY <1>1, <1>2, <2>8, <3>1, <3>2, SharedStays DEF BackupIsMade
    <3>4. ASSUME saves = 0, c # Canonical
          PROVE  /\ backups[n] \in {c, Torn}
                 /\ \A q \in Writers : writer'[q].name = n => writer'[q].kept = c
      <4>1. \A q \in Writers : files[Target(q)] # Canonical /\ writer[q].kept # NoFile =>
                                 writer[q].kept = files[Target(q)]
        BY <1>1, <3>4 DEF WithoutSaves
      <4>2. ASSUME NEW q \in Writers, writer[q].name = n PROVE writer[q].kept = c
        <5>1. MigrateHolds(q)
          BY <1>1
        <5>2. Target(q) = n[1] /\ writer[q].kept # NoFile
          BY <3>2, <4>2, <5>1 DEF MigrateHolds
        <5> QED BY <2>4, <3>1, <3>2, <3>4, <4>1, <5>2
      <4>3. \E q \in Writers : writer[q].name = n /\ backups[n] \in {Torn, writer[q].kept}
        BY <1>1, <3>2 DEF BackupsAreOfWriters
      <4>4. \A q \in Writers : writer'[q].name = writer[q].name /\ writer'[q].kept = writer[q].kept
        BY <2>1, <2>6
      <4> QED BY <4>2, <4>3, <4>4
    <3>5. writer'[p].at = "done" /\ writer'[p].name = n /\ writer'[p].kept = c
      BY <2>1, <2>6, <3>1
    <3>6. saves' = saves /\ backups' = backups /\ NoFile' = NoFile /\ Torn' = Torn
          /\ Canonical' = Canonical
      BY <1>2 DEF NoFile, Torn, Canonical, Content
    <3> HIDE DEF n
    <3>7. Secures(p, c)'
      BY <3>2, <3>3, <3>4, <3>5, <3>6 DEF Secures
    <3> QED BY <3>7 DEF Secured
  <2> QED BY <2>8, <2>9, <2>11, <2>12, <2>13, <2>14, <2>15, <2>16, <2>17, <2>18, MigrateStep
<1> QED BY <1>3, <1>4 DEF Write

-----------------------------------------------------------------------------
\* A save by another only relieves the migrates of what holds without it.
LEMMA SaveKeeps ==
  ASSUME FilesIInv, Save
  PROVE  FilesIInv'
<1>1. /\ job = "migrate" /\ saves' = saves + 1
      /\ UNCHANGED <<job, args, backups, dir, writer, replaced, second>>
  BY DEF Save
<1>2. FilesType /\ Migrating /\ EachDoesItsJob /\ \A p \in Writers : Coded(p)
  BY <1>1 DEF FilesIInv
<1>3. PICK path \in {"config", "out"}, form \in {"array", "bad"} :
        files' = [files EXCEPT ![path] = Content(form, saves + 1)]
  BY DEF Save
<1> DEFINE c == Content(form, saves + 1)
<1>4. saves \in Nat /\ saves' # 0
  BY <1>1, <1>2 DEF FilesType
<1>5. c \in Contents /\ c.form \in {"array", "bad"}
  BY <1>4 DEF Contents, Content
<1>6. c # NoFile
  BY <1>5, NoFileIsEmpty
<1> HIDE DEF c
<1>7. files' \in [{"config", "out"} -> Contents] /\ files'[path] = c
      /\ \A other \in {"config", "out"} : other # path => files'[other] = files[other]
  BY <1>2, <1>3, <1>5 DEF FilesType, c
<1>8. FilesType'
  BY <1>1, <1>2, <1>4, <1>7 DEF FilesType, WriterForms, Bundles, Contents, Names, Entries,
                               Content, NoFile, Torn
<1>9. EachDoesItsJob'
  BY <1>1, <1>2 DEF EachDoesItsJob, Directory, NoFile
<1>10. \A p \in Writers : Target(p)' = Target(p) /\ Target(p) \in {"config", "out"}
  BY <1>1 DEF Target
<1>11. NoFile' = NoFile /\ Torn' = Torn /\ Canonical' = Canonical
  BY DEF NoFile, Torn, Canonical, Content
<1>12. \A p \in Writers : Coded(p)'
  BY <1>1, <1>2, <1>4 DEF Coded
<1>13. ASSUME NEW p \in Writers PROVE MigrateHolds(p)'
  <2>1. MigrateHolds(p)
    BY <1>2 DEF Migrating
  <2>2. files[Target(p)] # NoFile => files'[Target(p)] # NoFile
    BY <1>6, <1>7, <1>10
  <2> QED BY <1>1, <1>10, <1>11, <2>1, <2>2 DEF MigrateHolds
<1>14. \A p \in Writers : Shared(p)' <=> Shared(p)
  BY <1>1 DEF Shared
<1>15. \A p \in Writers : BackupIsMade(p)'
  BY <1>1, <1>2, <1>14 DEF Migrating, BackupIsMade
<1>16. FilesAreNotTorn'
  <2>1. FilesAreNotTorn
    BY <1>2 DEF Migrating
  <2> QED BY <1>5, <1>7, <2>1 DEF FilesAreNotTorn
<1>17. WithoutSaves'
  BY <1>4 DEF WithoutSaves
<1>18. BackupsAreOfWriters'
  BY <1>1, <1>2 DEF Migrating, BackupsAreOfWriters, Names, NoFile, Torn
<1>19. \A b \in replaced' : Secured(b)'
  <2> SUFFICES ASSUME NEW b \in replaced PROVE Secured(b)'
    BY <1>1
  <2>1. PICK p \in Writers : Secures(p, b)
    BY <1>2 DEF Migrating, Secured
  <2>2. Secures(p, b)'
    BY <1>1, <1>4, <1>11, <1>14, <2>1 DEF Secures
  <2> QED BY <2>2 DEF Secured
<1> QED BY <1>1, <1>8, <1>9, <1>12, <1>13, <1>15, <1>16, <1>17, <1>18, <1>19 DEF FilesIInv, Migrating

\* The clock is not in the invariant.
LEMMA TickKeeps ==
  ASSUME FilesIInv, Tick
  PROVE  FilesIInv'
<1>1. /\ job = "migrate" /\ second' \in 0..MaxSeconds
      /\ UNCHANGED <<job, args, files, backups, dir, writer, replaced, saves>>
  BY FilesAssumption DEF Tick, FilesIInv, FilesType
<1>2. FilesType'
  BY <1>1 DEF FilesIInv, FilesType, WriterForms, Bundles, Contents, Names, Entries,
              Content, NoFile, Torn
<1>3. EachDoesItsJob' /\ \A p \in Writers : Coded(p)'
  <2>1. EachDoesItsJob'
    BY <1>1 DEF FilesIInv, EachDoesItsJob, Directory, NoFile, NoFiles
  <2>2. \A p \in Writers : Coded(p)'
    BY <1>1 DEF FilesIInv, Coded, Target
  <2> QED BY <2>1, <2>2
<1>4. Migrating
  BY <1>1 DEF FilesIInv
<1>5. Migrating'
  <2>1. \A p \in Writers : MigrateHolds(p)' /\ BackupIsMade(p)'
    BY <1>1, <1>4 DEF Migrating, MigrateHolds, BackupIsMade, Shared, Target, NoFile
  <2>2. FilesAreNotTorn' /\ BackupsAreOfWriters'
    BY <1>1, <1>4 DEF Migrating, FilesAreNotTorn, BackupsAreOfWriters, Names, NoFile, Torn
  <2>3. WithoutSaves'
    BY <1>1, <1>4 DEF Migrating, WithoutSaves, Target, NoFile, Canonical, Content
  <2>4. ASSUME NEW b \in replaced PROVE Secured(b)'
    <3>1. PICK p \in Writers : Secures(p, b)
      BY <1>4 DEF Migrating, Secured
    <3>2. Secures(p, b)'
      BY <1>1, <3>1 DEF Secures, Shared, NoFile, Torn, Canonical, Content
    <3> QED BY <3>2 DEF Secured
  <2> QED BY <1>1, <2>1, <2>2, <2>3, <2>4 DEF Migrating
<1> QED BY <1>1, <1>2, <1>3, <1>5 DEF FilesIInv

-----------------------------------------------------------------------------
Kinds == {NoFile, Torn, Content("whole", 0)} \union Bundles

\* What has to be shown of a step of a command that fills a bundle.
LEMMA BundleStep ==
  ASSUME FilesIInv, job = "bundle", NEW m \in Writers,
         UNCHANGED <<job, args, files, backups, replaced, second, saves>>,
         NEW r \in WriterForms, Goes(m, r), writer[m].at # "done",
         r.at \in {"create", "put", "done"}, r.at # "done" => r.code = -1,
         r.name = writer[m].name, r.kept = writer[m].kept, r.data = writer[m].data,
         dir' \in [Entries -> Kinds], dir'["theirs"] = dir["theirs"],
         \A e \in Entries : dir[e] # NoFile => dir'[e] # NoFile,
         BundleHolds(m)', ManifestsAreLast', TornByOne', TheirsIsAlone'
  PROVE  FilesIInv'
<1>1. FilesType /\ Bundling
  BY DEF FilesIInv
<1>2. /\ writer' \in [Writers -> WriterForms] /\ writer'[m] = r
      /\ \A q \in Writers \ {m} : writer'[q] = writer[q]
  BY <1>1, WriterMoves
<1>3. FilesType'
  BY <1>1, <1>2 DEF FilesType, Kinds, WriterForms, Bundles, Contents, Names, Entries, Content,
                    NoFile, Torn
<1>4. EachDoesItsJob'
  <2>1. /\ replaced = {} /\ files = NoFiles /\ \A n \in Names : backups[n] = NoFile
        /\ \A p \in Writers : /\ writer[p].at \in {"begin", "create", "put", "done"}
                              /\ writer[p].name = <<>>
                              /\ writer[p].kept = NoFile /\ writer[p].data = NoFile
    BY DEF FilesIInv, EachDoesItsJob
  <2>2. \A p \in Writers : /\ writer'[p].at \in {"begin", "create", "put", "done"}
                           /\ writer'[p].name = <<>>
                           /\ writer'[p].kept = NoFile /\ writer'[p].data = NoFile
    BY <1>2, <2>1
  <2> QED BY <2>1, <2>2 DEF EachDoesItsJob, NoFiles, NoFile, Names
<1>5. ASSUME NEW q \in Writers PROVE Coded(q)'
  <2>1. writer[q].at # "done" => writer[q].code = -1
    BY DEF FilesIInv, Coded
  <2>2. writer'[q].at # "done" => writer'[q].code = -1
    BY <1>2, <2>1
  <2> QED BY <2>2 DEF Coded
<1>6. ASSUME NEW q \in Writers PROVE BundleHolds(q)'
  <2>1. CASE q = m
    BY <2>1
  <2>2. CASE q # m
    <3>1. BundleHolds(q) /\ writer'[q] = writer[q]
      BY <1>1, <1>2, <2>2 DEF Bundling
    <3>2. \A a \in writer[q].items : dir[a] # NoFile => dir'[a] # NoFile
      BY <1>1 DEF FilesType, WriterForms
    <3>3. dir["manifest"] # NoFile => dir'["manifest"] # NoFile
      BY NamesAreApart
    <3>4. NoFile' = NoFile
      BY DEF NoFile
    <3> QED BY <3>1, <3>2, <3>3, <3>4 DEF BundleHolds
  <2> QED BY <2>1, <2>2
<1> QED BY <1>3, <1>4, <1>5, <1>6 DEF FilesIInv, Bundling

\* A manifest that is there is of a command that is done, and stays its own.
LEMMA ManifestStays ==
  ASSUME ManifestsAreLast, NEW m \in Writers, writer[m].at # "done",
         \A q \in Writers \ {m} : writer'[q] = writer[q],
         dir'["manifest"] = dir["manifest"]
  PROVE  ManifestsAreLast'
<1> SUFFICES ASSUME dir["manifest"].form = "whole" PROVE ManifestsAreLast'
  BY DEF ManifestsAreLast
<1> DEFINE by == dir["manifest"].by
<1>1. /\ by \in Writers /\ dir["manifest"].items = writer[by].items /\ dir["manifest"].items # {}
      /\ writer[by].at = "done" /\ writer[by].left = <<"manifest">>
  BY DEF ManifestsAreLast
<1>2. writer'[by] = writer[by]
  BY <1>1
<1> QED BY <1>1, <1>2 DEF ManifestsAreLast

\* What is half written by another command stays so.
LEMMA TornStays ==
  ASSUME NEW m \in Writers, \A q \in Writers \ {m} : writer'[q] = writer[q],
         NEW q \in Writers, NEW e, Tears(q, e), Tears(m, e) => Tears(m, e)'
  PROVE  Tears(q, e)'
BY DEF Tears

\* What a command has yet to write, once it has found the directory empty.
LEMMA ArtifactsBeforeManifest ==
  ASSUME NEW runtime \in BOOLEAN, NEW export \in BOOLEAN, NEW items,
         items = BundleFiles \o (IF runtime THEN <<"runtime">> ELSE <<>>)
                             \o (IF export THEN <<"export">> ELSE <<>>)
  PROVE  /\ items \in Seq(Entries \ {"manifest", "theirs"}) /\ items # <<>>
         /\ items \o <<"manifest">> \in Seq(Entries)
         /\ Len(items \o <<"manifest">>) = Len(items) + 1
         /\ (items \o <<"manifest">>)[Len(items) + 1] = "manifest"
         /\ \A i \in 1..Len(items) : (items \o <<"manifest">>)[i] = items[i]
<1> DEFINE Others == Entries \ {"manifest", "theirs"}
           a == IF runtime THEN <<"runtime">> ELSE <<>>
           b == IF export THEN <<"export">> ELSE <<>>
<1>1. BundleFiles \in Seq(Others) /\ BundleFiles # <<>>
  <2>1. BundleFiles \in Seq(STRING \ {"manifest", "theirs"}) /\ BundleFiles # <<>>
    BY FilesAssumption
  <2>2. \A i \in DOMAIN BundleFiles : BundleFiles[i] \in Entries
    BY DEF Entries, ToSet
  <2>3. \A i \in DOMAIN BundleFiles : BundleFiles[i] \notin {"manifest", "theirs"}
    BY <2>1
  <2>4. BundleFiles = [i \in 1..Len(BundleFiles) |-> BundleFiles[i]] /\ Len(BundleFiles) \in Nat
        /\ DOMAIN BundleFiles = 1..Len(BundleFiles)
    BY <2>1
  <2>5. BundleFiles \in [1..Len(BundleFiles) -> Others]
    BY <2>2, <2>3, <2>4
  <2> QED BY <2>1, <2>4, <2>5, SeqDef
<1>2. "runtime" \in Others /\ "export" \in Others
  BY DEF Entries
<1>3. a \in Seq(Others) /\ b \in Seq(Others)
  <2>1. <<"runtime">> \in Seq(Others) /\ <<"export">> \in Seq(Others) /\ <<>> \in Seq(Others)
    <3> HIDE DEF Others
    <3> QED BY <1>2
  <2> HIDE DEF Others
  <2> QED BY <2>1
<1>4. items = (BundleFiles \o a) \o b
  OBVIOUS
<1>5. "manifest" \in Entries /\ Others \subseteq Entries
  BY NamesAreApart
<1> HIDE DEF a, b, Others
<1>6. BundleFiles \o a \in Seq(Others) /\ Len(BundleFiles \o a) = Len(BundleFiles) + Len(a)
  BY <1>1, <1>3, ConcatProperties
<1>7. items \in Seq(Others) /\ Len(items) = Len(BundleFiles \o a) + Len(b)
  BY <1>3, <1>4, <1>6, ConcatProperties
<1>8. Len(BundleFiles) \in Nat \ {0} /\ Len(a) \in Nat /\ Len(b) \in Nat
  BY <1>1, <1>3, EmptySeq, LenProperties
<1>9. Len(items) \in Nat \ {0}
  <2>1. \A u \in Nat \ {0} : \A v, w \in Nat : (u + v) + w \in Nat \ {0}
    OBVIOUS
  <2>2. Len(items) = (Len(BundleFiles) + Len(a)) + Len(b)
    BY <1>6, <1>7, Zenon
  <2> QED BY <1>8, <2>1, <2>2, Zenon
<1>10. items # <<>>
  BY <1>9, EmptySeq
<1>11. items \in Seq(Entries)
  BY <1>5, <1>7, SeqMonotonic
<1> DEFINE last == <<"manifest">>
<1>12. last \in Seq(Entries) /\ Len(last) = 1 /\ last[1] = "manifest"
  BY <1>5
<1> HIDE DEF last
<1>13. /\ items \o last \in Seq(Entries) /\ Len(items \o last) = Len(items) + 1
       /\ \A i \in 1..Len(items) + 1 : (items \o last)[i] =
            IF i <= Len(items) THEN items[i] ELSE last[i - Len(items)]
  <2>1. /\ items \o last \in Seq(Entries) /\ Len(items \o last) = Len(items) + Len(last)
        /\ \A i \in 1..Len(items) + Len(last) : (items \o last)[i] =
             IF i <= Len(items) THEN items[i] ELSE last[i - Len(items)]
    <3>1. items \in Seq(Entries) /\ last \in Seq(Entries)
      BY <1>11, <1>12
    <3>2. \A s1, s2 \in Seq(Entries) :
            /\ s1 \o s2 \in Seq(Entries) /\ Len(s1 \o s2) = Len(s1) + Len(s2)
            /\ \A i \in 1..Len(s1) + Len(s2) : (s1 \o s2)[i] =
                 IF i <= Len(s1) THEN s1[i] ELSE s2[i - Len(s1)]
      BY ConcatProperties
    <3> QED BY <3>1, <3>2
  <2>2. Len(last) = 1
    BY <1>12
  <2> QED BY <2>1, <2>2, Zenon
<1>14. (items \o last)[Len(items) + 1] = "manifest"
  <2>1. \A k \in Nat \ {0} : k + 1 \in 1..k + 1 /\ ~ (k + 1 <= k) /\ (k + 1) - k = 1
    OBVIOUS
  <2> DEFINE n == Len(items)
  <2>2. n + 1 \in 1..n + 1 /\ ~ (n + 1 <= n) /\ (n + 1) - n = 1
    BY <1>9, <2>1, Zenon
  <2> QED BY <1>12, <1>13, <2>2, Zenon
<1>15. \A i \in 1..Len(items) : (items \o last)[i] = items[i]
  <2>1. \A k \in Nat \ {0} : \A i \in 1..k : i \in 1..k + 1 /\ i <= k
    OBVIOUS
  <2> QED BY <1>9, <1>13, <2>1, Zenon
<1>16. items \in Seq(Entries \ {"manifest", "theirs"})
  BY <1>7 DEF Others
<1>17. items \o last = items \o <<"manifest">>
  BY DEF last
<1> QED BY <1>10, <1>13, <1>14, <1>15, <1>16, <1>17

-----------------------------------------------------------------------------
\* A command that fails or is killed leaves what it has written.
LEMMA BundleEnds ==
  ASSUME FilesIInv, job = "bundle", NEW p \in Writers, NEW c \in {-1, 1},
         writer[p].at # "done", Ends(p, c),
         UNCHANGED <<job, args, files, backups, dir, replaced, second, saves>>
  PROVE  FilesIInv'
<1> DEFINE w == writer[p]
           r == [w EXCEPT !.at = "done", !.code = c]
<1>1. FilesType /\ Bundling /\ BundleHolds(p) /\ w \in WriterForms
  BY DEF FilesIInv, FilesType, Bundling
<1>2. /\ r \in WriterForms /\ r.at = "done" /\ r.code = c
      /\ r.name = w.name /\ r.kept = w.kept /\ r.data = w.data /\ r.items = w.items
      /\ r.left = w.left
  <2>1. c \in {-1, 0, 1}
    OBVIOUS
  <2> QED BY <1>1, <2>1, WriterEnds
<1>3. Goes(p, r)
  BY DEF Ends
<1> HIDE DEF r
<1>4. writer'[p] = r /\ \A q \in Writers \ {p} : writer'[q] = writer[q]
  BY <1>1, <1>2, <1>3, WriterMoves
<1>5. BundleHolds(p)'
  BY <1>1, <1>2, <1>4 DEF BundleHolds, NoFile
<1>6. ManifestsAreLast'
  BY <1>1, <1>4, ManifestStays DEF Bundling
<1>7. TornByOne'
  <2> SUFFICES ASSUME NEW e \in Entries, dir[e].form = "torn" PROVE \E q \in Writers : Tears(q, e)'
    BY DEF TornByOne, Entries
  <2>1. PICK q \in Writers : Tears(q, e)
    BY <1>1 DEF Bundling, TornByOne
  <2>2. Tears(p, e) => Tears(p, e)'
    BY <1>2, <1>4 DEF Tears
  <2>3. Tears(q, e)'
    BY <1>4, <2>1, <2>2, TornStays
  <2> QED BY <2>3
<1>8. TheirsIsAlone'
  BY <1>1 DEF Bundling, TheirsIsAlone, Entries, NoFile
<1>9. dir' \in [Entries -> Kinds]
  BY <1>1 DEF FilesType, Kinds
<1> QED BY <1>2, <1>3, <1>5, <1>6, <1>7, <1>8, <1>9, BundleStep

\* Only an empty directory is filled.
LEMMA PrepareKeeps ==
  ASSUME FilesIInv, job = "bundle", NEW p \in Writers, Prepare(p),
         UNCHANGED <<job, args, files, backups, replaced, second, saves>>
  PROVE  FilesIInv'
<1> DEFINE w == writer[p]
<1>1. FilesType /\ Bundling /\ BundleHolds(p) /\ w \in WriterForms
  BY DEF FilesIInv, FilesType, Bundling
<1>2. w.at = "begin" /\ dir' = dir
  BY DEF Prepare
<1>3. CASE Ends(p, 1)
  BY <1>2, <1>3, BundleEnds
<1>4. CASE ~ Ends(p, 1)
  <2>1. /\ \A e \in Entries : dir[e] = NoFile
        /\ \E runtime, export, ok \in BOOLEAN :
             LET items == BundleFiles \o (IF runtime THEN <<"runtime">> ELSE <<>>)
                                      \o (IF export THEN <<"export">> ELSE <<>>)
             IN Goes(p, [writer[p] EXCEPT !.at = "create", !.left = items \o <<"manifest">>,
                           !.items = ToSet(items), !.passed = ok])
    BY <1>4 DEF Prepare
  <2>2. PICK runtime, export, ok \in BOOLEAN :
          LET items == BundleFiles \o (IF runtime THEN <<"runtime">> ELSE <<>>)
                                   \o (IF export THEN <<"export">> ELSE <<>>)
          IN Goes(p, [writer[p] EXCEPT !.at = "create", !.left = items \o <<"manifest">>,
                        !.items = ToSet(items), !.passed = ok])
    BY <2>1
  <2> DEFINE items == BundleFiles \o (IF runtime THEN <<"runtime">> ELSE <<>>)
                                  \o (IF export THEN <<"export">> ELSE <<>>)
             left == items \o <<"manifest">>
             r == [w EXCEPT !.at = "create", !.left = left, !.items = ToSet(items),
                            !.passed = ok]
  <2>3. Goes(p, r)
    BY <2>2
  <2>4. /\ items \in Seq(Entries \ {"manifest", "theirs"}) /\ items # <<>>
        /\ left \in Seq(Entries) /\ Len(left) = Len(items) + 1
        /\ left[Len(items) + 1] = "manifest"
        /\ \A i \in 1..Len(items) : left[i] = items[i]
    BY ArtifactsBeforeManifest
  <2> HIDE DEF items, left
  <2>5. Len(items) \in Nat \ {0} /\ DOMAIN items = 1..Len(items)
        /\ \A i \in 1..Len(items) : items[i] \in Entries /\ items[i] \notin {"manifest", "theirs"}
    BY <2>4, EmptySeq, LenProperties, ElementOfSeq
  <2>6. DOMAIN left = 1..Len(items) + 1 /\ left # <<>>
    BY <2>4, <2>5, LenProperties, EmptySeq
  <2>7. \A a : a \in ToSet(items) <=> \E i \in 1..Len(items) : a = items[i]
    BY <2>5 DEF ToSet
  <2>8. ToSet(items) \in SUBSET Entries /\ ToSet(items) # {}
        /\ "manifest" \notin ToSet(items) /\ "theirs" \notin ToSet(items)
    BY <2>5, <2>7
  <2> DEFINE its == ToSet(items)
  <2> HIDE DEF its
  <2>9. its \in SUBSET Entries
    BY <2>8 DEF its
  <2>10. r = [w EXCEPT !.at = "create", !.left = left, !.items = its, !.passed = ok]
    BY DEF its
  <2>11. /\ r \in WriterForms /\ r.at = "create" /\ r.left = left /\ r.items = its
         /\ r.code = w.code /\ r.name = w.name /\ r.kept = w.kept /\ r.data = w.data
    BY <1>1, <2>4, <2>9, <2>10 DEF WriterForms
  <2> HIDE DEF r
  <2>12. writer'[p] = r /\ \A q \in Writers \ {p} : writer'[q] = writer[q]
    BY <1>1, <2>3, <2>11, WriterMoves
  <2>13. w.code = -1
    BY <1>2 DEF FilesIInv, Coded
  <2>14. \A i \in DOMAIN left : left[i] # "theirs" /\ (left[i] = "manifest" <=> i = Len(left))
    <3> SUFFICES ASSUME NEW i \in DOMAIN left
                 PROVE  left[i] # "theirs" /\ (left[i] = "manifest" <=> i = Len(left))
      OBVIOUS
    <3>1. CASE i \in 1..Len(items)
      BY <2>4, <2>5, <3>1
    <3>2. CASE i = Len(items) + 1
      BY <2>4, <3>2
    <3> QED BY <2>5, <2>6, <3>1, <3>2
  <2>15. \A a \in its : a \notin {"theirs", "manifest"} /\ \E i \in DOMAIN left : left[i] = a
    <3> SUFFICES ASSUME NEW a \in its
                 PROVE  a \notin {"theirs", "manifest"} /\ \E i \in DOMAIN left : left[i] = a
      OBVIOUS
    <3>1. PICK i \in 1..Len(items) : a = items[i]
      BY <2>7 DEF its
    <3>2. i \in DOMAIN left /\ left[i] = a
      BY <2>4, <2>5, <2>6, <3>1
    <3> QED BY <2>5, <3>1, <3>2
  <2>16. its # {}
    BY <2>8 DEF its
  <2>17. dir["theirs"] = NoFile
    BY <2>1, NamesAreApart
  <2>18. BundleHolds(p)'
    BY <1>2, <2>6, <2>11, <2>12, <2>13, <2>14, <2>15, <2>16, <2>17 DEF BundleHolds, NoFile
  <2>19. ManifestsAreLast'
    BY <1>1, <1>2, <2>12, ManifestStays DEF Bundling
  <2>20. TornByOne'
    <3>1. \A e \in Entries : dir'[e].form # "torn"
      BY <1>2, <2>1, NoFileIsEmpty
    <3> QED BY <3>1 DEF TornByOne, Entries
  <2>21. TheirsIsAlone'
    BY <1>1, <1>2 DEF Bundling, TheirsIsAlone, Entries, NoFile
  <2>22. dir' \in [Entries -> Kinds]
    BY <1>1, <1>2 DEF FilesType, Kinds
  <2> QED BY <1>2, <2>3, <2>11, <2>13, <2>18, <2>19, <2>20, <2>21, <2>22, BundleStep
<1> QED BY <1>3, <1>4

\* A file of the bundle is made, and is empty then.
LEMMA OpenArtifactKeeps ==
  ASSUME FilesIInv, job = "bundle", NEW p \in Writers, OpenArtifact(p),
         UNCHANGED <<job, args, files, backups, replaced, second, saves>>
  PROVE  FilesIInv'
<1> DEFINE w == writer[p]
           h == Head(w.left)
           r == [w EXCEPT !.at = "put"]
<1>1. FilesType /\ Bundling /\ BundleHolds(p) /\ w \in WriterForms
  BY DEF FilesIInv, FilesType, Bundling
<1>2. w.at = "create"
  BY DEF OpenArtifact
<1>3. CASE Ends(p, 1) /\ UNCHANGED dir
  BY <1>2, <1>3, BundleEnds
<1>4. CASE At(p, "put") /\ dir' = [dir EXCEPT ![h] = Torn]
  <2>1. /\ r \in WriterForms /\ r.at = "put" /\ r.left = w.left /\ r.items = w.items
        /\ r.code = w.code /\ r.name = w.name /\ r.kept = w.kept /\ r.data = w.data
    BY <1>1 DEF WriterForms
  <2>2. Goes(p, r)
    BY <1>4 DEF At
  <2>3. w.items # {} /\ w.left # <<>> /\ dir["theirs"] = NoFile
    BY <1>1, <1>2 DEF BundleHolds
  <2>4. w.left \in Seq(Entries)
    BY <1>1 DEF WriterForms
  <2>5. h \in Entries /\ h = w.left[1] /\ 1 \in DOMAIN w.left
    BY <2>3, <2>4
  <2>6. h # "theirs"
    BY <1>1, <2>5 DEF BundleHolds
  <2> HIDE DEF h, r
  <2>7. writer'[p] = r /\ \A q \in Writers \ {p} : writer'[q] = writer[q]
    BY <1>1, <2>1, <2>2, WriterMoves
  <2>8. /\ dir' \in [Entries -> Kinds] /\ dir'[h] = Torn
        /\ \A e \in Entries : e # h => dir'[e] = dir[e]
    BY <1>1, <1>4, <2>5 DEF FilesType, Kinds
  <2>9. dir'["theirs"] = dir["theirs"]
    BY <2>6, <2>8, NamesAreApart
  <2>10. \A e \in Entries : dir[e] # NoFile => dir'[e] # NoFile
    BY <2>8, NoFileIsEmpty
  <2>11. w.code = -1
    BY <1>2 DEF FilesIInv, Coded
  <2>12. \A a \in w.items : dir[a] # NoFile => dir'[a] # NoFile
    BY <1>1, <2>10 DEF WriterForms
  <2>13. BundleHolds(p)'
    BY <1>1, <1>2, <2>1, <2>3, <2>7, <2>9, <2>11, <2>12 DEF BundleHolds, NoFile
  <2>14. ManifestsAreLast'
    <3>1. CASE h = "manifest"
      BY <2>8, <3>1, NoFileIsEmpty DEF ManifestsAreLast
    <3>2. CASE h # "manifest"
      <4>1. dir'["manifest"] = dir["manifest"]
        BY <2>8, <3>2, NamesAreApart
      <4> QED BY <1>1, <1>2, <2>7, <4>1, ManifestStays DEF Bundling
    <3> QED BY <3>1, <3>2
  <2>15. TornByOne'
    <3> SUFFICES ASSUME NEW e \in Entries, dir'[e].form = "torn"
                 PROVE  \E q \in Writers : Tears(q, e)'
      BY DEF TornByOne, Entries
    <3>1. CASE e = h
      <4>1. Tears(p, e)'
        BY <2>1, <2>3, <2>7, <3>1 DEF Tears, h
      <4> QED BY <4>1
    <3>2. CASE e # h
      <4>1. PICK q \in Writers : Tears(q, e)
        BY <1>1, <2>8, <3>2 DEF Bundling, TornByOne
      <4>2. ~ Tears(p, e)
        BY <1>2 DEF Tears
      <4>3. Tears(q, e)'
        BY <2>7, <4>1, <4>2, TornStays
      <4> QED BY <4>3
    <3> QED BY <3>1, <3>2
  <2>16. TheirsIsAlone'
    BY <2>3, <2>9 DEF TheirsIsAlone, NoFile
  <2> QED BY <1>2, <2>1, <2>2, <2>8, <2>9, <2>10, <2>11, <2>13, <2>14, <2>15, <2>16, BundleStep
<1> QED BY <1>3, <1>4 DEF OpenArtifact

\* A file of the bundle is filled; the last is the manifest.
LEMMA PutKeeps ==
  ASSUME FilesIInv, job = "bundle", NEW p \in Writers, Put(p),
         UNCHANGED <<job, args, files, backups, replaced, second, saves>>
  PROVE  FilesIInv'
<1> DEFINE w == writer[p]
           h == Head(w.left)
           whole == [form |-> "whole", items |-> w.items, by |-> p]
           c == IF w.passed THEN 0 ELSE 1
<1>1. FilesType /\ Bundling /\ BundleHolds(p) /\ w \in WriterForms
  BY DEF FilesIInv, FilesType, Bundling
<1>2. w.at = "put"
  BY DEF Put
<1>3. CASE Ends(p, 1) /\ UNCHANGED dir
  BY <1>2, <1>3, BundleEnds
<1>4. CASE /\ dir' = [dir EXCEPT ![h] = whole]
           /\ IF Len(w.left) = 1 THEN Ends(p, c)
              ELSE Goes(p, [w EXCEPT !.at = "create", !.left = Tail(@)])
  <2>1. w.items # {} /\ w.left # <<>> /\ dir["theirs"] = NoFile
    BY <1>1, <1>2 DEF BundleHolds
  <2>2. w.left \in Seq(Entries) /\ w.items \in SUBSET Entries
    BY <1>1 DEF WriterForms
  <2>3. h \in Entries /\ h = w.left[1] /\ 1 \in DOMAIN w.left
    BY <2>1, <2>2
  <2>4. h # "theirs" /\ (h = "manifest" <=> 1 = Len(w.left))
    BY <1>1, <2>3 DEF BundleHolds
  <2>5. whole \in Kinds /\ whole.form = "whole" /\ whole.items = w.items /\ whole.by = p
    BY <2>2 DEF Kinds, Bundles
  <2>6. whole # NoFile
    BY <2>5, NoFileIsEmpty
  <2>7. /\ \A i \in DOMAIN w.left : w.left[i] # "theirs"
        /\ \A i \in DOMAIN w.left : w.left[i] = "manifest" <=> i = Len(w.left)
        /\ \A a \in w.items : /\ a \notin {"theirs", "manifest"}
                              /\ dir[a] # NoFile \/ \E i \in DOMAIN w.left : w.left[i] = a
    BY <1>1 DEF BundleHolds
  <2>8. w.code = -1
    BY <1>2 DEF FilesIInv, Coded
  <2> HIDE DEF h, whole, c
  <2>9. /\ dir' \in [Entries -> Kinds] /\ dir'[h] = whole
        /\ \A e \in Entries : e # h => dir'[e] = dir[e]
    BY <1>1, <1>4, <2>3, <2>5 DEF FilesType, Kinds
  <2>10. dir'["theirs"] = dir["theirs"]
    BY <2>4, <2>9, NamesAreApart
  <2>11. \A e \in Entries : dir[e] # NoFile => dir'[e] # NoFile
    BY <2>6, <2>9
  <2>12. TheirsIsAlone'
    BY <2>1, <2>10 DEF TheirsIsAlone, NoFile
  <2>13. ASSUME \A q \in Writers \ {p} : writer'[q] = writer[q] PROVE TornByOne'
    <3> SUFFICES ASSUME NEW e \in Entries, dir'[e].form = "torn"
                 PROVE  \E q \in Writers : Tears(q, e)'
      BY DEF TornByOne, Entries
    <3>1. e # h
      BY <2>5, <2>9
    <3>2. PICK q \in Writers : Tears(q, e)
      BY <1>1, <2>9, <3>1 DEF Bundling, TornByOne
    <3>3. ~ Tears(p, e)
      BY <3>1 DEF Tears, h
    <3>4. Tears(q, e)'
      BY <2>13, <3>2, <3>3, TornStays
    <3> QED BY <3>4
  <2>14. CASE Len(w.left) = 1
    <3> DEFINE r == [w EXCEPT !.at = "done", !.code = c]
    <3>1. c \in {-1, 0, 1}
      BY DEF c
    <3>2. /\ r \in WriterForms /\ r.at = "done" /\ r.code = c
          /\ r.name = w.name /\ r.kept = w.kept /\ r.data = w.data /\ r.items = w.items
          /\ r.left = w.left
      BY <1>1, <3>1, WriterEnds
    <3>3. Goes(p, r)
      BY <1>4, <2>14 DEF Ends
    <3> HIDE DEF r
    <3>4. writer'[p] = r /\ \A q \in Writers \ {p} : writer'[q] = writer[q]
      BY <1>1, <3>2, <3>3, WriterMoves
    <3>5. h = "manifest" /\ w.left = <<"manifest">>
      BY <2>2, <2>3, <2>4, <2>14
    <3>6. ASSUME NEW a \in w.items
          PROVE  a \notin {"theirs", "manifest"} /\ dir'[a] # NoFile
      <4>1. a \notin {"theirs", "manifest"} /\ a \in Entries
        BY <2>2, <2>7
      <4>2. ~ \E i \in DOMAIN w.left : w.left[i] = a
        BY <3>5, <4>1
      <4>3. dir[a] # NoFile
        BY <2>7, <4>2
      <4> QED BY <2>11, <4>1, <4>3
    <3>7. dir'["manifest"] = whole
      BY <2>9, <3>5
    <3>8. BundleHolds(p)'
      <4>1. /\ \A i \in DOMAIN w.left : w.left[i] # "theirs"
            /\ \A i \in DOMAIN w.left : w.left[i] = "manifest" <=> i = Len(w.left)
        BY <2>7
      <4>2. /\ writer'[p].items = w.items /\ writer'[p].left = w.left /\ writer'[p].at = "done"
        BY <3>2, <3>4
      <4>3. NoFile' = NoFile /\ dir'["theirs"] = NoFile /\ dir'["manifest"] # NoFile
        BY <2>1, <2>6, <2>10, <3>7 DEF NoFile
      <4> HIDE DEF w
      <4> QED BY <2>1, <3>5, <3>6, <4>1, <4>2, <4>3 DEF BundleHolds
    <3>9. ManifestsAreLast'
      BY <2>1, <2>5, <3>2, <3>4, <3>5, <3>7 DEF ManifestsAreLast
    <3>10. TornByOne'
      BY <2>13, <3>4
    <3> QED BY <1>2, <2>9, <2>10, <2>11, <2>12, <3>2, <3>3, <3>8, <3>9, <3>10, BundleStep
  <2>15. CASE Len(w.left) # 1
    <3> DEFINE left == Tail(w.left)
               r == [w EXCEPT !.at = "create", !.left = left]
    <3>1. /\ left \in Seq(Entries) /\ Len(left) = Len(w.left) - 1
          /\ \A i \in 1..Len(left) : left[i] = w.left[i + 1]
      BY <2>1, <2>2, HeadTailProperties
    <3>2. Len(w.left) \in Nat \ {0, 1} /\ DOMAIN w.left = 1..Len(w.left)
      BY <2>1, <2>2, <2>15, EmptySeq, LenProperties
    <3>3. Goes(p, r)
      BY <1>4, <2>15
    <3> HIDE DEF left
    <3>4. DOMAIN left = 1..Len(left) /\ Len(left) \in Nat \ {0}
      BY <3>1, <3>2, LenProperties
    <3>5. left # <<>>
      BY <3>4
    <3>6. /\ r \in WriterForms /\ r.at = "create" /\ r.left = left /\ r.items = w.items
          /\ r.code = w.code /\ r.name = w.name /\ r.kept = w.kept /\ r.data = w.data
      BY <1>1, <3>1 DEF WriterForms
    <3> HIDE DEF r
    <3>7. writer'[p] = r /\ \A q \in Writers \ {p} : writer'[q] = writer[q]
      BY <1>1, <3>3, <3>6, WriterMoves
    <3>8. h # "manifest"
      BY <2>4, <2>15
    <3>9. dir'["manifest"] = dir["manifest"]
      BY <2>9, <3>8, NamesAreApart
    <3>10. ManifestsAreLast'
      BY <1>1, <1>2, <3>7, <3>9, ManifestStays DEF Bundling
    <3>11. \A i \in DOMAIN left : i + 1 \in DOMAIN w.left /\ left[i] = w.left[i + 1]
                                  /\ (i + 1 = Len(w.left) <=> i = Len(left))
      BY <3>1, <3>2, <3>4
    <3>12. \A i \in DOMAIN left : left[i] # "theirs" /\ (left[i] = "manifest" <=> i = Len(left))
      BY <2>7, <3>11
    <3>13. ASSUME NEW a \in w.items, dir'[a] = NoFile
           PROVE  \E i \in DOMAIN left : left[i] = a
      <4>1. a # h /\ dir[a] = NoFile
        BY <2>2, <2>6, <2>9, <2>11, <3>13
      <4>2. PICK i \in DOMAIN w.left : w.left[i] = a
        BY <2>7, <4>1
      <4>3. i # 1
        BY <2>3, <4>1, <4>2
      <4>4. i - 1 \in DOMAIN left /\ (i - 1) + 1 = i
        BY <3>1, <3>2, <3>4, <4>3
      <4>5. left[i - 1] = a
        BY <3>11, <4>2, <4>4
      <4> QED BY <4>4, <4>5
    <3>14. BundleHolds(p)'
      BY <2>1, <2>7, <2>8, <2>10, <3>5, <3>6, <3>7, <3>12, <3>13 DEF BundleHolds, NoFile
    <3>15. TornByOne'
      BY <2>13, <3>7
    <3> QED BY <1>2, <2>8, <2>9, <2>10, <2>11, <2>12, <3>3, <3>6, <3>10, <3>14, <3>15, BundleStep
  <2> QED BY <2>14, <2>15
<1> QED BY <1>3, <1>4 DEF Put

-----------------------------------------------------------------------------
\* Neither kind of command harms a file by being killed.
LEMMA KilledKeeps ==
  ASSUME FilesIInv, NEW p \in Writers, Killed(p)
  PROVE  FilesIInv'
<1>1. /\ writer[p].at # "done" /\ Ends(p, -1) /\ -1 \in {-1, 0, 1} /\ -1 \in {-1, 1} /\ -1 # 0
      /\ UNCHANGED <<job, args, files, backups, dir, replaced, second, saves>>
  BY DEF Killed
<1>2. job = "migrate" \/ job = "bundle"
  BY DEF FilesIInv, FilesType
<1>3. CASE job = "migrate"
  BY <1>1, <1>3, MigrateEnds
<1>4. CASE job = "bundle"
  BY <1>1, <1>4, BundleEnds
<1> QED BY <1>2, <1>3, <1>4

\* Every step keeps the invariant.
LEMMA FilesGoOn == FilesIInv /\ FilesNext => FilesIInv'
<1> SUFFICES ASSUME FilesIInv, FilesNext PROVE FilesIInv'
  OBVIOUS
<1>1. ASSUME NEW p \in Writers, job = "migrate", Migrate(p)
      PROVE  FilesIInv'
  <2>1. UNCHANGED <<job, args, dir, second, saves>>
    BY <1>1 DEF Migrate
  <2>2. CASE Read(p)
    BY <1>1, <2>1, <2>2, ReadKeeps
  <2>3. CASE Look(p)
    BY <1>1, <2>1, <2>3, LookKeeps
  <2>4. CASE Copy(p)
    BY <1>1, <2>1, <2>4, CopyKeeps
  <2>5. CASE Name(p)
    BY <1>1, <2>1, <2>5, NameKeeps
  <2>6. CASE Open(p)
    BY <1>1, <2>1, <2>6, OpenKeeps
  <2>7. CASE Fill(p)
    BY <1>1, <2>1, <2>7, FillKeeps
  <2>8. CASE Write(p)
    BY <1>1, <2>1, <2>8, WriteKeeps
  <2> QED BY <1>1, <2>2, <2>3, <2>4, <2>5, <2>6, <2>7, <2>8 DEF Migrate
<1>2. ASSUME NEW p \in Writers, job = "bundle", FillBundle(p)
      PROVE  FilesIInv'
  <2>1. UNCHANGED <<job, args, files, backups, replaced, second, saves>>
    BY <1>2 DEF FillBundle
  <2>2. CASE Prepare(p)
    BY <1>2, <2>1, <2>2, PrepareKeeps
  <2>3. CASE OpenArtifact(p)
    BY <1>2, <2>1, <2>3, OpenArtifactKeeps
  <2>4. CASE Put(p)
    BY <1>2, <2>1, <2>4, PutKeeps
  <2> QED BY <1>2, <2>2, <2>3, <2>4 DEF FillBundle
<1> QED BY <1>1, <1>2, KilledKeeps, SaveKeeps, TickKeeps DEF FilesNext

\* At first no command has begun.
LEMMA FilesBegin == FilesInit => FilesIInv
<1> SUFFICES ASSUME FilesInit PROVE FilesIInv
  OBVIOUS
<1>1. /\ backups = [n \in Names |-> NoFile] /\ writer = [p \in Writers |-> NewWriter]
      /\ replaced = {} /\ second = 0 /\ saves = 0
  BY DEF FilesInit, Apart
<1>2. NewWriter \in WriterForms
  <2>1. <<>> \in Seq(Entries) /\ 0 \in 0..MaxSeconds
    BY FilesAssumption, EmptySeq
  <2> QED BY <2>1, NoFileIsEmpty DEF NewWriter, WriterForms
<1>3. /\ NewWriter.at = "begin" /\ NewWriter.data = NoFile /\ NewWriter.kept = NoFile
      /\ NewWriter.name = <<>> /\ NewWriter.left = <<>> /\ NewWriter.items = {}
      /\ NewWriter.code = -1
  BY DEF NewWriter
<1>4. /\ job \in {"migrate", "bundle"} /\ args \in [Writers -> [write : BOOLEAN, out : BOOLEAN]]
      /\ job = "bundle" => files = NoFiles
      /\ job = "migrate" => dir = Directory(NoFile) /\ files \in FirstFiles
      /\ dir \in {Directory(NoFile), Directory(Content("whole", 0))}
  <2>1. CASE /\ job = "migrate" /\ args \in [Writers -> [write : BOOLEAN, out : BOOLEAN]]
             /\ Apart(FirstFiles) /\ dir = Directory(NoFile)
    BY <2>1 DEF Apart
  <2>2. CASE /\ job = "bundle" /\ args = [p \in Writers |-> [write |-> TRUE, out |-> TRUE]]
             /\ Apart({NoFiles})
             /\ dir \in {Directory(NoFile), Directory(Content("whole", 0))}
    <3>1. args \in [Writers -> [write : BOOLEAN, out : BOOLEAN]]
      BY <2>2
    <3>2. files = NoFiles
      BY <2>2 DEF Apart
    <3> QED BY <2>2, <3>1, <3>2
  <2> QED BY <2>1, <2>2 DEF FilesInit
<1>5. dir \in [Entries -> Kinds]
  BY <1>4 DEF Directory, Kinds
<1>6. \A path \in {"config", "out"} :
        files[path] \in {Content(form, 0) : form \in {"none", "array", "other", "bad"}}
  <2>1. NoFile = Content("none", 0)
    BY DEF NoFile, Content
  <2>2. CASE job = "migrate"
    BY <1>4, <2>2, FilesAssumption
  <2>3. CASE job = "bundle"
    <3>1. \A path \in {"config", "out"} : files[path] = NoFile
      BY <1>4, <2>3 DEF NoFiles
    <3> QED BY <2>1, <3>1
  <2> QED BY <1>4, <2>2, <2>3
<1>7. files = [path \in {"config", "out"} |-> files[path]]
  <2>1. CASE job = "migrate"
    BY <1>4, <2>1, FilesAssumption
  <2>2. CASE job = "bundle"
    BY <1>4, <2>2 DEF NoFiles
  <2> QED BY <1>4, <2>1, <2>2
<1>8. \A path \in {"config", "out"} :
        files[path] \in Contents /\ files[path].save = 0 /\ files[path].form # "torn"
  <2> SUFFICES ASSUME NEW path \in {"config", "out"}
               PROVE files[path] \in Contents /\ files[path].save = 0 /\ files[path].form # "torn"
    OBVIOUS
  <2>1. PICK form \in {"none", "array", "other", "bad"} : files[path] = Content(form, 0)
    BY <1>6
  <2> QED BY <2>1 DEF Content, Contents
<1>9. FilesType
  <2>1. writer \in [Writers -> WriterForms] /\ backups \in [Names -> Contents]
    BY <1>1, <1>2, NoFileIsEmpty
  <2>2. files \in [{"config", "out"} -> Contents]
    BY <1>7, <1>8
  <2> QED BY <1>1, <1>4, <1>5, <2>1, <2>2, FilesAssumption DEF FilesType, Kinds
<1> HIDE DEF NewWriter
<1>10. \A p \in Writers : writer[p] = NewWriter
  BY <1>1
<1>11. EachDoesItsJob
  BY <1>1, <1>3, <1>4, <1>10 DEF EachDoesItsJob
<1>12. \A p \in Writers : Coded(p)
  BY <1>3, <1>10 DEF Coded
<1>13. Migrating
  <2>1. \A p \in Writers : MigrateHolds(p) /\ BackupIsMade(p)
    BY <1>3, <1>10 DEF MigrateHolds, BackupIsMade
  <2>2. FilesAreNotTorn /\ BackupsAreOfWriters
    BY <1>1, <1>8 DEF FilesAreNotTorn, BackupsAreOfWriters
  <2>3. WithoutSaves
    BY <1>1, <1>3, <1>8, <1>10, NoFileIsEmpty DEF WithoutSaves
  <2> QED BY <1>1, <2>1, <2>2, <2>3 DEF Migrating
<1>14. Bundling
  <2>1. \A e \in Entries : e # "theirs" => dir[e] = NoFile
    BY <1>4 DEF Directory
  <2>2. \A e \in Entries : dir[e].form # "torn"
    <3>1. dir["theirs"] \in {NoFile, Content("whole", 0)}
      BY <1>4, NamesAreApart DEF Directory
    <3>2. Content("whole", 0).form = "whole"
      BY DEF Content
    <3> QED BY <2>1, <3>1, <3>2, NoFileIsEmpty
  <2>3. \A p \in Writers : BundleHolds(p)
    BY <1>3, <1>10, EmptySeq DEF BundleHolds
  <2>4. dir["manifest"].form = "none"
    BY <2>1, NamesAreApart, NoFileIsEmpty
  <2> QED BY <2>1, <2>2, <2>3, <2>4 DEF Bundling, ManifestsAreLast, TornByOne, TheirsIsAlone
<1> QED BY <1>9, <1>11, <1>12, <1>13, <1>14 DEF FilesIInv

-----------------------------------------------------------------------------
\* What was replaced is in a backup, or two migrates took one name.
LEMMA WhatIsReplacedIsKept ==
  ASSUME FilesType, Migrating
  PROVE  ReplacedIsKept
<1> SUFFICES ASSUME NEW c \in replaced, \A n \in Names : backups[n] # c
             PROVE  OneName /\ \/ saves > 0 \/ \E n \in Names : backups[n] = Torn
                               \/ \E path \in {"config", "out"} : files[path] = c
  BY DEF ReplacedIsKept
<1>1. PICK p \in Writers : Secures(p, c)
  BY DEF Migrating, Secured
<1>2. writer[p].name # <<>> /\ writer[p].name \in Names
  BY <1>1, NamesAreNames DEF Secures
<1>3. Shared(p)
  BY <1>1, <1>2 DEF Secures
<1>4. OneName
  BY <1>2, <1>3 DEF Shared, OneName
<1>5. ASSUME ~ (saves > 0), ~ \E n \in Names : backups[n] = Torn
      PROVE  \E path \in {"config", "out"} : files[path] = c
  <2>1. saves = 0
    BY <1>5 DEF FilesType
  <2>2. c = Canonical
    BY <1>1, <1>2, <1>5, <2>1 DEF Secures
  <2> QED BY <2>1, <2>2 DEF Migrating, WithoutSaves
<1> QED BY <1>4, <1>5

\* Exit code 0 means the canonical form was written.
LEMMA MigratesDoWhatTheySay ==
  ASSUME FilesType, Migrating, \A p \in Writers : Coded(p)
  PROVE  MigratesAreWhole
<1>1. \A path \in {"config", "out"} : files[path] # Torn
  BY NoFileIsEmpty DEF Migrating, FilesAreNotTorn
<1> QED BY <1>1 DEF MigratesAreWhole, Coded

\* A manifest marks a whole bundle.
LEMMA BundlesAreWholeThen ==
  ASSUME FilesType, Bundling, \A p \in Writers : Coded(p)
  PROVE  BundlesAreWhole
<1> DEFINE manifest == dir["manifest"]
           entered == {p \in Writers : writer[p].items # {}}
           wrote == {p \in entered : writer[p].left = <<"manifest">> /\ writer[p].at = "done"
                                     /\ dir["manifest"].form = "whole"}
           r == manifest.by
<1>1. \A q \in Writers, e \in Entries : Tears(q, e) => q \in entered
  BY DEF Tears, Bundling, BundleHolds
<1>2. ASSUME NEW e \in Entries, dir[e].form # "torn", dir[e] # NoFile
      PROVE  dir[e].form = "whole"
  <2>1. dir[e] \in {Content("whole", 0)} \union Bundles
    BY <1>2, NoFileIsEmpty DEF FilesType
  <2>2. Content("whole", 0).form = "whole" /\ \A b \in Bundles : b.form = "whole"
    BY DEF Content, Bundles
  <2> QED BY <2>1, <2>2
<1>3. ASSUME manifest.form = "whole", Cardinality(entered) = 1 \/ wrote = entered,
             NEW a \in manifest.items
      PROVE  dir[a].form = "whole"
  <2>1. /\ r \in Writers /\ manifest.items = writer[r].items /\ writer[r].items # {}
        /\ writer[r].at = "done" /\ writer[r].left = <<"manifest">>
    BY <1>3 DEF Bundling, ManifestsAreLast
  <2>2. \A q \in entered : writer[q].left = <<"manifest">>
    <3>1. CASE wrote = entered
      BY <3>1
    <3>2. CASE Cardinality(entered) = 1
      <4>1. IsFiniteSet(entered)
        BY FilesAssumption, FS_Subset
      <4>2. \E x : entered = {x}
        BY <3>2, <4>1, FS_Singleton
      <4>3. r \in entered
        BY <2>1
      <4>4. entered = {r}
        BY <4>2, <4>3
      <4> QED BY <2>1, <4>4
    <3> QED BY <1>3, <3>1, <3>2
  <2>3. a \in Entries
    BY <2>1, <1>3 DEF FilesType, WriterForms
  <2>4. a # "manifest" /\ dir[a] # NoFile
    <3>1. a \notin {"theirs", "manifest"} /\ (dir[a] # NoFile \/ \E i \in DOMAIN writer[r].left : writer[r].left[i] = a)
      BY <1>3, <2>1 DEF Bundling, BundleHolds
    <3>2. \A i \in DOMAIN writer[r].left : writer[r].left[i] = "manifest"
      BY <2>1
    <3> QED BY <3>1, <3>2
  <2>5. dir[a].form # "torn"
    <3> SUFFICES ASSUME dir[a].form = "torn" PROVE FALSE
      OBVIOUS
    <3>1. PICK q \in Writers : Tears(q, a)
      BY <2>3 DEF Bundling, TornByOne
    <3>2. writer[q].left = <<"manifest">> /\ Head(writer[q].left) = a
      BY <1>1, <2>2, <2>3, <3>1 DEF Tears
    <3>3. a = "manifest"
      BY <3>2
    <3> QED BY <2>4, <3>3
  <2> QED BY <1>2, <2>3, <2>4, <2>5
<1>4. ASSUME NEW p \in Writers, job = "bundle", writer[p].code = 0, entered = {p}
      PROVE  /\ manifest.form = "whole" /\ manifest.by = p
             /\ \A e \in Entries : dir[e] = NoFile \/ dir[e].form = "whole"
  <2>1. \A e \in Entries : dir[e].form # "torn"
    <3> SUFFICES ASSUME NEW e \in Entries, dir[e].form = "torn" PROVE FALSE
      OBVIOUS
    <3>1. PICK q \in Writers : Tears(q, e)
      BY DEF Bundling, TornByOne
    <3>2. q = p
      BY <1>1, <1>4, <3>1
    <3>3. writer[p].at = "put"
      BY <1>4, <3>1, <3>2 DEF Tears
    <3> QED BY <1>4, <3>3 DEF Coded
  <2>2. manifest # NoFile
    BY <1>4 DEF Bundling, BundleHolds
  <2>3. manifest.form = "whole"
    BY <1>2, <2>1, <2>2, NamesAreApart
  <2>4. r \in entered
    BY <2>3 DEF Bundling, ManifestsAreLast
  <2> QED BY <1>2, <1>4, <2>1, <2>3, <2>4
<1>5. dir["theirs"] # NoFile => \A e \in Entries \ {"theirs"} : dir[e] = NoFile
  BY DEF Bundling, TheirsIsAlone
<1> QED BY <1>3, <1>4, <1>5 DEF BundlesAreWhole

\* A step that leaves the files and the commands alone keeps the invariant.
LEMMA FilesStay == FilesIInv /\ UNCHANGED fileVars => FilesIInv'
<1> SUFFICES ASSUME FilesIInv, UNCHANGED fileVars PROVE FilesIInv'
  OBVIOUS
<1>1. UNCHANGED <<job, args, files, backups, dir, writer, replaced, second, saves>>
  BY DEF fileVars
<1>2. FilesType'
  BY <1>1 DEF FilesIInv, FilesType, WriterForms, Bundles, Contents, Names, Entries,
              Content, NoFile, Torn
<1>3. EachDoesItsJob' /\ \A p \in Writers : Coded(p)'
  <2>1. EachDoesItsJob'
    BY <1>1 DEF FilesIInv, EachDoesItsJob, Directory, NoFile, NoFiles, Names
  <2>2. \A p \in Writers : Coded(p)'
    BY <1>1 DEF FilesIInv, Coded, Target
  <2> QED BY <2>1, <2>2
<1>4. ASSUME Migrating PROVE Migrating'
  <2>1. \A p \in Writers : MigrateHolds(p)' /\ BackupIsMade(p)'
    BY <1>1, <1>4 DEF Migrating, MigrateHolds, BackupIsMade, Shared, Target, NoFile
  <2>2. FilesAreNotTorn' /\ BackupsAreOfWriters'
    BY <1>1, <1>4 DEF Migrating, FilesAreNotTorn, BackupsAreOfWriters, Names, NoFile, Torn
  <2>3. WithoutSaves'
    BY <1>1, <1>4 DEF Migrating, WithoutSaves, Target, NoFile, Canonical, Content
  <2>4. ASSUME NEW b \in replaced PROVE Secured(b)'
    <3>1. PICK p \in Writers : Secures(p, b)
      BY <1>4 DEF Migrating, Secured
    <3>2. Secures(p, b)'
      BY <1>1, <3>1 DEF Secures, Shared, NoFile, Torn, Canonical, Content
    <3> QED BY <3>2 DEF Secured
  <2> QED BY <1>1, <2>1, <2>2, <2>3, <2>4 DEF Migrating
<1>5. ASSUME Bundling PROVE Bundling'
  <2>1. \A p \in Writers : BundleHolds(p)'
    BY <1>1, <1>5 DEF Bundling, BundleHolds, NoFile
  <2>2. ManifestsAreLast' /\ TheirsIsAlone'
    BY <1>1, <1>5 DEF Bundling, ManifestsAreLast, TheirsIsAlone, Entries, NoFile
  <2>3. TornByOne'
    BY <1>1, <1>5 DEF Bundling, TornByOne, Tears, Entries
  <2> QED BY <2>1, <2>2, <2>3 DEF Bundling
<1> QED BY <1>1, <1>2, <1>3, <1>4, <1>5 DEF FilesIInv

\* The invariant gives the property.
LEMMA FilesKept == FilesIInv => FilesAreWhole
<1> SUFFICES ASSUME FilesIInv PROVE FilesAreWhole
  OBVIOUS
<1>1. FilesType /\ EachDoesItsJob /\ \A p \in Writers : Coded(p)
  BY DEF FilesIInv
<1>2. Migrating /\ Bundling
  <2>1. CASE job = "migrate"
    BY <1>1, <2>1, NoBundles DEF FilesIInv
  <2>2. CASE job = "bundle"
    BY <1>1, <2>2, NoMigrates DEF FilesIInv
  <2> QED BY <1>1, <2>1, <2>2 DEF FilesType
<1> QED BY <1>1, <1>2, WhatIsReplacedIsKept, MigratesDoWhatTheySay, BundlesAreWholeThen
        DEF FilesAreWhole

-----------------------------------------------------------------------------
-----------------------------------------------------------------------------
(* CliCommands: one command that speaks with the service.                  *)


Acting == OfRule \/ OfGroup \/ cmd.verb = "import"

\* Each command makes its own calls, one at a time.
AtItsCall ==
  /\ at \in Reads \union {"begin", "plan", "act", "done"}
  /\ at = "forwards" => OfRule \/ cmd.verb = "groupList"
  /\ at = "act" => Acting
  /\ at = "plan" => cmd.verb = "plan"
  /\ at = "runtime" => cmd.verb = "doctor"
  /\ at = "status" => cmd.verb \in {"doctor", "groupList"}
  /\ at = "export" => cmd.verb \in {"doctor", "export"}
  /\ code \in {-1, 0, 1, 2, 3, 4} /\ (code = -1 <=> at # "done")
  /\ (at # "begin" /\ code # 2) => ~Misused
  /\ lost => at = "done" \/ (at = "export" /\ cmd.verb = "doctor")

\* The service has at most the request of the call that is under way, or of
\* one that was given up; an answer is to the call that is under way.
RequestHolds ==
  /\ request \in Reads \union {"none", "plan", "act"}
  /\ request # "none" => request = at \/ (at = "done" /\ lost)
  /\ request = "act" => Acting /\ ~Misused
  /\ request = "plan" => cmd.verb = "plan"
  /\ answer # Unanswered => request = "none" /\ at \notin {"begin", "done"}

\* It acts once, when it is asked to, and does what it was asked.
ActHolds ==
  /\ acted \in {"no", "partly", "yes"}
  /\ (~Acting \/ request = "act" \/ at \in Reads \union {"begin", "plan"}) => acted = "no"
  /\ at = "begin" => before = Unread
  /\ code = 2 => acted = "no" /\ request # "act"
  /\ (code = 0 /\ Acting) => acted = "yes" \/ (acted = "partly" /\ OfRule /\ Reached.kind = "group")
  /\ (code = 1 /\ ~lost) => acted # "yes"
  /\ acted = "partly" => Reached.kind = "group"

\* The rule that the argument named in the answer it was looked for in.
NamedRule(rules, id) ==
  \E r \in rules : /\ r.id = id
                   /\ r.id = cmd.arg \/ ({s \in rules : s.name = cmd.arg} = {r}
                                         /\ \A s \in rules : s.id # cmd.arg)
TargetHolds ==
  OfRule /\ (at = "act" \/ request = "act" \/ acted # "no") =>
    NamedRule(seen["forwards"].rules, target)

\* An answer of a read is what the service is like, until somebody changes it;
\* the answer to a plan is about the service as it was when it was asked, and
\* that to an act tells whether it was done.
ToldBy(a) == a.rules = service.rules /\ a.version = service.version /\ a.recovery = service.recovery
AnswerHolds ==
  answer # Unanswered =>
    /\ at \in Reads => answer.ok /\ answer.rules \subseteq LiveRules /\ OneState(answer.rules)
    /\ at \in Reads /\ ~Acting /\ changes = 0 => ToldBy(answer)
    /\ at = "plan" => answer.rules = before.rules /\ answer.failed = cmd.file.errors
    /\ at = "act" => (answer.status = 200 /\ (OfRule \/ answer.failed = {})
                        <=> acted = "yes" \/ (OfRule /\ acted = "partly"))

\* So is what was read before.
SeenHolds ==
  /\ seen = [c \in Reads |-> seen[c]]
  /\ \A c \in Reads : seen[c].ok => /\ seen[c].rules \subseteq LiveRules /\ OneState(seen[c].rules)
                                    /\ ~Acting /\ changes = 0 => ToldBy(seen[c])
  /\ cmd.verb = "groupList" => /\ at = "status" => seen["forwards"].ok
                               /\ code = 0 => seen["forwards"].ok /\ seen["status"].ok

\* The doctor reads one answer after the other, and judges all of them.
DoctorHolds ==
  cmd.verb = "doctor" =>
    /\ at # "done" => ~seen["export"].ok
    /\ at \in {"status", "export"} => seen["runtime"].ok
    /\ at \in {"begin", "runtime", "status"} => ~seen["status"].ok
    /\ at = "export" => (seen["status"].ok <=> ~lost)
    /\ (at = "done" /\ lost) => code = 1
    /\ (at = "done" /\ ~lost) => /\ code = DoctorCode(seen)
                                 /\ seen["runtime"].ok /\ seen["status"].ok /\ seen["export"].ok

\* The exit code of a plan is about the service as it was then.
PlanHolds ==
  (cmd.verb = "plan" /\ at = "done" /\ ~lost /\ before # Unread) =>
    code = PlanExitCode(HasDrift(before.rules, cmd.file), cmd.file.errors # {}) /\ ~Misused

\* Those of the commands on files are about the file alone.
FileCodes ==
  /\ (cmd.verb = "validate" /\ at = "done") => code = ValidateCode(cmd.file)
  /\ (cmd.verb = "configDoctor" /\ at = "done") => code = ConfigDoctorCode

\* What was acted on is as it was asked for, while nobody else changes it, and
\* the rest is as it was.
DoneHolds ==
  /\ acted = "yes" /\ quiet =>
       LET of == ReachedRules(service.rules)
       IN /\ Starts => of # {} /\ of \subseteq Running(of)
          /\ Stops => of # {} /\ Running(of) = {}
          /\ cmd.verb = "import" /\ Has("replace") => Definition(service.rules) = cmd.file.rules
          /\ cmd.verb = "import" /\ ~Has("yes") => before.rules \subseteq service.rules
  /\ ((OfRule \/ OfGroup) /\ acted # "no" /\ quiet) =>
       OtherRules(service.rules) = OtherRules(before.rules)

CliType ==
  /\ cmd \in Commands /\ changes \in Nat /\ lost \in BOOLEAN /\ quiet \in BOOLEAN
  /\ service \in [rules : SUBSET LiveRules, version : {"same", "other"}, recovery : BOOLEAN]
  /\ OneState(service.rules)

CliIInv ==
  /\ CliType /\ AtItsCall /\ RequestHolds /\ ActHolds /\ TargetHolds /\ AnswerHolds
  /\ SeenHolds /\ DoctorHolds /\ PlanHolds /\ FileCodes /\ DoneHolds

-----------------------------------------------------------------------------
\* What is not answered or not read is not there.
LEMMA UnansweredIsNot == Unanswered.ok = FALSE /\ Unread.ok = FALSE
BY DEF Unanswered, Unread

\* The commands by their verbs; those on files have one.
LEMMA CommandsHaveVerbs ==
  ASSUME cmd \in Commands
  PROVE  /\ cmd.verb \in {"start", "stop", "diagnose", "groupStart", "groupStop", "groupList",
                          "export", "import", "plan", "validate", "configDoctor", "doctor"}
         /\ cmd.verb \in {"import", "plan", "validate", "configDoctor"} => cmd.file \in ConfigFiles
BY DEF Commands, RuleCommands, GroupCommands, ConfigCommands, DoctorCommands, Command

\* A command stays what it is.
LEMMA CommandStays ==
  ASSUME cmd' = cmd
  PROVE  /\ (OfRule' <=> OfRule) /\ (OfGroup' <=> OfGroup) /\ (Acting' <=> Acting)
         /\ (Misused' <=> Misused)
         /\ ConfigDoctorCode' = ConfigDoctorCode
BY Zenon DEF OfRule, OfGroup, Acting, Misused, Has, ConfigDoctorCode

\* What a path leads to depends on the command and its target alone.
LEMMA ReachedStays ==
  ASSUME cmd' = cmd, target' = target
  PROVE  Reached' = Reached /\ (Starts' <=> Starts) /\ (Stops' <=> Stops)
BY Zenon DEF Reached, Route, OfGroup, Starts, Stops

\* What was done is done while nothing else happens.
LEMMA DoneStays ==
  ASSUME DoneHolds, cmd' = cmd, target' = target \/ acted = "no",
         UNCHANGED <<service, before, acted, quiet>>
  PROVE  DoneHolds'
<1>1. CASE acted = "no"
  BY <1>1 DEF DoneHolds
<1>2. CASE target' = target
  <2>1. /\ ReachedRules(service.rules)' = ReachedRules(service.rules)
        /\ ReachedRules(before.rules)' = ReachedRules(before.rules)
    BY <1>2, ReachedStays DEF ReachedRules, InGroup
  <2>2. /\ OtherRules(service.rules)' = OtherRules(service.rules)
        /\ OtherRules(before.rules)' = OtherRules(before.rules)
    BY <2>1 DEF OtherRules
  <2>3. /\ Running(ReachedRules(service.rules))' = Running(ReachedRules(service.rules))
        /\ Definition(service.rules)' = Definition(service.rules)
    BY <2>1 DEF Running, Definition
  <2> QED BY <1>2, <2>1, <2>2, <2>3, CommandStays, ReachedStays DEF DoneHolds, Has
<1> QED BY <1>1, <1>2

\* The exit codes about files and reports.
LEMMA CodesOfFiles ==
  /\ \A f : ValidateCode(f) \in {0, 1}
  /\ \A severities, strict : ReportCode(severities, strict) \in {0, 1}
  /\ ConfigDoctorCode \in {0, 1}
BY DEF ValidateCode, ReportCode, ConfigDoctorCode

\* A command begins with its first call, or ends.
LEMMA BeginKeeps ==
  ASSUME CliIInv, Begin
  PROVE  CliIInv'
<1>1. /\ at = "begin" /\ request = "none" /\ answer = Unanswered /\ lost = FALSE /\ code = -1
      /\ acted = "no" /\ before = Unread
      /\ UNCHANGED <<service, cmd, target, seen, acted, before, lost, changes, quiet>>
  BY DEF CliIInv, CliType, AtItsCall, RequestHolds, ActHolds, Begin, Reads
<1>2. answer' = Unanswered /\ at' # "begin"
  BY DEF Begin, Exit, Call, FirstCall
<1>3. \/ /\ at' = "done" /\ request' = "none"
         /\ \/ Misused /\ code' = 2
            \/ ~Misused /\ cmd.verb = "validate" /\ code' = ValidateCode(cmd.file)
            \/ ~Misused /\ cmd.verb = "configDoctor" /\ code' = ConfigDoctorCode
      \/ /\ ~Misused /\ at' = FirstCall /\ request' = FirstCall /\ code' = -1
         /\ cmd.verb \notin {"validate", "configDoctor"}
  BY <1>1 DEF Begin, Exit, Call
<1>4. /\ cmd.verb \in {"start", "stop", "diagnose", "groupStart", "groupStop", "groupList",
                       "export", "import", "plan", "validate", "configDoctor", "doctor"}
  BY CommandsHaveVerbs DEF CliIInv, CliType
<1>5. CliType'
  BY <1>1 DEF CliIInv, CliType
<1>6. AtItsCall'
  BY <1>1, <1>2, <1>3, <1>4, CodesOfFiles, CommandStays
     DEF AtItsCall, FirstCall, Reads, OfRule, OfGroup, Acting
<1>7. RequestHolds'
  BY <1>1, <1>2, <1>3, <1>4, CommandStays DEF RequestHolds, FirstCall, Reads, OfRule, OfGroup, Acting
<1>8. ActHolds'
  BY <1>1, <1>2, <1>3, <1>4, CodesOfFiles, CommandStays DEF ActHolds, FirstCall, Reads, OfRule, OfGroup, Acting
<1>9. TargetHolds' /\ AnswerHolds'
  BY <1>1, <1>2, <1>3, <1>4 DEF TargetHolds, AnswerHolds, FirstCall, OfRule, OfGroup
<1>10. SeenHolds'
  <2>2. at' # "status"
    BY <1>3 DEF FirstCall
  <2> QED BY <1>1, <1>3, <2>2, CommandStays DEF CliIInv, SeenHolds, ToldBy, Reads
<1>11. DoctorHolds'
  <2>1. cmd.verb = "doctor" => at' = "runtime"
    BY <1>3 DEF FirstCall, Misused, OfRule, OfGroup
  <2> QED BY <1>1, <2>1 DEF CliIInv, DoctorHolds
<1>12. PlanHolds' /\ FileCodes'
  <2>1. PlanHolds'
    BY <1>1 DEF PlanHolds
  <2>2. FileCodes'
    <3>1. cmd.verb \in {"validate", "configDoctor"} => ~Misused
      BY DEF Misused, OfRule, OfGroup
    <3> QED BY <1>1, <1>3, <3>1, CommandStays DEF FileCodes, FirstCall
  <2> QED BY <2>1, <2>2
<1>13. DoneHolds'
  BY <1>1 DEF DoneHolds
<1> QED BY <1>5, <1>6, <1>7, <1>8, <1>9, <1>10, <1>11, <1>12, <1>13 DEF CliIInv

-----------------------------------------------------------------------------
\* A look for the argument finds a rule that may be acted on, none, or several.
LEMMA ResolveFinds ==
  ASSUME NEW rules, IsFiniteSet(rules)
  PROVE  /\ IsFiniteSet(Resolve(rules, cmd.arg)) /\ Resolve(rules, cmd.arg) \subseteq rules
         /\ \A r \in Resolve(rules, cmd.arg) :
              ~(Cardinality(Resolve(rules, cmd.arg)) > 1) => NamedRule(rules, r.id)
<1>1. Resolve(rules, cmd.arg) \subseteq rules
  BY DEF Resolve
<1>2. IsFiniteSet(Resolve(rules, cmd.arg))
  BY <1>1, FS_Subset
<1>3. ASSUME NEW r \in Resolve(rules, cmd.arg), ~(Cardinality(Resolve(rules, cmd.arg)) > 1)
      PROVE  NamedRule(rules, r.id)
  <2>1. CASE \E s \in rules : s.id = cmd.arg
    BY <1>1, <1>3, <2>1 DEF Resolve, NamedRule
  <2>2. CASE \A s \in rules : s.id # cmd.arg
    <3>1. Resolve(rules, cmd.arg) = {s \in rules : s.name = cmd.arg}
      BY <2>2 DEF Resolve
    <3>2. Cardinality(Resolve(rules, cmd.arg)) \in Nat /\ Cardinality(Resolve(rules, cmd.arg)) # 0
      BY <1>2, <1>3, FS_CardinalityType, FS_EmptySet
    <3>3. Cardinality(Resolve(rules, cmd.arg)) = 1
      BY <1>3, <3>2
    <3>4. \E s : Resolve(rules, cmd.arg) = {s}
      BY <1>2, <3>3, FS_Singleton
    <3>5. Resolve(rules, cmd.arg) = {r}
      BY <1>3, <3>4
    <3>6. {s \in rules : s.name = cmd.arg} = {r} /\ r \in rules
      BY <1>1, <1>3, <3>1, <3>5
    <3> QED BY <1>3, <2>2, <3>6 DEF NamedRule
  <2> QED BY <2>1, <2>2
<1> QED BY <1>1, <1>2, <1>3

\* What a command makes of an answer.
Received(next, exit) ==
  /\ at' = next /\ answer' = Unanswered
  /\ IF next = "done" THEN request' = "none" /\ code' = exit
                      ELSE request' = next /\ code' = -1

\* What follows an answer, call by call.
LEMMA WhatIsReceived ==
  ASSUME CliIInv, Receive
  PROVE  /\ answer # Unanswered /\ request = "none" /\ at \notin {"begin", "done"}
         /\ code = -1 /\ ~Misused
         /\ \/ at \in Reads /\ seen' = [seen EXCEPT ![at] = answer]
            \/ at \notin Reads /\ seen' = seen
         /\ UNCHANGED <<service, cmd, acted, before, lost, changes, quiet>>
         /\ \/ at = "forwards" /\ cmd.verb = "groupList" /\ Received("status", 0)
            \/ /\ at = "forwards" /\ OfRule
               /\ \/ Received("done", 1) \/ Received("done", 2)
                  \/ Received("act", 0) /\ NamedRule(answer.rules, target')
            \/ at = "runtime" /\ cmd.verb = "doctor" /\ Received("status", 0)
            \/ at = "status" /\ cmd.verb = "doctor" /\ Received("export", 0)
            \/ at = "status" /\ cmd.verb = "groupList" /\ Received("done", 0)
            \/ at = "export" /\ cmd.verb = "doctor" /\ Received("done", DoctorCode(seen'))
            \/ at = "export" /\ cmd.verb = "export" /\ Received("done", ExportCode)
            \/ at = "plan" /\ cmd.verb = "plan" /\ Received("done", PlanCode)
            \/ at = "act" /\ Acting /\ Received("done", ActCode)
         /\ (at = "forwards" /\ OfRule) \/ UNCHANGED target
<1>1. answer # Unanswered /\ request = "none" /\ at \notin {"begin", "done"}
  BY DEF CliIInv, RequestHolds, Receive
<1>2. code = -1 /\ ~Misused
  BY <1>1 DEF CliIInv, AtItsCall
<1>3. /\ \/ at \in Reads /\ seen' = [seen EXCEPT ![at] = answer]
         \/ at \notin Reads /\ seen' = seen
      /\ UNCHANGED <<service, cmd, acted, before, lost, changes, quiet>>
  BY DEF Receive
<1>4. CASE at = "forwards" /\ OfRule
  <2>1. AfterForwards
    BY <1>4 DEF Receive, AfterAnswer
  <2>2. cmd.verb # "groupList"
    BY <1>4 DEF OfRule
  <2>3. IsFiniteSet(answer.rules)
    BY <1>1, <1>4 DEF CliIInv, AnswerHolds, Reads, OneState
  <2>4. \/ Received("done", 1) /\ UNCHANGED target
        \/ Received("done", 2) /\ UNCHANGED target
        \/ /\ Received("act", 0) /\ ~(Cardinality(Resolve(answer.rules, cmd.arg)) > 1)
           /\ \E r \in Resolve(answer.rules, cmd.arg) : target' = r.id
    BY <1>1, <1>2, <2>1, <2>2 DEF AfterForwards, Received, Exit, Call
  <2>5. \/ Received("done", 1) /\ UNCHANGED target
        \/ Received("done", 2) /\ UNCHANGED target
        \/ Received("act", 0) /\ NamedRule(answer.rules, target')
    BY <2>3, <2>4, ResolveFinds
  <2> QED BY <1>1, <1>2, <1>3, <1>4, <2>5
<1>5. CASE ~(at = "forwards" /\ OfRule)
  <2>1. UNCHANGED target
    BY <1>1, <1>5 DEF CliIInv, AtItsCall, Receive, AfterAnswer, AfterForwards
  <2>2. AfterAnswer
    BY DEF Receive
  <2>3. at \in {"forwards", "status", "runtime", "export", "plan", "act"}
    BY <1>1 DEF CliIInv, AtItsCall, Reads
  <2>4. \/ at = "forwards" /\ cmd.verb = "groupList" /\ Call("status")
        \/ at = "runtime" /\ cmd.verb = "doctor" /\ Call("status")
        \/ at = "status" /\ cmd.verb = "doctor" /\ Call("export")
        \/ at = "status" /\ cmd.verb = "groupList" /\ Exit(0)
        \/ at = "export" /\ cmd.verb = "doctor" /\ Exit(DoctorCode(seen'))
        \/ at = "export" /\ cmd.verb = "export" /\ Exit(ExportCode)
        \/ at = "plan" /\ cmd.verb = "plan" /\ Exit(PlanCode)
        \/ at = "act" /\ Acting /\ Exit(ActCode)
    BY <1>5, <2>2, <2>3 DEF CliIInv, AtItsCall, AfterAnswer, AfterForwards
  <2>5. /\ \A n : n # "done" /\ Call(n) => Received(n, 0)
        /\ \A c : Exit(c) => Received("done", c)
    BY <1>1, <1>2 DEF Received, Exit, Call
  <2> HIDE DEF DoctorCode, ExportCode, PlanCode, ActCode
  <2> QED BY <1>1, <1>2, <1>3, <2>1, <2>4, <2>5
<1> QED BY <1>4, <1>5

\* The exit codes of plans and of the doctor.
LEMMA CodesOfAnswers ==
  /\ \A read : DoctorCode(read) \in {0, 1}
  /\ ExportCode \in {0, 2} /\ PlanCode \in {0, 1, 4} /\ ActCode \in {0, 1}
BY CodesOfFiles DEF DoctorCode, ExportCode, PlanCode, PlanExitCode, ActCode

\* The next call, or the exit code, is about what was answered.
LEMMA ReceiveKeeps ==
  ASSUME CliIInv, Receive
  PROVE  CliIInv'
<1>1. /\ answer # Unanswered /\ request = "none" /\ at \notin {"begin", "done"}
      /\ code = -1 /\ ~Misused
      /\ \/ at \in Reads /\ seen' = [seen EXCEPT ![at] = answer]
         \/ at \notin Reads /\ seen' = seen
      /\ UNCHANGED <<service, cmd, acted, before, lost, changes, quiet>>
      /\ (at = "forwards" /\ OfRule) \/ UNCHANGED target
      /\ answer' = Unanswered
  BY WhatIsReceived DEF Received
<1>2. \/ at = "forwards" /\ cmd.verb = "groupList" /\ Received("status", 0)
      \/ /\ at = "forwards" /\ OfRule
         /\ \/ Received("done", 1) \/ Received("done", 2)
            \/ Received("act", 0) /\ NamedRule(answer.rules, target')
      \/ at = "runtime" /\ cmd.verb = "doctor" /\ Received("status", 0)
      \/ at = "status" /\ cmd.verb = "doctor" /\ Received("export", 0)
      \/ at = "status" /\ cmd.verb = "groupList" /\ Received("done", 0)
      \/ at = "export" /\ cmd.verb = "doctor" /\ Received("done", DoctorCode(seen'))
      \/ at = "export" /\ cmd.verb = "export" /\ Received("done", ExportCode)
      \/ at = "plan" /\ cmd.verb = "plan" /\ Received("done", PlanCode)
      \/ at = "act" /\ Acting /\ Received("done", ActCode)
  BY WhatIsReceived
<1>3. CliType'
  BY <1>1 DEF CliIInv, CliType
<1>4. /\ at' \in {"status", "export", "act", "done"}
      /\ at' = "act" => OfRule
      /\ at' = "status" => cmd.verb \in {"doctor", "groupList"}
      /\ at' = "export" => cmd.verb = "doctor"
      /\ request' = IF at' = "done" THEN "none" ELSE at'
      /\ code' \in {-1, 0, 1, 2, 4} /\ (code' = -1 <=> at' # "done")
      /\ (code' = 2 => at \in Reads) /\ (code' = 0 /\ Acting => at = "act" /\ code' = ActCode)
      /\ code' = 1 => at # "act" \/ code' = ActCode
  BY <1>1, <1>2, CodesOfAnswers DEF Received, Reads, OfRule, OfGroup, Acting
<1>5. AtItsCall'
  <2>1. lost => at' = "done"
    BY <1>1, <1>2 DEF CliIInv, AtItsCall, Received, OfRule
  <2> QED BY <1>1, <1>4, <2>1, CommandStays DEF AtItsCall, Reads, Acting
<1>6. RequestHolds'
  BY <1>1, <1>4, CommandStays DEF RequestHolds, Reads, Acting
<1>7. at # "act" => acted = "no"
  BY <1>1 DEF CliIInv, AtItsCall, ActHolds, Reads
<1>8. ActHolds'
  <2>1. at = "act" => (ActCode = 0 <=> acted = "yes" \/ (OfRule /\ acted = "partly"))
    BY <1>1 DEF CliIInv, AnswerHolds, ActCode
  <2>3. acted # "no" => Reached' = Reached
    BY <1>1, <1>7, ReachedStays
  <2>2. at' # "done" => acted = "no"
    BY <1>1, <1>2, <1>7 DEF Received
  <2> QED BY <1>1, <1>4, <1>7, <2>1, <2>2, <2>3, CommandStays DEF CliIInv, ActHolds, Reads
<1>9. TargetHolds'
  <2>1. CASE at = "forwards"
    <3>1. at' = "act" => NamedRule(answer.rules, target') /\ seen'["forwards"] = answer
      BY <1>1, <1>2, <2>1 DEF Received, CliIInv, SeenHolds, Reads
    <3>2. acted' = "no" /\ (request' = "act" => at' = "act")
      BY <1>1, <1>4, <1>7, <2>1
    <3> QED BY <1>1, <3>1, <3>2 DEF TargetHolds, NamedRule
  <2>2. CASE at # "forwards"
    <3>1. at' # "act" /\ request' # "act" /\ target' = target
      BY <1>1, <1>2, <2>2 DEF Received
    <3>2. acted # "no" => seen' = seen /\ at = "act"
      BY <1>1, <1>7 DEF Reads
    <3> QED BY <1>1, <3>1, <3>2, CommandStays DEF CliIInv, TargetHolds, NamedRule
  <2> QED BY <2>1, <2>2
<1>10. AnswerHolds'
  BY <1>1 DEF AnswerHolds
<1>11. /\ DOMAIN seen = Reads /\ seen' = [c \in Reads |-> seen'[c]]
       /\ \A c \in Reads : c # at => seen'[c] = seen[c]
       /\ at \in Reads => seen'[at] = answer
  BY <1>1 DEF CliIInv, SeenHolds
<1>12. SeenHolds'
  <2>1. ASSUME NEW c \in Reads, seen'[c].ok
        PROVE  /\ seen'[c].rules \subseteq LiveRules /\ OneState(seen'[c].rules)
               /\ ~Acting /\ changes = 0 => ToldBy(seen'[c])
    BY <1>1, <1>11, <2>1 DEF CliIInv, SeenHolds, AnswerHolds
  <2>2. cmd.verb = "groupList" => /\ at' = "status" => seen'["forwards"].ok
                                  /\ code' = 0 => seen'["forwards"].ok /\ seen'["status"].ok
    <3>1. at \in Reads => answer.ok
      BY <1>1 DEF CliIInv, AnswerHolds
    <3> QED BY <1>1, <1>2, <1>4, <1>11, <3>1 DEF CliIInv, SeenHolds, Received, Reads, OfRule, OfGroup, Acting
  <2> QED BY <1>1, <1>11, <2>1, <2>2, CommandStays DEF SeenHolds, ToldBy
<1>13. DoctorHolds'
  <2> SUFFICES ASSUME cmd.verb = "doctor" PROVE DoctorHolds'
    BY <1>1 DEF DoctorHolds
  <2>1. /\ at \in Reads /\ answer.ok /\ seen'[at].ok
        /\ \A c \in Reads : c # at => seen'[c] = seen[c]
    BY <1>1, <1>2, <1>11 DEF CliIInv, AnswerHolds, Reads, OfRule, Acting, OfGroup
  <2>2. \/ at = "runtime" /\ at' = "status"
        \/ at = "status" /\ at' = "export"
        \/ at = "export" /\ at' = "done" /\ code' = DoctorCode(seen')
    BY <1>2 DEF Received, OfRule, OfGroup, Acting
  <2>3. lost => at = "export"
    BY <1>1 DEF CliIInv, AtItsCall
  <2>4. lost /\ at = "export" => DoctorCode(seen') = 1
    <3>1. lost /\ at = "export" => ~seen'["status"].ok
      BY <1>11 DEF CliIInv, DoctorHolds, Reads
    <3> QED BY <3>1 DEF DoctorCode, ReportCode, LiveChecks
  <2>5. DoctorCode(seen)' = DoctorCode(seen')
    BY <1>1 DEF DoctorCode, LiveChecks, ReportCode, HealthChecks, Has
  <2> QED BY <1>1, <2>1, <2>2, <2>3, <2>4, <2>5 DEF CliIInv, DoctorHolds, Reads
<1>14. PlanHolds'
  <2>1. (cmd.verb = "plan" /\ at' = "done") => at = "plan" /\ code' = PlanCode
    BY <1>2 DEF Received, OfRule, OfGroup, Acting
  <2>2. at = "plan" => answer.rules = before.rules /\ answer.failed = cmd.file.errors
    BY <1>1 DEF CliIInv, AnswerHolds
  <2> QED BY <1>1, <2>1, <2>2, CommandStays DEF PlanHolds, PlanCode, PlanExitCode, HasDrift, Definition, Has
<1>15. FileCodes'
  BY <1>1, <1>2, CommandStays DEF FileCodes, OfRule, OfGroup, Acting, Received
<1>16. DoneHolds'
  BY <1>1, <1>7, DoneStays DEF CliIInv
<1> QED BY <1>3, <1>5, <1>6, <1>8, <1>9, <1>10, <1>12, <1>13, <1>14, <1>15, <1>16 DEF CliIInv

\* A lost answer is no success.
LEMMA LoseKeeps ==
  ASSUME CliIInv, Lose
  PROVE  CliIInv'
<1>1. /\ at \in Reads \union {"plan", "act"} /\ lost' = TRUE /\ answer' = Unanswered
      /\ UNCHANGED <<service, cmd, target, seen, acted, before, changes, quiet>>
  BY DEF CliIInv, AtItsCall, Lose, Exit, Call
<1>2. cmd.verb = "doctor" => at \in {"runtime", "status", "export"}
  BY <1>1 DEF CliIInv, AtItsCall, Reads, OfRule, OfGroup, Acting
<1>3. \/ /\ cmd.verb # "doctor" /\ at' = "done" /\ request' = request /\ code' \in {1, 3}
      \/ /\ cmd.verb = "doctor" /\ at = "runtime" /\ at' = "done" /\ request' = request /\ code' = 1
      \/ /\ cmd.verb = "doctor" /\ at = "status" /\ at' = "export" /\ request' = "export" /\ code' = code
      \/ /\ cmd.verb = "doctor" /\ at = "export" /\ at' = "done" /\ request' = request
         /\ code' = DoctorCode(seen)
  BY <1>2 DEF Lose, Exit, Call
<1>4. cmd.verb = "doctor" /\ at = "export" => DoctorCode(seen) = 1
  <2>1. cmd.verb = "doctor" /\ at = "export" => ~seen["export"].ok
    BY DEF CliIInv, DoctorHolds
  <2> QED BY <2>1 DEF DoctorCode, ReportCode, LiveChecks
<1>5. CliType'
  BY <1>1 DEF CliIInv, CliType
<1>6. AtItsCall'
  BY <1>1, <1>3, <1>4, CommandStays DEF CliIInv, AtItsCall, Reads
<1>7. RequestHolds'
  BY <1>1, <1>3, CommandStays DEF CliIInv, RequestHolds, AtItsCall, Reads
<1>8. ActHolds'
  BY <1>1, <1>3, <1>4, CommandStays, ReachedStays DEF CliIInv, ActHolds, Reads, Acting, OfRule, OfGroup
<1>9. TargetHolds' /\ AnswerHolds'
  BY <1>1, <1>3, CommandStays DEF CliIInv, TargetHolds, NamedRule, AnswerHolds, OfRule
<1>10. SeenHolds'
  BY <1>1, <1>3, CommandStays DEF CliIInv, SeenHolds, ToldBy, Reads
<1>11. DoctorHolds'
  BY <1>1, <1>3, <1>4 DEF CliIInv, DoctorHolds
<1>12. PlanHolds'
  BY <1>1 DEF PlanHolds
<1>13. FileCodes'
  BY <1>1, <1>3 DEF CliIInv, AtItsCall, FileCodes, Reads, Acting, OfRule, OfGroup
<1>14. DoneHolds'
  BY <1>1, DoneStays DEF CliIInv
<1> QED BY <1>5, <1>6, <1>7, <1>8, <1>9, <1>10, <1>11, <1>12, <1>13, <1>14 DEF CliIInv

-----------------------------------------------------------------------------
\* An answer is of what the service holds now, and nobody reads a late one.
LEMMA Answered ==
  ASSUME CliIInv, NEW status, NEW failed, Answer(status, failed), request # "none"
  PROVE  /\ request' = "none" /\ (request = at \/ (at = "done" /\ lost))
         /\ at # "begin"
         /\ request # at => answer' = Unanswered
         /\ request = at => /\ at # "done" /\ answer'.ok = (status = 200) /\ answer'.status = status
                            /\ answer'.failed = failed /\ answer'.rules = service.rules
                            /\ answer'.version = service.version
                            /\ answer'.recovery = service.recovery
BY DEF Answer, CliIInv, RequestHolds, Reads

\* What a call that is served leaves alone.
LEMMA ServedKeeps ==
  ASSUME CliIInv, request # "none", request' = "none", request = at \/ (at = "done" /\ lost), at # "begin",
         request # at => answer' = Unanswered,
         UNCHANGED <<cmd, at, target, seen, lost, code, changes>>
  PROVE  /\ AtItsCall' /\ RequestHolds' /\ FileCodes' /\ DoctorHolds'
<1>1. AtItsCall' /\ FileCodes'
  BY CommandStays DEF CliIInv, AtItsCall, FileCodes
<1>2. RequestHolds'
  BY CommandStays DEF CliIInv, RequestHolds, AtItsCall, Reads
<1>3. DoctorHolds'
  <2>1. DoctorCode(seen)' = DoctorCode(seen)
    BY DEF DoctorCode, LiveChecks, ReportCode, HealthChecks, Has
  <2> QED BY <2>1 DEF CliIInv, DoctorHolds
<1> QED BY <1>1, <1>2, <1>3

\* A read is answered with what the service is like.
LEMMA ReadsKeep ==
  ASSUME CliIInv, ServeRead, UNCHANGED <<cmd, at, target, seen, lost, code, changes>>
  PROVE  CliIInv'
<1>1. request \in Reads /\ request # "none" /\ Answer(200, {}) /\ UNCHANGED <<service, acted, before, quiet>>
  BY DEF ServeRead, Reads
<1>2. /\ request' = "none" /\ (request = at \/ (at = "done" /\ lost)) /\ at # "begin"
      /\ request # at => answer' = Unanswered
      /\ request = at => /\ at # "done" /\ answer'.ok /\ answer'.rules = service.rules
                         /\ answer'.version = service.version
                         /\ answer'.recovery = service.recovery
  BY <1>1, Answered
<1>3. AtItsCall' /\ RequestHolds' /\ FileCodes' /\ DoctorHolds'
  BY <1>1, <1>2, ServedKeeps
<1>4. CliType'
  BY <1>1 DEF CliIInv, CliType
<1>5. ActHolds' /\ TargetHolds'
  BY <1>1, <1>2, CommandStays, ReachedStays DEF CliIInv, ActHolds, TargetHolds, NamedRule
<1>6. AnswerHolds'
  BY <1>1, <1>2, <1>4, CommandStays DEF CliType, AnswerHolds, ToldBy, Reads
<1>7. SeenHolds' /\ PlanHolds'
  BY <1>1, CommandStays DEF CliIInv, SeenHolds, ToldBy, PlanHolds, PlanExitCode, HasDrift, Has, Definition
<1>8. DoneHolds'
  BY <1>1, DoneStays DEF CliIInv
<1> QED BY <1>3, <1>4, <1>5, <1>6, <1>7, <1>8 DEF CliIInv

\* A plan is compared with what the service is like.
LEMMA PlansKeep ==
  ASSUME CliIInv, ServePlan, UNCHANGED <<cmd, at, target, seen, lost, code, changes>>
  PROVE  CliIInv'
<1>1. /\ request = "plan" /\ request # "none" /\ cmd.verb = "plan" /\ Answer(200, cmd.file.errors)
      /\ before' = service /\ UNCHANGED <<service, acted, quiet>>
  BY DEF ServePlan, CliIInv, RequestHolds
<1>2. /\ request' = "none" /\ (request = at \/ (at = "done" /\ lost)) /\ at # "begin"
      /\ request # at => answer' = Unanswered
      /\ request = at => answer'.failed = cmd.file.errors /\ answer'.rules = service.rules
  BY <1>1, Answered
<1>3. AtItsCall' /\ RequestHolds' /\ FileCodes' /\ DoctorHolds'
  BY <1>1, <1>2, ServedKeeps
<1>4. CliType'
  BY <1>1 DEF CliIInv, CliType
<1>5. ActHolds' /\ TargetHolds'
  BY <1>1, <1>2, CommandStays, ReachedStays DEF CliIInv, ActHolds, TargetHolds, NamedRule
<1>6. AnswerHolds'
  BY <1>1, <1>2 DEF AnswerHolds, Reads
<1>7. SeenHolds'
  BY <1>1, CommandStays DEF CliIInv, SeenHolds, ToldBy
<1>8. PlanHolds'
  BY <1>1, <1>2 DEF PlanHolds
<1>9. DoneHolds'
  BY <1>1 DEF CliIInv, ActHolds, DoneHolds, Acting, OfRule, OfGroup
<1> QED BY <1>3, <1>4, <1>5, <1>6, <1>7, <1>8, <1>9 DEF CliIInv

\* What has to be shown of a call that changes the service.
LEMMA ActKeeps ==
  ASSUME CliIInv, request = "act", NEW status, NEW failed, Answer(status, failed),
         UNCHANGED <<cmd, at, target, seen, lost, code, changes>>,
         CliType', DoneHolds', acted' \in {"no", "partly", "yes"},
         acted' = "partly" => Reached.kind = "group",
         status = 200 /\ (OfRule \/ failed = {}) <=> acted' = "yes" \/ (OfRule /\ acted' = "partly")
  PROVE  CliIInv'
<1>1. /\ request' = "none" /\ (request = at \/ (at = "done" /\ lost)) /\ at # "begin"
      /\ request # at => answer' = Unanswered
      /\ request = at => at # "done" /\ answer'.failed = failed /\ answer'.status = status
  BY Answered
<1>2. Acting /\ acted = "no"
  BY DEF CliIInv, RequestHolds, ActHolds
<1>3. AtItsCall' /\ RequestHolds' /\ FileCodes' /\ DoctorHolds'
  BY <1>1, ServedKeeps
<1>4. ActHolds'
  BY <1>1, <1>2, CommandStays, ReachedStays DEF CliIInv, ActHolds, AtItsCall, Reads
<1>5. TargetHolds'
  BY <1>1, CommandStays DEF CliIInv, TargetHolds, NamedRule
<1>6. AnswerHolds'
  BY <1>1, CommandStays DEF AnswerHolds, Reads
<1>7. SeenHolds'
  BY <1>2, CommandStays DEF CliIInv, SeenHolds, ToldBy
<1>8. PlanHolds'
  BY <1>2 DEF PlanHolds, Acting, OfRule, OfGroup
<1> QED BY <1>3, <1>4, <1>5, <1>6, <1>7, <1>8 DEF CliIInv

-----------------------------------------------------------------------------
States == {"running", "stopped", "failed"}

\* Rules with the states that some ids have now.
Restated(r, states) ==
  [id |-> r.id, name |-> r.name, group |-> r.group,
   state |-> IF r.id \in DOMAIN states THEN states[r.id] ELSE r.state]
RestatedAll(rules, states) == {Restated(r, states) : r \in rules}

\* The rules of some ids get their states, the others keep theirs.
LEMMA RestatedElements ==
  ASSUME NEW rules, NEW states
  PROVE  /\ \A r \in rules : Restated(r, states) \in RestatedAll(rules, states)
         /\ \A a \in RestatedAll(rules, states) : \E r \in rules : a = Restated(r, states)
BY DEF RestatedAll

\* The values of a function on a finite set are finitely many.
LEMMA FiniteImage ==
  ASSUME NEW S, IsFiniteSet(S), NEW h, DOMAIN h = S, h = [x \in S |-> h[x]]
  PROVE  IsFiniteSet({h[x] : x \in S})
<1>1. h \in [S -> {h[x] : x \in S}]
  OBVIOUS
<1>2. h \in Surjection(S, {h[x] : x \in S})
  BY <1>1, Fun_IsSurj
<1> QED BY <1>2, FS_Surjection

\* Rules that get their states by id keep one state for each.
LEMMA RestatedRules ==
  ASSUME NEW rules, rules \subseteq LiveRules, OneState(rules), 
         NEW states, \A i \in DOMAIN states : states[i] \in States
  PROVE  RestatedAll(rules, states) \subseteq LiveRules /\ OneState(RestatedAll(rules, states))
<1>1. \A r \in rules : Restated(r, states) \in LiveRules
  BY DEF Restated, LiveRules, States
<1>2. RestatedAll(rules, states) \subseteq LiveRules
  BY <1>1, RestatedElements
<1>3. IsFiniteSet(RestatedAll(rules, states))
  <2> DEFINE h == [r \in rules |-> Restated(r, states)]
  <2>1. IsFiniteSet({h[r] : r \in rules})
    BY FiniteImage DEF OneState
  <2>2. {h[r] : r \in rules} = RestatedAll(rules, states)
    BY DEF RestatedAll
  <2> QED BY <2>1, <2>2
<1>4. ASSUME NEW a \in RestatedAll(rules, states), NEW b \in RestatedAll(rules, states), a.id = b.id
      PROVE  a.state = b.state
  <2>1. PICK r \in rules : a = Restated(r, states)
    BY RestatedElements
  <2>2. PICK s \in rules : b = Restated(s, states)
    BY RestatedElements
  <2>3. r.id = s.id
    BY <1>4, <2>1, <2>2 DEF Restated
  <2>4. r.state = s.state
    BY <2>3 DEF OneState
  <2> QED BY <2>1, <2>2, <2>3, <2>4 DEF Restated
<1> QED BY <1>2, <1>3, <1>4 DEF OneState

\* The ids of a set have a state now.
OneFor(ids, state) == [i \in ids |-> state]

\* One state for some ids.
LEMMA SameIs ==
  ASSUME NEW ids, NEW state
  PROVE  DOMAIN OneFor(ids, state) = ids /\ \A i \in ids : OneFor(ids, state)[i] = state
BY DEF OneFor

\* To set a state is to give it to some ids.
LEMMA SetStateRestates ==
  ASSUME CliType, NEW ids, NEW state, SetState(ids, state)
  PROVE  service' = [service EXCEPT !.rules = RestatedAll(service.rules, OneFor(ids, state))]
<1>1. \A r \in service.rules :
        (IF r.id \in ids THEN [r EXCEPT !.state = state] ELSE r) = Restated(r, OneFor(ids, state))
  BY SameIs DEF CliType, LiveRules, Restated
<1> QED BY <1>1 DEF SetState, RestatedAll

\* The service with other states is a service.
LEMMA RestatedType ==
  ASSUME CliType, cmd' = cmd, changes' \in Nat, lost' \in BOOLEAN, quiet' \in BOOLEAN,
         NEW rules, rules \subseteq LiveRules, OneState(rules),
         service' = [service EXCEPT !.rules = rules]
  PROVE  CliType' /\ service'.rules = rules
BY DEF CliType

\* Rules that are restated are still those that a path leads to, or are not.
LEMMA RestatedReached ==
  ASSUME NEW rules, NEW states
  PROVE  /\ \A a \in ReachedRules(RestatedAll(rules, states)) :
              \E r \in ReachedRules(rules) : a = Restated(r, states)
         /\ \A r \in ReachedRules(rules) :
              Restated(r, states) \in ReachedRules(RestatedAll(rules, states))
<1> DEFINE There(r) == \/ Reached.kind = "rule" /\ r.id = Reached.name
                       \/ Reached.kind = "group" /\ r.group = Reached.name
<1>1. \A all : ReachedRules(all) = {r \in all : There(r)}
  BY DEF ReachedRules, InGroup
<1>2. \A r : There(Restated(r, states)) <=> There(r)
  BY DEF Restated
<1> HIDE DEF There
<1>3. ASSUME NEW a \in ReachedRules(RestatedAll(rules, states))
      PROVE  \E r \in ReachedRules(rules) : a = Restated(r, states)
  <2>1. PICK r \in rules : a = Restated(r, states)
    BY <1>1, RestatedElements
  <2> QED BY <1>1, <1>2, <2>1
<1>4. ASSUME NEW r \in ReachedRules(rules)
      PROVE  Restated(r, states) \in ReachedRules(RestatedAll(rules, states))
  BY <1>1, <1>2, RestatedElements
<1> QED BY <1>3, <1>4

\* The others stay what they are when only rules that a path leads to are
\* restated.
LEMMA OthersStay ==
  ASSUME NEW rules, rules \subseteq LiveRules, NEW states,
         \A i \in DOMAIN states : \E r \in ReachedRules(rules) : r.id = i
  PROVE  OtherRules(RestatedAll(rules, states)) = OtherRules(rules)
<1> DEFINE all == RestatedAll(rules, states)
<1>1. /\ \A a \in all : \E r \in rules : a = Restated(r, states)
      /\ \A r \in rules : Restated(r, states) \in all
  BY RestatedElements
<1>2. /\ \A a \in ReachedRules(all) : \E r \in ReachedRules(rules) : a = Restated(r, states)
      /\ \A r \in ReachedRules(rules) : Restated(r, states) \in ReachedRules(all)
  BY RestatedReached
<1>3. \A r \in rules : Restated(r, states).id = r.id
  BY DEF Restated
<1>4. \A r \in OtherRules(rules) : r \in rules /\ Restated(r, states) = r
  BY DEF OtherRules, Restated, LiveRules
<1>5. ReachedRules(rules) \subseteq rules /\ ReachedRules(all) \subseteq all
  BY DEF ReachedRules, InGroup
<1> HIDE DEF all
<1>6. ASSUME NEW r \in OtherRules(rules) PROVE r \in OtherRules(all)
  <2>1. r \in all /\ r \in rules
    BY <1>1, <1>4
  <2>2. \A a \in ReachedRules(all) : a.id # r.id
    BY <1>2, <1>3, <1>5 DEF OtherRules
  <2> QED BY <2>1, <2>2 DEF OtherRules
<1>7. ASSUME NEW a \in OtherRules(all) PROVE a \in OtherRules(rules)
  <2>1. PICK r \in rules : a = Restated(r, states)
    BY <1>1 DEF OtherRules
  <2>2. \A q \in ReachedRules(rules) : q.id # r.id
    BY <1>2, <1>3, <1>5, <2>1 DEF OtherRules
  <2> QED BY <1>4, <2>1, <2>2 DEF OtherRules
<1> QED BY <1>6, <1>7 DEF all

\* What is done is done when all that a path leads to has the state that was
\* asked for.
LEMMA ActIsDone ==
  ASSUME cmd' = cmd, target' = target, quiet' = TRUE, before' = service, OfRule \/ OfGroup,
         NEW rules, service'.rules = rules, OtherRules(rules) = OtherRules(service.rules),
         acted' = "yes" /\ (Starts \/ Stops) => ReachedRules(rules) # {},
         acted' = "yes" /\ Starts => \A r \in ReachedRules(rules) : r.state = "running",
         acted' = "yes" /\ Stops => \A r \in ReachedRules(rules) : r.state # "running"
  PROVE  DoneHolds'
<1>1. cmd.verb # "import"
  BY DEF OfRule, OfGroup
<1>2. /\ ReachedRules(service.rules)' = ReachedRules(rules)
      /\ ReachedRules(before.rules)' = ReachedRules(service.rules)
  BY ReachedStays DEF ReachedRules, InGroup
<1>3. /\ OtherRules(service.rules)' = OtherRules(rules)
      /\ OtherRules(before.rules)' = OtherRules(service.rules)
  BY <1>2 DEF OtherRules
<1>4. acted' = "yes" /\ Starts => (ReachedRules(service.rules) \subseteq Running(ReachedRules(service.rules)))'
  BY <1>2 DEF Running
<1>5. acted' = "yes" /\ Stops => (Running(ReachedRules(service.rules)) = {})'
  BY <1>2 DEF Running
<1> QED BY <1>1, <1>2, <1>3, <1>4, <1>5, ReachedStays DEF DoneHolds

\* A refusal changes nothing.
LEMMA RefusalsKeep ==
  ASSUME CliIInv, request = "act", Refuse, UNCHANGED <<cmd, at, target, seen, lost, code, changes>>
  PROVE  CliIInv'
<1>1. CliType' /\ acted' = "no" /\ acted = "no" /\ Answer(400, {})
  BY DEF CliIInv, ActHolds, Refuse, CliType
<1>2. DoneHolds'
  BY <1>1 DEF DoneHolds
<1> QED BY <1>1, <1>2, ActKeeps

\* A path that leads nowhere is refused.
LEMMA NothingKeeps ==
  ASSUME CliIInv, ServeNothing, UNCHANGED <<cmd, at, target, seen, lost, code, changes>>
  PROVE  CliIInv'
BY RefusalsKeep DEF ServeNothing

\* What a restatement of rules that a path leads to comes to.
LEMMA RestatingKeeps ==
  ASSUME CliIInv, request = "act", OfRule \/ OfGroup,
         UNCHANGED <<cmd, at, target, seen, lost, code, changes>>,
         NEW states, \A i \in DOMAIN states : states[i] \in States,
         \A i \in DOMAIN states : \E r \in ReachedRules(service.rules) : r.id = i,
         service' = [service EXCEPT !.rules = RestatedAll(service.rules, states)],
         NEW how \in {"yes", "partly"}, how = "partly" => Reached.kind = "group",
         Acted(how), NEW failed, Answer(200, failed),
         OfRule \/ failed = {} <=> how = "yes" \/ OfRule,
         ReachedRules(service.rules) # {},
         how = "yes" /\ Starts =>
           \A r \in ReachedRules(service.rules) : Restated(r, states).state = "running",
         how = "yes" /\ Stops =>
           \A r \in ReachedRules(service.rules) : Restated(r, states).state # "running"
  PROVE  CliIInv'
<1> DEFINE rules == RestatedAll(service.rules, states)
<1>1. CliType /\ acted = "no" /\ acted' = how /\ quiet' = TRUE /\ before' = service
  BY DEF CliIInv, ActHolds, Acted
<1>2. rules \subseteq LiveRules /\ OneState(rules) /\ service.rules \subseteq LiveRules
  BY <1>1, RestatedRules DEF CliType
<1>3. OtherRules(rules) = OtherRules(service.rules)
  BY <1>2, OthersStay
<1>4. /\ \A a \in ReachedRules(rules) : \E r \in ReachedRules(service.rules) : a = Restated(r, states)
      /\ \A r \in ReachedRules(service.rules) : Restated(r, states) \in ReachedRules(rules)
  BY RestatedReached
<1>5. /\ ReachedRules(rules) # {}
      /\ how = "yes" /\ Starts => \A a \in ReachedRules(rules) : a.state = "running"
      /\ how = "yes" /\ Stops => \A a \in ReachedRules(rules) : a.state # "running"
  BY <1>4
<1> HIDE DEF rules
<1>6. CliType' /\ service'.rules = rules
  <2>1. service' = [service EXCEPT !.rules = rules]
    BY DEF rules
  <2> QED BY <1>1, <1>2, <2>1, RestatedType DEF CliType
<1>7. DoneHolds'
  BY <1>1, <1>3, <1>5, <1>6, ActIsDone
<1> QED BY <1>1, <1>6, <1>7, ActKeeps

\* A start or a stop of a rule does what the command says.
LEMMA RulesKeep ==
  ASSUME CliIInv, ServeRule, UNCHANGED <<cmd, at, target, seen, lost, code, changes>>
  PROVE  CliIInv'
<1> DEFINE id == Reached.name
           of == ReachedRules(service.rules)
           running == of \subseteq Running(service.rules)
<1>1. request = "act" /\ OfRule /\ ~OfGroup /\ acted = "no" /\ CliType
  BY DEF ServeRule, CliIInv, ActHolds, OfRule, OfGroup
<1>2. of = {r \in service.rules : r.id = id}
  BY DEF ServeRule, ReachedRules
<1>3. ASSUME SetState({id}, "failed"), Answer(500, {}), UNCHANGED <<acted, before, quiet>>
      PROVE  CliIInv'
  <2> DEFINE states == OneFor({id}, "failed")
             rules == RestatedAll(service.rules, states)
  <2>1. service' = [service EXCEPT !.rules = rules]
    BY <1>1, <1>3, SetStateRestates
  <2>2. \A i \in DOMAIN states : states[i] \in States
    BY SameIs DEF States
  <2> HIDE DEF states
  <2>3. rules \subseteq LiveRules /\ OneState(rules)
    BY <1>1, <2>2, RestatedRules DEF CliType
  <2> HIDE DEF rules
  <2>4. CliType'
    BY <1>1, <1>3, <2>1, <2>3, RestatedType DEF CliType
  <2>5. DoneHolds'
    BY <1>1, <1>3 DEF DoneHolds
  <2> QED BY <1>1, <1>3, <2>4, <2>5, ActKeeps
<1>4. ASSUME of # {}, Answer(200, {}), Acted("yes"), NEW state \in {"running", "stopped"},
             Starts => state = "running", Stops => state = "stopped", SetState({id}, state)
      PROVE  CliIInv'
  <2> DEFINE states == OneFor({id}, state)
  <2>1. service' = [service EXCEPT !.rules = RestatedAll(service.rules, states)]
    BY <1>1, <1>4, SetStateRestates
  <2>2. DOMAIN states = {id} /\ states[id] = state
    BY SameIs
  <2> HIDE DEF states, id, of
  <2>3. \A i \in DOMAIN states : states[i] \in States /\ \E r \in of : r.id = i
    BY <1>2, <1>4, <2>2 DEF States
  <2>4. \A r \in of : Restated(r, states).state = state
    BY <1>2, <2>2 DEF Restated
  <2> QED BY <1>1, <1>4, <2>1, <2>3, <2>4, RestatingKeeps DEF of
<1>5. ASSUME of # {}, Answer(200, {}), Acted("yes"), ~Starts, Stops => ~running, UNCHANGED service
      PROVE  CliIInv'
  <2>1. acted' = "yes" /\ quiet' = TRUE /\ before' = service
    BY <1>5 DEF Acted
  <2>2. CliType'
    BY <1>1, <1>5, <2>1 DEF CliType
  <2>3. Stops => \A r \in of : r.state # "running"
    BY <1>1, <1>2, <1>5 DEF Running, CliType, OneState
  <2>4. DoneHolds'
    BY <1>1, <1>5, <2>1, <2>3, ActIsDone
  <2> QED BY <1>1, <1>5, <2>1, <2>2, <2>4, ActKeeps
<1>6. Starts => ~Stops
  BY DEF Starts, Stops
<1>7. \/ Refuse
      \/ SetState({id}, "failed") /\ Answer(500, {}) /\ UNCHANGED <<acted, before, quiet>>
      \/ /\ of # {} /\ Answer(200, {}) /\ Acted("yes")
         /\ \/ Starts /\ SetState({id}, "running")
            \/ ~Starts /\ Stops /\ SetState({id}, "stopped")
            \/ ~Starts /\ (Stops => ~running) /\ UNCHANGED service
  BY <1>6 DEF ServeRule
<1> QED BY <1>1, <1>3, <1>4, <1>5, <1>6, <1>7, RefusalsKeep

\* So does that of a group.
LEMMA GroupsKeep ==
  ASSUME CliIInv, ServeGroup, UNCHANGED <<cmd, at, target, seen, lost, code, changes>>
  PROVE  CliIInv'
<1> DEFINE of == ReachedRules(service.rules)
           Ids(rules) == {r.id : r \in rules}
<1>1. /\ request = "act" /\ (OfRule \/ OfGroup) /\ Reached.kind = "group" /\ acted = "no" /\ CliType
      /\ Starts => ~Stops
  BY DEF ServeGroup, CliIInv, ActHolds, Starts, Stops
<1>2. ASSUME of # {}, Stops, SetState(Ids(Running(of)), "stopped"), Answer(200, {}), Acted("yes")
      PROVE  CliIInv'
  <2> DEFINE ids == Ids(Running(of))
             states == OneFor(ids, "stopped")
  <2>1. service' = [service EXCEPT !.rules = RestatedAll(service.rules, states)]
    BY <1>1, <1>2, SetStateRestates
  <2>2. DOMAIN states = ids /\ \A i \in ids : states[i] = "stopped"
    BY SameIs
  <2>3. /\ \A i \in ids : \E r \in of : r.id = i
        /\ \A r \in of : r.state = "running" => r.id \in ids
    BY DEF Running
  <2> HIDE DEF states, ids
  <2>4. \A i \in DOMAIN states : states[i] \in States /\ \E r \in of : r.id = i
    BY <2>2, <2>3 DEF States
  <2>5. \A r \in of : Restated(r, states).state # "running"
    BY <2>2, <2>3 DEF Restated
  <2> QED BY <1>1, <1>2, <2>1, <2>4, <2>5, RestatingKeeps
<1>3. ASSUME of # {}, Starts, NEW failed \in SUBSET Ids(of \ Running(of)),
             service' = [service EXCEPT !.rules =
               {IF r.id \notin Ids(of) THEN r
                ELSE [r EXCEPT !.state = IF r.id \in failed THEN "failed" ELSE "running"] : r \in @}],
             Answer(200, failed), Acted(IF failed = {} THEN "yes" ELSE "partly")
      PROVE  CliIInv'
  <2> DEFINE ids == Ids(of)
             states == [i \in ids |-> IF i \in failed THEN "failed" ELSE "running"]
             how == IF failed = {} THEN "yes" ELSE "partly"
  <2>1. DOMAIN states = ids /\ \A i \in ids : states[i] = IF i \in failed THEN "failed" ELSE "running"
    OBVIOUS
  <2>2. service' = [service EXCEPT !.rules = RestatedAll(service.rules, states)]
    <3> HIDE DEF states, ids
    <3>1. ASSUME NEW r \in service.rules
          PROVE  (IF r.id \notin ids THEN r
                  ELSE [r EXCEPT !.state = IF r.id \in failed THEN "failed" ELSE "running"])
                 = Restated(r, states)
      BY <1>1, <2>1 DEF CliType, LiveRules, Restated
    <3>2. {IF r.id \notin ids THEN r
           ELSE [r EXCEPT !.state = IF r.id \in failed THEN "failed" ELSE "running"] : r \in service.rules}
          = RestatedAll(service.rules, states)
      BY <3>1 DEF RestatedAll
    <3> QED BY <1>3, <3>2 DEF ids
  <2>3. (\A i \in ids : \E r \in of : r.id = i) /\ (\A r \in of : r.id \in ids)
    OBVIOUS
  <2> HIDE DEF states, ids
  <2>4. \A i \in DOMAIN states : states[i] \in States /\ \E r \in of : r.id = i
    BY <2>1, <2>3 DEF States
  <2>5. failed = {} => \A r \in of : Restated(r, states).state = "running"
    BY <2>1, <2>3 DEF Restated
  <2>6. /\ how \in {"yes", "partly"} /\ (how = "yes" <=> failed = {})
        /\ OfRule \/ failed = {} <=> how = "yes" \/ OfRule
    OBVIOUS
  <2>7. Acted(how)
    BY <1>3
  <2> HIDE DEF how
  <2> QED BY <1>1, <1>3, <2>2, <2>4, <2>5, <2>6, <2>7, RestatingKeeps
<1>4. request = "act"
  BY <1>1
<1> QED BY <1>2, <1>3, <1>4, RefusalsKeep DEF ServeGroup

-----------------------------------------------------------------------------
\* A rule of a file as it is imported, with an id and a state.
ImportedRule(r, ids, failed) ==
  [id |-> ids[r], name |-> r.name, group |-> r.group,
   state |-> IF ids[r] \in failed THEN "failed" ELSE "running"]
ImportedRules(rules, ids, failed) == {ImportedRule(r, ids, failed) : r \in rules}

\* The rules that an import adds.
LEMMA ImportedElements ==
  ASSUME NEW rules, NEW ids, NEW failed
  PROVE  /\ \A r \in rules : ImportedRule(r, ids, failed) \in ImportedRules(rules, ids, failed)
         /\ \A a \in ImportedRules(rules, ids, failed) :
              \E r \in rules : a = ImportedRule(r, ids, failed)
BY DEF ImportedRules

\* They are rules of their service, and those of one id have one state.
LEMMA ImportedTypes ==
  ASSUME NEW rules, rules \subseteq FileRules, IsFiniteSet(rules), NEW failed,
         NEW ids, \A r \in rules : ids[r] \in STRING
  PROVE  /\ ImportedRules(rules, ids, failed) \subseteq LiveRules
         /\ OneState(ImportedRules(rules, ids, failed))
<1>1. \A r \in rules : ImportedRule(r, ids, failed) \in LiveRules
  BY DEF ImportedRule, LiveRules, FileRules
<1>2. ImportedRules(rules, ids, failed) \subseteq LiveRules
  BY <1>1, ImportedElements
<1>3. IsFiniteSet(ImportedRules(rules, ids, failed))
  <2> DEFINE h == [r \in rules |-> ImportedRule(r, ids, failed)]
  <2>1. IsFiniteSet({h[r] : r \in rules})
    BY FiniteImage
  <2>2. {h[r] : r \in rules} = ImportedRules(rules, ids, failed)
    BY DEF ImportedRules
  <2> QED BY <2>1, <2>2
<1>4. \A a, b \in ImportedRules(rules, ids, failed) : a.id = b.id => a.state = b.state
  BY ImportedElements DEF ImportedRule
<1> QED BY <1>2, <1>3, <1>4 DEF OneState

\* An import adds the rules of its file.
LEMMA ImportsAre ==
  ASSUME NEW ids, NEW added \in Imported(ids)
  PROVE  \E failed : added = ImportedRules(cmd.file.rules, ids, failed)
BY DEF Imported, ImportedRules, ImportedRule

\* It does what the command says.
LEMMA ImportsKeep ==
  ASSUME CliIInv, ServeImport, UNCHANGED <<cmd, at, target, seen, lost, code, changes>>
  PROVE  CliIInv'
<1> DEFINE rules == cmd.file.rules
<1>1. /\ request = "act" /\ cmd.verb = "import" /\ ~OfRule /\ ~OfGroup /\ ~Starts /\ ~Stops
      /\ ~Misused /\ acted = "no" /\ CliType
  BY DEF ServeImport, CliIInv, ActHolds, RequestHolds, OfRule, OfGroup, Starts, Stops
<1>2. rules \subseteq FileRules /\ IsFiniteSet(rules)
  BY <1>1, CommandsHaveVerbs, CliAssumption DEF CliType
<1>3. CASE Refuse
  <2>1. CliType' /\ acted' = acted /\ Answer(400, {})
    BY <1>1, <1>3 DEF Refuse, CliType
  <2>2. DoneHolds'
    BY <1>1, <2>1 DEF DoneHolds
  <2> QED BY <1>1, <2>1, <2>2, ActKeeps
<1>4. ASSUME Has("replace"), NEW added \in Imported([r \in rules |-> r.id]),
             service' = [service EXCEPT !.rules = added], Answer(200, {}), Acted("yes")
      PROVE  CliIInv'
  <2> DEFINE ids == [r \in rules |-> r.id]
  <2>1. acted' = "yes" /\ quiet' = TRUE
    BY <1>4 DEF Acted
  <2>2. PICK failed : added = ImportedRules(rules, ids, failed)
    BY <1>4, ImportsAre
  <2>3. \A r \in rules : ids[r] = r.id /\ ids[r] \in STRING
    BY <1>2 DEF FileRules
  <2> HIDE DEF ids
  <2>4. added \subseteq LiveRules /\ OneState(added)
    <3> HIDE DEF rules
    <3> QED BY <1>2, <2>2, <2>3, ImportedTypes
  <2>5. CliType' /\ service'.rules = added
    BY <1>1, <1>4, <2>1, <2>4, RestatedType DEF CliType
  <2>6. Definition(added) = rules
    <3>1. \A r \in rules :
            LET a == ImportedRule(r, ids, failed) IN [id |-> a.id, name |-> a.name, group |-> a.group] = r
      BY <1>2, <2>3 DEF ImportedRule, FileRules
    <3>2. ASSUME NEW d \in Definition(added) PROVE d \in rules
      <4>1. PICK a \in added : d = [id |-> a.id, name |-> a.name, group |-> a.group]
        BY DEF Definition
      <4>2. PICK r \in rules : a = ImportedRule(r, ids, failed)
        BY <2>2, ImportedElements
      <4> QED BY <3>1, <4>1, <4>2
    <3>3. ASSUME NEW r \in rules PROVE r \in Definition(added)
      BY <2>2, <3>1, ImportedElements DEF Definition
    <3> QED BY <3>2, <3>3
  <2>7. Has("yes")
    BY <1>1, <1>4 DEF Misused
  <2>8. DoneHolds'
    BY <1>1, <2>5, <2>6, <2>7, CommandStays, ReachedStays DEF DoneHolds, Has
  <2> QED BY <1>1, <1>4, <2>1, <2>5, <2>8, ActKeeps
<1>5. ASSUME ~Has("replace"), NEW ids \in MergedIds, NEW added \in Imported(ids),
             service' = [service EXCEPT !.rules = @ \union added], Answer(200, {}), Acted("yes")
      PROVE  CliIInv'
  <2>1. acted' = "yes" /\ quiet' = TRUE /\ before' = service
    BY <1>5 DEF Acted
  <2>2. PICK failed : added = ImportedRules(rules, ids, failed)
    BY <1>5, ImportsAre
  <2>3. \A r \in rules : ids[r] \in STRING /\ \A s \in service.rules : ids[r] # s.id
    <3>1. \A r \in rules : r.id \in STRING
      BY <1>2 DEF FileRules
    <3>2. NewIds \subseteq STRING
      BY CliAssumption
    <3>3. \A r \in rules : ids[r] \in {s.id : s \in rules} \union NewIds
      BY DEF MergedIds
    <3>4. \A r \in rules : ids[r] \in STRING
      BY <3>1, <3>2, <3>3
    <3>5. \A r \in rules : ids[r] \notin {s.id : s \in service.rules}
      BY DEF MergedIds
    <3> QED BY <3>4, <3>5
  <2>4. added \subseteq LiveRules /\ OneState(added)
    <3> HIDE DEF rules
    <3> QED BY <1>2, <2>2, <2>3, ImportedTypes
  <2>5. \A a \in added : \A s \in service.rules : a.id # s.id
    <3>1. ASSUME NEW a \in added PROVE \A s \in service.rules : a.id # s.id
      <4>1. PICK r \in rules : a = ImportedRule(r, ids, failed)
        BY <2>2, ImportedElements
      <4> QED BY <2>3, <4>1 DEF ImportedRule
    <3> QED BY <3>1
  <2>6. service.rules \union added \subseteq LiveRules /\ OneState(service.rules \union added)
    <3>1. IsFiniteSet(service.rules \union added)
      BY <1>1, <2>4, FS_Union DEF CliType, OneState
    <3> QED BY <1>1, <2>4, <2>5, <3>1 DEF CliType, OneState
  <2>7. CliType' /\ service'.rules = service.rules \union added
    BY <1>1, <1>5, <2>1, <2>6, RestatedType DEF CliType
  <2>8. DoneHolds'
    BY <1>1, <1>5, <2>1, <2>7, CommandStays, ReachedStays DEF DoneHolds, Has
  <2> QED BY <1>1, <1>5, <2>1, <2>7, <2>8, ActKeeps
<1> QED BY <1>3, <1>4, <1>5 DEF ServeImport

\* The service does what it was asked.
LEMMA ServeKeeps ==
  ASSUME CliIInv, Serve
  PROVE  CliIInv'
BY ReadsKeep, PlansKeep, RulesKeep, GroupsKeep, NothingKeeps, ImportsKeep DEF Serve

-----------------------------------------------------------------------------
\* What has to be shown of what others do.
LEMMA OthersKeep ==
  ASSUME CliIInv, at # "begin", changes \in Nat, changes' = changes + 1, quiet' = FALSE,
         UNCHANGED <<cmd, at, target, request, answer, seen, acted, before, lost, code>>,
         NEW rules, rules \subseteq LiveRules, OneState(rules),
         service' = [service EXCEPT !.rules = rules]
  PROVE  CliIInv'
<1>1. CliType' /\ changes' # 0
  <2>1. changes' \in Nat /\ changes' # 0
    OBVIOUS
  <2>2. CliType /\ lost' \in BOOLEAN /\ quiet' \in BOOLEAN
    BY DEF CliIInv, CliType
  <2> QED BY <2>1, <2>2, RestatedType
<1>2. AtItsCall' /\ RequestHolds' /\ ActHolds' /\ FileCodes'
  BY CommandStays, ReachedStays DEF CliIInv, AtItsCall, RequestHolds, ActHolds, FileCodes
<1>3. TargetHolds' /\ AnswerHolds'
  BY <1>1, CommandStays DEF CliIInv, TargetHolds, NamedRule, AnswerHolds
<1>4. SeenHolds'
  BY <1>1, CommandStays DEF CliIInv, SeenHolds
<1>5. DoctorHolds'
  <2>1. DoctorCode(seen)' = DoctorCode(seen)
    BY DEF DoctorCode, LiveChecks, ReportCode, HealthChecks, Has
  <2> QED BY <2>1 DEF CliIInv, DoctorHolds
<1>6. PlanHolds'
  BY CommandStays DEF CliIInv, PlanHolds, PlanExitCode, HasDrift, Definition, Has
<1>7. DoneHolds'
  BY DEF DoneHolds
<1> QED BY <1>1, <1>2, <1>3, <1>4, <1>5, <1>6, <1>7 DEF CliIInv

\* Others change the service, but not what was read of it.
LEMMA ChangeKeeps ==
  ASSUME CliIInv, Change
  PROVE  CliIInv'
<1>1. /\ at # "begin" /\ changes \in Nat /\ changes' = changes + 1 /\ quiet' = FALSE
      /\ UNCHANGED <<cmd, at, target, request, answer, seen, acted, before, lost, code>>
      /\ CliType
  BY DEF Change, CliIInv, CliType
<1>2. ASSUME NEW r \in service.rules,
             service' = [service EXCEPT !.rules =
               {IF s.id = r.id THEN [s EXCEPT !.state = "stopped"] ELSE s : s \in @ \ {r}}]
      PROVE  CliIInv'
  <2> DEFINE states == OneFor({r.id}, "stopped")
             left == service.rules \ {r}
             rules == RestatedAll(left, states)
  <2>1. DOMAIN states = {r.id} /\ \A i \in {r.id} : states[i] = "stopped"
    BY SameIs
  <2> HIDE DEF states
  <2>2. left \subseteq LiveRules /\ OneState(left)
    BY <1>1, FS_Subset DEF CliType, OneState
  <2>3. service' = [service EXCEPT !.rules = rules]
    <3>1. ASSUME NEW s \in left
          PROVE  (IF s.id = r.id THEN [s EXCEPT !.state = "stopped"] ELSE s) = Restated(s, states)
      BY <2>1, <2>2 DEF LiveRules, Restated
    <3>2. {IF s.id = r.id THEN [s EXCEPT !.state = "stopped"] ELSE s : s \in left} = rules
      BY <3>1 DEF RestatedAll
    <3> QED BY <1>2, <3>2
  <2> HIDE DEF left
  <2>4. rules \subseteq LiveRules /\ OneState(rules)
    BY <2>1, <2>2, RestatedRules DEF States
  <2> HIDE DEF rules
  <2> QED BY <1>1, <2>3, <2>4, OthersKeep
<1>3. ASSUME NEW r \in service.rules, NEW name \in CliArgs,
             service' = [service EXCEPT !.rules = (@ \ {r}) \union {[r EXCEPT !.name = name]}]
      PROVE  CliIInv'
  <2> DEFINE renamed == [r EXCEPT !.name = name]
             rules == (service.rules \ {r}) \union {renamed}
  <2>1. renamed \in LiveRules /\ renamed.id = r.id /\ renamed.state = r.state
    <3>1. name \in STRING /\ r \in LiveRules
      BY <1>1, CliAssumption DEF CliType
    <3> QED BY <3>1 DEF LiveRules
  <2> HIDE DEF renamed
  <2>2. IsFiniteSet(rules)
    <3>1. IsFiniteSet(service.rules \ {r}) /\ IsFiniteSet({renamed})
      BY <1>1, FS_Subset, FS_Singleton DEF CliType, OneState
    <3> QED BY <3>1, FS_Union
  <2>3. rules \subseteq LiveRules /\ OneState(rules)
    BY <1>1, <2>1, <2>2 DEF CliType, OneState
  <2>4. service' = [service EXCEPT !.rules = rules]
    BY <1>3 DEF renamed
  <2> HIDE DEF rules
  <2> QED BY <1>1, <2>3, <2>4, OthersKeep
<1>4. ASSUME NEW r \in service.rules, NEW state \in {"running", "stopped"}, SetState({r.id}, state)
      PROVE  CliIInv'
  <2> DEFINE states == OneFor({r.id}, state)
             rules == RestatedAll(service.rules, states)
  <2>1. service' = [service EXCEPT !.rules = rules]
    BY <1>1, <1>4, SetStateRestates
  <2>2. \A i \in DOMAIN states : states[i] \in States
    BY SameIs DEF States
  <2> HIDE DEF states
  <2>3. rules \subseteq LiveRules /\ OneState(rules)
    BY <1>1, <2>2, RestatedRules DEF CliType
  <2> HIDE DEF rules
  <2> QED BY <1>1, <2>1, <2>3, OthersKeep
<1> QED BY <1>2, <1>3, <1>4 DEF Change

\* Every step of the command, of the service and of others keeps it.
LEMMA CliGoesOn == CliIInv /\ CliNext => CliIInv'
BY BeginKeeps, ReceiveKeeps, LoseKeeps, ServeKeeps, ChangeKeeps DEF CliNext

\* It is about the variables of the command alone.
LEMMA CliStays == CliIInv /\ UNCHANGED cliVars => CliIInv'
<1> SUFFICES ASSUME CliIInv, UNCHANGED cliVars PROVE CliIInv'
  OBVIOUS
<1>1. UNCHANGED <<service, cmd, at, target, request, answer, seen, acted, before, lost, code,
                  changes, quiet>>
  BY DEF cliVars
<1>2. CliType' /\ AtItsCall' /\ RequestHolds' /\ ActHolds' /\ FileCodes'
  BY <1>1, CommandStays, ReachedStays DEF CliIInv, CliType, AtItsCall, RequestHolds, ActHolds, FileCodes
<1>3. TargetHolds' /\ AnswerHolds' /\ SeenHolds'
  BY <1>1, CommandStays DEF CliIInv, TargetHolds, NamedRule, AnswerHolds, SeenHolds, ToldBy
<1>4. DoctorHolds'
  <2>1. DoctorCode(seen)' = DoctorCode(seen)
    BY <1>1 DEF DoctorCode, LiveChecks, ReportCode, HealthChecks, Has
  <2> QED BY <1>1, <2>1 DEF CliIInv, DoctorHolds
<1>5. PlanHolds'
  BY <1>1, CommandStays DEF CliIInv, PlanHolds, PlanExitCode, HasDrift, Definition, Has
<1>6. DoneHolds'
  BY <1>1, DoneStays DEF CliIInv
<1> QED BY <1>2, <1>3, <1>4, <1>5, <1>6 DEF CliIInv

\* It holds at first.
LEMMA CliBegins == CliInit => CliIInv
<1> SUFFICES ASSUME CliInit PROVE CliIInv
  OBVIOUS
<1>1. service \in Services /\ cmd \in Commands /\ NothingYet
  BY DEF CliInit
<1>2. CliType
  BY <1>1, CliAssumption DEF CliType, NothingYet
<1>3. AtItsCall /\ RequestHolds /\ ActHolds /\ TargetHolds /\ AnswerHolds
  BY <1>1 DEF NothingYet, AtItsCall, RequestHolds, ActHolds, TargetHolds, AnswerHolds, Reads
<1>4. SeenHolds /\ DoctorHolds /\ PlanHolds /\ FileCodes /\ DoneHolds
  BY <1>1 DEF NothingYet, SeenHolds, DoctorHolds, PlanHolds, FileCodes, DoneHolds, Reads, Unread
<1> QED BY <1>2, <1>3, <1>4 DEF CliIInv

\* There is a service and a command to be idle with.
LEMMA ThereAreCommands ==
  /\ \E s \in Services : TRUE
  /\ \E c \in Commands : c.verb = "groupList"
<1>1. [verb |-> "groupList", arg |-> NoArg, opts |-> {}, file |-> SomeFile] \in
        Command({"groupList"}, {NoArg}, {{}}, {SomeFile})
  BY DEF Command
<1>2. [verb |-> "groupList", arg |-> NoArg, opts |-> {}, file |-> SomeFile] \in Commands
  BY <1>1 DEF Commands, GroupCommands
<1> QED BY <1>2, CliAssumption

-----------------------------------------------------------------------------
\* What the doctor concludes from the answers it got.
LEMMA ChecksFind ==
  ASSUME NEW read, read["runtime"].ok, read["status"].ok, read["export"].ok
  PROVE  /\ "error" \in LiveChecks(read) <=> \E r \in read["status"].rules : r.state = "failed"
         /\ "warning" \in LiveChecks(read) <=>
              \/ read["runtime"].version = "other" \/ read["runtime"].recovery
              \/ read["status"].rules = {} \/ \E r \in read["status"].rules : r.state = "stopped"
<1> DEFINE rules == read["status"].rules
<1>1. /\ "error" \in HealthChecks(rules) <=> \E r \in rules : r.state = "failed"
      /\ "warning" \in HealthChecks(rules) <=> rules = {} \/ \E r \in rules : r.state = "stopped"
  BY DEF HealthChecks
<1> QED BY <1>1 DEF LiveChecks

\* The doctor's verdict is that of the service.
LEMMA DoctorsAreTrue ==
  ASSUME CliIInv, cmd.verb = "doctor", at = "done"
  PROVE  /\ code \in {0, 1}
         /\ lost => code = 1
         /\ ~lost /\ changes = 0 => (code = 1) = (Unwell \/ (Has("strict") /\ Uneasy))
         /\ code = 0 => \A r \in seen["status"].rules : r.state # "failed"
<1>1. lost => code = 1
  BY DEF CliIInv, DoctorHolds
<1>2. ASSUME ~lost
      PROVE  /\ code = DoctorCode(seen)
             /\ seen["runtime"].ok /\ seen["status"].ok /\ seen["export"].ok
  BY <1>2 DEF CliIInv, DoctorHolds
<1>3. ASSUME ~lost
      PROVE  /\ code \in {0, 1}
             /\ code = 1 <=> \/ \E r \in seen["status"].rules : r.state = "failed"
                             \/ /\ Has("strict")
                                /\ \/ seen["runtime"].version = "other" \/ seen["runtime"].recovery
                                   \/ seen["status"].rules = {}
                                   \/ \E r \in seen["status"].rules : r.state = "stopped"
  BY <1>2, <1>3, ChecksFind DEF DoctorCode, ReportCode
<1>4. ASSUME ~lost, changes = 0 PROVE ToldBy(seen["status"]) /\ ToldBy(seen["runtime"])
  BY <1>2, <1>4 DEF CliIInv, SeenHolds, Reads, Acting, OfRule, OfGroup
<1> QED BY <1>1, <1>3, <1>4 DEF ToldBy, Unwell, Uneasy

\* A drift is one of the service.
LEMMA PlansAreTrue ==
  ASSUME CliIInv, cmd.verb = "plan", at = "done", ~lost, before # Unread
  PROVE  /\ (code = 1) = ("server" \in cmd.file.errors)
         /\ code = 4 => HasDrift(before.rules, cmd.file)
         /\ code = 0 /\ Has("failOnDrift") => ~HasDrift(before.rules, cmd.file)
<1>1. code = PlanExitCode(HasDrift(before.rules, cmd.file), cmd.file.errors # {}) /\ ~Misused
  BY DEF CliIInv, PlanHolds
<1>2. cmd.file.errors \subseteq {"field", "binding", "server"}
  BY CommandsHaveVerbs, CliAssumption DEF CliIInv, CliType
<1>3. cmd.file.errors \intersect {"field", "binding"} = {}
  BY <1>1 DEF Misused, Loads, Valid
<1>4. cmd.file.errors # {} <=> "server" \in cmd.file.errors
  BY <1>2, <1>3
<1> QED BY <1>1, <1>4 DEF PlanExitCode

\* The counts of a list are those of the service.
LEMMA ListsAreTrue ==
  ASSUME CliIInv, cmd.verb = "groupList", code = 0, NEW r \in seen["forwards"].rules
  PROVE  /\ GroupCounts(r.group).running \in 0..GroupCounts(r.group).total
         /\ changes = 0 =>
              GroupCounts(r.group).running = Cardinality(Running(InGroup(service.rules, r.group)))
<1> DEFINE listed == InGroup(seen["forwards"].rules, r.group)
           ids == {s.id : s \in Running(seen["status"].rules)}
           shown == {s \in listed : s.id \in ids}
<1>1. GroupCounts(r.group) = [total |-> Cardinality(listed), running |-> Cardinality(shown)]
  BY DEF GroupCounts
<1>2. seen["forwards"].ok /\ seen["status"].ok
  BY DEF CliIInv, SeenHolds
<1>3. IsFiniteSet(seen["forwards"].rules)
  BY <1>2 DEF CliIInv, SeenHolds, OneState, Reads
<1>4. IsFiniteSet(listed)
  BY <1>3, FS_Subset DEF InGroup
<1>5. Cardinality(shown) \in 0..Cardinality(listed)
  <2>1. IsFiniteSet(shown) /\ Cardinality(shown) <= Cardinality(listed)
    BY <1>4, FS_Subset
  <2>2. Cardinality(shown) \in Nat /\ Cardinality(listed) \in Nat
    BY <1>4, <2>1, FS_CardinalityType
  <2> QED BY <2>1, <2>2
<1>6. ASSUME changes = 0 PROVE shown = Running(InGroup(service.rules, r.group))
  <2>1. seen["forwards"].rules = service.rules /\ seen["status"].rules = service.rules
    BY <1>2, <1>6 DEF CliIInv, SeenHolds, ToldBy, Reads, Acting, OfRule, OfGroup
  <2>2. \A s, t \in service.rules : s.id = t.id => s.state = t.state
    BY DEF CliIInv, CliType, OneState
  <2>3. \A s \in service.rules : s.id \in ids <=> s.state = "running"
    BY <2>1, <2>2 DEF Running
  <2> HIDE DEF ids
  <2> QED BY <2>1, <2>3 DEF Running, InGroup
<1> HIDE DEF shown, listed
<1> QED BY <1>1, <1>5, <1>6

\* validate and config doctor judge a file alike.
LEMMA FilesAreJudgedAlike ==
  ASSUME CliIInv, at = "done", cmd.verb \in {"validate", "configDoctor"}, ~Has("strict")
  PROVE  (code = 0) = Loads(cmd.file)
<1>1. CASE cmd.verb = "validate"
  BY <1>1 DEF CliIInv, FileCodes, ValidateCode, Loads
<1>2. CASE cmd.verb = "configDoctor"
  <2>1. code = ReportCode(ConfigChecks(cmd.file), Has("strict"))
    BY <1>2 DEF CliIInv, FileCodes, ConfigDoctorCode
  <2>2. cmd.file.rules = {} => Valid(cmd.file)
    BY <1>2, CommandsHaveVerbs, CliAssumption DEF CliIInv, CliType, Valid
  <2>3. "error" \in ConfigChecks(cmd.file) <=> ~Loads(cmd.file)
    BY <2>2 DEF ConfigChecks, Loads
  <2>4. code = 0 <=> "error" \notin ConfigChecks(cmd.file)
    BY <2>1 DEF ReportCode
  <2> QED BY <2>3, <2>4 DEF Loads
<1> QED BY <1>1, <1>2

\* The invariant gives the property.
LEMMA CommandsAreTruthful == CliIInv => CommandsTellTheTruth
<1> SUFFICES ASSUME CliIInv PROVE CommandsTellTheTruth
  OBVIOUS
<1>1. ExitCodesTell
  BY DEF CliIInv, ActHolds, ExitCodesTell, Acting
<1>2. OnlyTheNamedRule
  BY DEF CliIInv, TargetHolds, OnlyTheNamedRule, NamedRule
<1>3. DoneIsDone
  BY DEF CliIInv, DoneHolds, DoneIsDone
<1>4. ReportsAreTrue
  <2>1. (cmd.verb = "doctor" /\ at = "done") =>
          /\ code \in {0, 1}
          /\ lost => code = 1
          /\ ~lost /\ changes = 0 => (code = 1) = (Unwell \/ (Has("strict") /\ Uneasy))
          /\ code = 0 => \A r \in seen["status"].rules : r.state # "failed"
    BY DoctorsAreTrue
  <2>2. (cmd.verb = "plan" /\ at = "done" /\ ~lost /\ before # Unread) =>
          /\ (code = 1) = ("server" \in cmd.file.errors)
          /\ code = 4 => HasDrift(before.rules, cmd.file)
          /\ code = 0 /\ Has("failOnDrift") => ~HasDrift(before.rules, cmd.file)
    BY PlansAreTrue
  <2>3. ASSUME cmd.verb = "groupList", code = 0, NEW r \in seen["forwards"].rules
        PROVE  /\ GroupCounts(r.group).running \in 0..GroupCounts(r.group).total
               /\ changes = 0 => GroupCounts(r.group).running =
                                    Cardinality(Running(InGroup(service.rules, r.group)))
    BY <2>3, ListsAreTrue
  <2> QED BY <2>1, <2>2, <2>3 DEF ReportsAreTrue
<1>5. FileVerdictsAgree
  BY FilesAreJudgedAlike DEF FileVerdictsAgree
<1>6. OthersAreLeftAlone
  BY DEF CliIInv, DoneHolds, OthersAreLeftAlone
<1> QED BY <1>1, <1>2, <1>3, <1>4, <1>5, <1>6 DEF CommandsTellTheTruth

-----------------------------------------------------------------------------
(* The theorems.  A behaviour is about one subject; what belongs to the    *)
(* others stays as it was.                                                 *)

\* Whatever the subject, the two rules stay what their services store.
THEOREM LifeInvariant == Spec => []LifeIInv
<1>1. Init => LifeIInv
  BY LifeBegins DEF Init
<1>2. LifeIInv /\ [Next]_vars => LifeIInv'
  <2>1. LifeIInv /\ UNCHANGED lifeVars => LifeIInv'
    BY DEF LifeIInv, lifeVars
  <2> QED BY <2>1, LifeGoesOn DEF Next, vars, lifeVars
<1> QED BY <1>1, <1>2, PTL DEF Spec

\* A rule that one service stored is read back by it, by the other service
\* and by the CLI as it was, but for the differences named in RuleLife.
THEOREM RulesTravel == Spec => []StoredRulesTravel
BY LifeInvariant, LifeTravels, PTL

\* The Go and the Node service store the same rule for a request, and a patch
\* changes only what it names.
THEOREM ServicesAgree == Spec => []RequestsMeanTheSame
BY LifeInvariant, LifeMeansTheSame, PTL

\* Whatever the subject, the configuration is a sequence of rules, the policy
\* file is a policy or damaged, and a check that passed left an empty report.
THEOREM PolicyInvariant == Spec => []PolicyIInv
<1>1. Init => PolicyIInv
  <2>1. IdlePolicy => PolicyIInv
    BY EmptySeq DEF IdlePolicy, PolicyIInv
  <2> QED BY <2>1, PolicyBegins DEF Init
<1>2. PolicyIInv /\ [Next]_vars => PolicyIInv'
  <2>1. PolicyIInv /\ UNCHANGED policyVars => PolicyIInv'
    BY DEF PolicyIInv, policyVars
  <2> QED BY <2>1, PolicyGoesOn DEF Next, vars, policyVars
<1> QED BY <1>1, <1>2, PTL DEF Spec

\* Whatever the rules and the policy, a comparison with a baseline is quiet
\* about what was accepted and shows what a new rule brings; both searches for
\* duplicates agree, the counts add up, and an exit code 0 means nothing new.
THEOREM PoliciesAreTrue == Spec => []PoliciesTellTheTruth
BY PolicyInvariant, PoliciesAreTruthful, PTL

\* Whatever the subject, what was run and planned is as a workflow leaves it,
\* and the ids of the runs count down to the first.
THEOREM ReplayInvariant == Spec => []ReplayIInv
<1>1. Init => ReplayIInv
  BY ReplayBegins DEF Init
<1>2. ReplayIInv /\ [Next]_vars => ReplayIInv'
  <2>1. ReplayIInv /\ UNCHANGED replayVars => ReplayIInv'
    BY DEF ReplayIInv, replayVars
  <2> QED BY <2>1, ReplayGoesOn DEF Next, vars, replayVars
<1> QED BY <1>1, <1>2, PTL DEF Spec

\* Whatever was saved, a file is classified as what it is, its three readers
\* agree about it, a report, its bundle and its entry of the history tell the
\* same, reports without a difference are the same step by step, and a longer
\* history shows its new runs and failures and no others.
THEOREM ReplayIsTrue == Spec => []ReplayTellsTheTruth
BY ReplayInvariant, ReplayIsTruthful, PTL

\* Whatever the subject, the files, the backups and the bundle are what the
\* commands hold of them, at each of their steps.
THEOREM FilesInvariant == Spec => []FilesIInv
<1>1. Init => FilesIInv
  <2>1. IdleFiles => FilesInit
    BY DEF IdleFiles, FilesInit
  <2> QED BY <2>1, FilesBegin DEF Init
<1>2. FilesIInv /\ [Next]_vars => FilesIInv'
  <2>1. FilesIInv /\ UNCHANGED fileVars => FilesIInv'
    BY FilesStay
  <2> QED BY <2>1, FilesGoOn DEF Next, vars, fileVars
<1> QED BY <1>1, <1>2, PTL DEF Spec

\* For any number of commands that run at once, of saves by others and of
\* artifacts: what a migrate replaces is kept, whatever is killed meanwhile, a
\* file is never half written, and a manifest marks a bundle that is whole.
THEOREM FilesAreKept == Spec => []FilesAreWhole
BY FilesInvariant, FilesKept, PTL

\* Whatever the subject, a command is at a call of its own, at most one of its
\* requests is under way, and what it was told is what the service was like.
THEOREM CliInvariant == Spec => []CliIInv
<1>1. Init => CliIInv
  <2>1. IdleCli => CliInit
    BY ThereAreCommands DEF IdleCli, CliInit
  <2> QED BY <2>1, CliBegins DEF Init
<1>2. CliIInv /\ [Next]_vars => CliIInv'
  <2>1. CliIInv /\ UNCHANGED cliVars => CliIInv'
    BY CliStays
  <2> QED BY <2>1, CliGoesOn DEF Next, vars, cliVars
<1> QED BY <1>1, <1>2, PTL DEF Spec

\* Whatever others do to the service, and whatever is lost: an exit code says
\* what was done, what was acted on is the one rule the argument named, what
\* was done stays so until somebody changes it, and the doctor's verdict, a
\* drift and the counts of a list are those of the service.
THEOREM CommandsAreTrue == Spec => []CommandsTellTheTruth
BY CliInvariant, CommandsAreTruthful, PTL

=============================================================================
