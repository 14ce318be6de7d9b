----------------------------- MODULE MapperConfig -----------------------------
(***************************************************************************)
(* connectivity_plugin/cpp/mapper/MapperCodec.cpp: how the codec reads its *)
(* configuration.  A configuration is refused by an exception or becomes   *)
(* the codec's tables of rules and of field counts: a table for each type  *)
(* and direction, and one for the items of each list of a forEach.         *)
(*                                                                         *)
(* The configuration is a datum whose strings and keys are names, each the *)
(* sequence of its parts between dots: "payload.a" is <<"payload", "a">>.  *)
(***************************************************************************)
EXTENDS MapFields, FiniteSets

\* The commands.
Modes == {"copyFrom", "mapFrom", "forEach", "set", "defaultValue"}
Moves == {"copyFrom", "mapFrom"}

Directions == {"towardsHost", "towardsTransport"}

Flags == {<<"allowMissing">>, <<"ignoreControlMessages">>}

\* tolower(...) = "true", "false".
Yes == {<<"true">>, <<"True">>, <<"TRUE">>}
No == {<<"false">>, <<"False">>, <<"FALSE">>}

-----------------------------------------------------------------------------
(* Rule's constructor.  A place is [metadata : BOOLEAN, field : a field];   *)
(* the empty field of the payload is the whole payload.  A rule has a mode, *)
(* a target place, and a source place (mapFrom, copyFrom), a content (set,  *)
(* defaultValue) or the level of the rules for each item of a list (forEach). *)

NoField == {<<>>, <<"">>}

\* "payload" with more behind it than a dot: "payload_a".
Glued(name) ==
  /\ Head(name) \notin {"metadata", "payload"}
  /\ Len(Head(name)) > 7 /\ SubSeq(Head(name), 1, 7) = "payload"

\* The eighth character of a source is not looked at.
IsSource(name) ==
  \/ Head(name) = "metadata" /\ Tail(name) \notin NoField
  \/ Head(name) = "payload" /\ Tail(name) # <<"">>
  \/ Glued(name) /\ (Len(name) > 1 \/ Len(Head(name)) > 8)

IsTarget(name, content) ==
  \/ Head(name) = "metadata" /\ Tail(name) \notin NoField
  \/ /\ Head(name) = "payload" /\ Tail(name) # <<"">>
     /\ Tail(name) = <<>> => content.tag \in {"string", "map"}

\* Where a name leads, parent being the name of the list that it is within,
\* if any: the parent's field is cut off.
Place(parent, name) ==
  LET full == parent \o name
      rest == IF Glued(full) THEN <<SubSeq(Head(full), 9, Len(Head(full)))>> \o Tail(full)
              ELSE Tail(full)
  IN [metadata |-> Head(full) = "metadata",
      field |-> IF parent = <<>> THEN rest ELSE SubSeq(rest, Len(parent), Len(rest))]

\* A list is looked up by its field even where that is empty.
ListPlace(parent, name) ==
  LET place == Place(parent, name)
  IN IF place.field = <<>> THEN [place EXCEPT !.field = <<"">>] ELSE place

NoCounts == [place \in {} |-> 0]

Count(counts, place) == IF place \in DOMAIN counts THEN counts[place] ELSE 0

\* The rules of a table, in the order that applyRulesImpl applies them in.
InOrder(rules) ==
  rules["copyFrom"] \o rules["mapFrom"] \o rules["forEach"] \o rules["set"] \o rules["defaultValue"]

NoRules == [mode \in Modes |-> <<>>]

Fills(rule, place) == rule.mode # "forEach" /\ rule.target = place

\* A rule is counted for its target when it is made.
CountRule(counts, rule) ==
  IF rule.mode = "forEach" THEN counts
  ELSE With(counts, rule.target, Count(counts, rule.target) + 1)

FieldCounts(rules) == FoldLeft(CountRule, NoCounts, InOrder(rules))

-----------------------------------------------------------------------------
(* populateRules                                                           *)

\* A table is named by the way to it: the type and direction that its rules
\* are for, and the forEach actions, by their number, that it is within.
Top(type, direction) == [type |-> type, direction |-> direction, path |-> <<>>]
Child(level, i) ==
  [type |-> level.type, direction |-> level.direction, path |-> Append(level.path, i)]

\* The actions of a command.
Actions(commands, mode) ==
  IF <<mode>> \in DOMAIN Entries(commands) THEN Entries(commands)[<<mode>>].items ELSE <<>>

NameOf(action) == CHOOSE name \in DOMAIN Entries(action) : TRUE

ContentOf(action) == Entries(action)[NameOf(action)]

\* forEach hands its own name to the constructor as if it were the content.
IsRule(mode, parent, name, content) ==
  CASE mode \in Moves -> /\ IsString(content) /\ IsSource(parent \o content.value)
                         /\ IsTarget(parent \o name, content)
    [] mode = "forEach" -> IsSource(parent \o name) /\ IsTarget(parent \o name, String(name))
    [] mode \in {"set", "defaultValue"} -> IsTarget(parent \o name, content)

IsAction(mode, parent, action) ==
  /\ IsMap(action) /\ Cardinality(DOMAIN action.entries) = 1
  /\ IsName(NameOf(action))
  /\ IsRule(mode, parent, NameOf(action), ContentOf(action))

IsCommand(command, parent, actions) ==
  /\ command[1] \in Modes /\ command = <<command[1]>>
  /\ IsList(actions)
  /\ \A action \in Range(actions.items) : IsAction(command[1], parent, action)

IsRules(commands, parent) ==
  /\ IsMap(commands)
  /\ \A command \in DOMAIN commands.entries :
       IsCommand(command, parent, commands.entries[command])

RuleOf(mode, parent, action, children) ==
  LET name == NameOf(action)
      content == ContentOf(action)
  IN CASE mode \in Moves ->
            [mode |-> mode, target |-> Place(parent, name), source |-> Place(parent, content.value)]
       [] mode = "forEach" ->
            [mode |-> mode, target |-> ListPlace(parent, name), children |-> children]
       [] mode \in {"set", "defaultValue"} ->
            [mode |-> mode, target |-> Place(parent, name), content |-> content]

\* A call of populateRules: which table it is to make, and its arguments.
Call(level, commands, parent) == [level |-> level, commands |-> commands, parent |-> parent]

\* A table of rules: a sequence of them for each mode.
RulesOf(call) ==
  [mode \in Modes |->
     LET actions == Actions(call.commands, mode)
     IN [i \in DOMAIN actions |->
           RuleOf(mode, call.parent, actions[i], Child(call.level, i))]]

\* The calls that a call makes, for the actions of its forEach.
CallsOf(call) ==
  LET lists == Actions(call.commands, "forEach")
  IN {Call(Child(call.level, i), ContentOf(lists[i]), call.parent \o NameOf(lists[i])) :
        i \in DOMAIN lists}

-----------------------------------------------------------------------------
(* MapperCodec's constructor                                               *)

TypesOf(yaml) == DOMAIN Entries(yaml) \ Flags

IsType(directions) ==
  IsMap(directions) /\ \A d \in DOMAIN directions.entries : d[1] \in Directions /\ d = <<d[1]>>

IsConfig(yaml) ==
  /\ \A flag \in Flags \cap DOMAIN Entries(yaml) :
       LET value == Entries(yaml)[flag] IN value.tag = "string" /\ value.value \in Yes \cup No
  /\ \A type \in TypesOf(yaml) : IsType(Entries(yaml)[type])

Flag(yaml, flag) == flag \in DOMAIN Entries(yaml) /\ Entries(yaml)[flag].value \in Yes

\* The calls for the types and directions.
TopCalls(yaml) ==
  UNION {{Call(Top(type, d[1]), Entries(yaml)[type].entries[d], <<>>) :
            d \in DOMAIN Entries(yaml)[type].entries} : type \in TypesOf(yaml)}

Star == <<"*">>

FieldsAt(fields, level) == IF level \in DOMAIN fields THEN fields[level] ELSE NoCounts

SumOfCounts(c, d) == [place \in DOMAIN c \cup DOMAIN d |-> Count(c, place) + Count(d, place)]

\* Mutant: the counts of "*" are added to those of "*" too.
AddStarToAll(fields) ==
  [level \in DOMAIN fields |->
     IF level.path = <<>>
     THEN SumOfCounts(fields[level], FieldsAt(fields, Top(Star, level.direction)))
     ELSE fields[level]]

\* computingTotalFieldCount: a message of another type gets the rules of "*" too.
AddStar(fields) ==
  [level \in DOMAIN fields |->
     IF level.path = <<>> /\ level.type # Star
     THEN SumOfCounts(fields[level], FieldsAt(fields, Top(Star, level.direction)))
     ELSE fields[level]]
=============================================================================
