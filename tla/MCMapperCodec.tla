---------------------------- MODULE MCMapperCodec ----------------------------
(* Five places that overlap in each other, up to one rule of a type and up *)
(* to two of "*", lists in lists, and messages with and without the        *)
(* sources; configurations that are refused.                               *)
EXTENDS MapperCodec, TLC

CONSTANT Strings        \* the strings whose way NothingLostOrDoubled follows

MdA == <<"metadata", "a">>
MdSag == <<"metadata", "sag", "x">>
All == <<"payload">>
PlA == <<"payload", "a">>
PlAB == <<"payload", "a", "b">>

Action(command, to, content) == [command |-> command, action |-> Map(to :> content)]
Move1(command, from, to) == Action(command, to, String(from))
Assign1(command, to) == Action(command, to, String(<<"content">>))

\* The commands of a sequence of actions.
Commands(actions) ==
  Map([name \in {<<a.command>> : a \in Range(actions)} |->
         LET of == SelectSeq(actions, LAMBDA a : a.command = name[1])
         IN List([i \in DOMAIN of |-> of[i].action])])

MCMoves == {Move1(command, MdA, PlAB) : command \in Moves} \cup
  {Move1("mapFrom", MdA, All), Move1("mapFrom", PlA, MdA), Move1("copyFrom", PlAB, MdA),
   Move1("mapFrom", PlAB, PlA), Move1("mapFrom", All, PlA), Move1("copyFrom", All, MdSag),
   Move1("mapFrom", MdSag, MdA), Move1("mapFrom", PlA, PlAB)}

\* For the items of a list, and for those of a list "b" in the items.
ItemRules ==
  {<<Move1("mapFrom", <<"b">>, <<"c">>)>>,
   <<Assign1("defaultValue", <<"b">>), Move1("copyFrom", <<"b">>, <<"c">>)>>}
NestedRules == {<<Action("forEach", <<"b">>, Commands(rules))>> : rules \in ItemRules}

MCForEach == {Action("forEach", PlA, Commands(rules)) : rules \in ItemRules \cup NestedRules}

MCRules == MCMoves \cup MCForEach \cup
  {Assign1(command, place) : command \in {"set", "defaultValue"}, place \in {MdA, All, PlAB}}

FlagEntry(flag, set) == IF set THEN (<<flag>> :> String(<<"True">>)) ELSE NoEntries

Yaml(types, allowMissing, ignoreControlMessages) ==
  Map(types @@ FlagEntry("allowMissing", allowMissing)
            @@ FlagEntry("ignoreControlMessages", ignoreControlMessages))

TowardsHost(type, actions) ==
  <<type>> :> Map(<<"towardsHost">> :> Commands(actions))

\* What the constructor refuses, or accepts where one may not expect it to.
OddYaml ==
  {Map(<<"T">> :> String(<<"text">>)),
   Map(<<"T">> :> Map(<<"towardsNowhere">> :> Map(NoEntries))),
   Map(<<"T">> :> Map(<<"towardsHost">> :> List(<<>>))),
   Map(<<"T">> :> Map(<<"towardsHost">> :> Map(<<"mapTo">> :> List(<<>>)))),
   Map(<<"T">> :> Map(<<"towardsHost">> :> Map(<<"set">> :> Map(NoEntries)))),
   Map(<<"T">> :> Map(<<"towardsHost">> :> Map(<<"set">> :> List(<<Map(NoEntries)>>)))),
   Map(<<"T">> :> Map(<<"towardsTransport">> :> Commands(<<Assign1("set", MdA)>>))),
   Map(<<"T">> :> Map(<<"towardsHost">> :> Commands(<<Action("set", All, List(<<>>))>>))),
   Map(<<"allowMissing">> :> String(<<"maybe">>)),
   Map(<<"allowMissing">> :> List(<<>>))}
  \cup {Yaml(TowardsHost("T", <<a>>), FALSE, FALSE) : a \in
         {Move1("mapFrom", <<"header", "a">>, MdA), Move1("mapFrom", MdA, <<"header", "a">>),
          Move1("mapFrom", <<"metadata">>, PlA), Move1("mapFrom", <<"payload", "">>, PlA),
          Move1("mapFrom", <<"payload_a">>, MdA), Move1("mapFrom", MdA, <<"payload_a">>),
          Action("forEach", All, Commands(<<Assign1("set", <<"b">>)>>)),
          Action("forEach", <<"metadata", "a">>, Commands(<<Assign1("set", <<"b">>)>>)),
          Action("forEach", PlA, String(<<"text">>)),
          Action("forEach", PlA, Commands(<<Move1("mapTo", <<"b">>, <<"c">>)>>))}}

UpToOne == {<<>>} \cup {<<r>> : r \in MCRules}
UpToTwo == UpToOne \cup {<<r, s>> : r, s \in MCRules}

MCConfigs ==
  OddYaml \cup {Yaml(TowardsHost("T", <<r>>), allow, FALSE) : r \in MCMoves, allow \in BOOLEAN}

\* The configurations of MCConfigs, and those with up to one rule of a type
\* and two of "*": too many for a set of them.
MCInit ==
  \/ Init
  \/ /\ \E typed \in UpToOne, star \in UpToTwo, allow \in BOOLEAN :
          Start(Yaml(TowardsHost("T", typed) @@ TowardsHost("*", star), allow, TRUE))
     /\ direction = "towardsHost"

MCSpec == MCInit /\ [][Next]_vars

T == <<"sag", "type">>
Control == <<"sag", "control", "type">>

Md(keys) == Map([k \in keys |-> String(IF k = T THEN <<"T">> ELSE <<"md">>)])
Text == String(<<"text">>)

Item(keys) == Map([k \in keys |-> String(<<"item">>)])
Items == List(<<Item({<<"b">>}), Item({})>>)

MCMessages ==
  [metadata : {Md({}), Md({T, <<"a">>})},
   payload : {Empty, Text, Map(<<"a">> :> Text), Map(<<"a">> :> Map(<<"b">> :> Text)),
              Map(<<"a">> :> Items), Map(<<"a">> :> List(<<Map(<<"b">> :> Items)>>))}]
  \cup {[metadata |-> Md({T, Control}), payload |-> Empty],
        [metadata |-> Map(<<"a">> :> String(<<"">>)), payload |-> Empty],
        [metadata |-> Map(T :> String(<<"*">>)), payload |-> Map(<<"a">> :> List(<<>>))]}
  \cup {[metadata |-> Md({}), payload |-> Map(<<"a">> :> List(<<Item({<<"b">>})>> \o <<item>>))] :
          item \in {Text, Item({}), Map(<<"b">> :> List(<<Text>>))}}

\* For ErrorOnlyAtLastRule: a message of type T whose payload is a map.
LastConfigs ==
  {Yaml(TowardsHost("T", <<r>>) @@
        TowardsHost("*", <<r, Assign1("defaultValue", CHOOSE to \in DOMAIN r.action.entries : TRUE)>>),
        FALSE, FALSE) : r \in MCMoves}
LastMessages == {[metadata |-> Md({T}), payload |-> Map(<<"a">> :> Text)]}

\* For NullPayloadAsIs: messages without a payload.
NullConfigs == {Yaml(TowardsHost("T", <<r, s>>), FALSE, FALSE) : r, s \in MCMoves}
NullMessages == [metadata : {Md({}), Md({T, <<"a">>})}, payload : {Empty}]

MCStrings == {<<"md">>, <<"text">>, <<"item">>}

-----------------------------------------------------------------------------
RECURSIVE Occurrences(_, _)
Occurrences(d, s) ==
  CASE d.tag = "string" -> IF d.value = s THEN 1 ELSE 0
    [] d.tag = "list" -> FoldLeft(LAMBDA n, item : n + Occurrences(item, s), 0, d.items)
    [] d.tag = "map" -> FoldLeft(LAMBDA n, k : n + Occurrences(d.entries[k], s), 0,
                                 SetToSeq(DOMAIN d.entries))
    [] OTHER -> 0

Held(m, s) == Occurrences(m.metadata, s) + Occurrences(m.payload, s)

\* Where no rule copies, a value is never in two places: mapFrom takes it
\* out of its source, wherever source and target overlap.
MovesDoNotDuplicate ==
  Len(frames) = 1 /\ (\A step \in Range(Head(frames).steps) : step.rule.mode \notin {"copyFrom", "forEach"})
    => \A s \in Strings : Held(Head(frames).message, s) <= Held(received, s)

\* Something that is not a map is where a map on the way to the place is
\* needed.
Blocked(m, place) ==
  ~place.metadata /\ \E i \in 0 .. Len(place.field) - 1 :
    LET d == At(m.payload, Keys(m.payload, SubSeq(place.field, 1, i), FALSE))
    IN d # Empty /\ ~IsMap(d)

\* A move takes its value from the source to the target, wherever they
\* overlap: it loses nothing but what has been at the target when the source
\* is gone, unless a map is needed where there is none.
MovesLoseNothing ==
  [][ LET m == Head(frames).message
          rule == StepAt(Head(frames)).rule
          after == Head(frames)'.message
          rest == Rest(m, rule)
      IN Applying(Moves) /\ after # m /\ ~Blocked(rest, rule.target)
           => \A s \in Strings :
                Held(after, s) + Occurrences(Read(rest, rule.target), s) >= Held(m, s) ]_vars

\* A defaultValue loses nothing, unless a map is needed where there is
\* none, nor does it in an item of a list.
DefaultsLoseNothing ==
  [][ Applying({"defaultValue"}) /\ ~Blocked(Head(frames).message, StepAt(Head(frames)).rule.target)
        => \A s \in Strings : Held(Head(frames)'.message, s) >= Held(Head(frames).message, s) ]_vars

(* A message's values are moved, neither doubled nor lost, however sources *)
(* and targets overlap: a move leaves none behind and drops none on the    *)
(* way, and a default takes the place of none.                             *)
NothingLostOrDoubled == []MovesDoNotDuplicate /\ MovesLoseNothing /\ DefaultsLoseNothing
=============================================================================
