----------------------------- MODULE MapperCodec -----------------------------
(***************************************************************************)
(* connectivity_plugin/cpp/mapper/MapperCodec.cpp: a codec that moves      *)
(* fields around between the payload and the metadata of a message, as the *)
(* rules of its configuration say.  A message's type selects some rules,   *)
(* and the rules of type "*" are applied to it after them.                 *)
(*                                                                         *)
(* A behaviour is the way of one message through the codec, in one         *)
(* direction; the rules of the two directions have nothing in common.      *)
(***************************************************************************)
EXTENDS MapperConfig

CONSTANTS
  Configs,        \* the configurations that a codec is made from ...
  Messages        \* ... and the messages that it gets

VARIABLES
  yaml,           \* the configuration
  codec,          \* [tables, fields, allowMissing, ignoreControlMessages]
  calls,          \* the calls of populateRules that have not been made yet
  direction,      \* where the message goes
  received,       \* the message as the codec got it
  frames,         \* what is being mapped: the message at the bottom, items of lists on it
  outcome         \* "new", "reading"; "refused" or "ready"; "mapping"; "mapped", or "failed"

vars == <<yaml, codec, calls, direction, received, frames, outcome>>

NoTables == [level \in {} |-> NoRules]
NoFields == [level \in {} |-> NoCounts]

CodecWith(allowMissing, ignoreControlMessages) ==
  [tables |-> NoTables, fields |-> NoFields,
   allowMissing |-> allowMissing, ignoreControlMessages |-> ignoreControlMessages]

NoMessage == [metadata |-> Map(NoEntries), payload |-> Empty]

\* A codec is to be made from a configuration.
Start(config) ==
  /\ yaml = config
  /\ codec = CodecWith(FALSE, FALSE)
  /\ calls = {}
  /\ direction \in Directions
  /\ received = NoMessage
  /\ frames = <<>>
  /\ outcome = "new"

Init == \E config \in Configs : Start(config)

-----------------------------------------------------------------------------
(* The constructor                                                         *)

Construct ==
  /\ outcome = "new"
  /\ \/ /\ IsConfig(yaml)
        /\ codec' = CodecWith(Flag(yaml, <<"allowMissing">>), Flag(yaml, <<"ignoreControlMessages">>))
        /\ calls' = TopCalls(yaml)
        /\ outcome' = "reading"
     \/ /\ ~IsConfig(yaml)
        /\ outcome' = "refused"
        /\ UNCHANGED <<codec, calls>>
  /\ UNCHANGED <<yaml, direction, received, frames>>

\* One call; those for the lists within it come of it.
PopulateRules ==
  /\ outcome = "reading"
  /\ \E call \in calls :
       \/ /\ IsRules(call.commands, call.parent)
          /\ codec' = [codec EXCEPT !.tables = With(@, call.level, RulesOf(call)),
                                    !.fields = With(@, call.level, FieldCounts(RulesOf(call)))]
          /\ calls' = (calls \ {call}) \cup CallsOf(call)
          /\ UNCHANGED outcome
       \/ /\ ~IsRules(call.commands, call.parent)
          /\ outcome' = "refused"
          /\ UNCHANGED <<codec, calls>>
  /\ UNCHANGED <<yaml, direction, received, frames>>

ComputeTotals ==
  /\ outcome = "reading"
  /\ calls = {}
  /\ codec' = [codec EXCEPT !.fields = AddStar(@)]
  /\ outcome' = "ready"
  /\ UNCHANGED <<yaml, calls, direction, received, frames>>

-----------------------------------------------------------------------------
(* A message.  A step is a rule and the level it is a rule of; a frame is   *)
(* [message, steps, next, current, items, at]: a message, the steps for it, *)
(* the number of the next one, and currentFieldCount.  An item of a list is *)
(* mapped as if it were all of the payload, or the metadata, that its list  *)
(* is in: it is the message of a frame on the one that the list is in, with *)
(* all the items of the list and its number among them.                     *)

Frame(message, steps, current, items, at) ==
  [message |-> message, steps |-> steps, next |-> 1, current |-> current, items |-> items, at |-> at]

StepsOf(level) ==
  LET rules == InOrder(IF level \in DOMAIN codec.tables THEN codec.tables[level] ELSE NoRules)
  IN [i \in DOMAIN rules |-> [level |-> level, rule |-> rules[i]]]

HasEntry(m, field) == field \in DOMAIN Entries(m.metadata)

Ignored(m) == codec.ignoreControlMessages /\ HasEntry(m, <<"sag", "control", "type">>)

\* The steps for the type of a message.
TypeSteps(m, d) ==
  IF HasEntry(m, <<"sag", "type">>)
  THEN StepsOf(Top(Entries(m.metadata)[<<"sag", "type">>].value, d)) ELSE <<>>

\* transformMessageDirection: the steps for a message.
RulesFor(m, d) == IF Ignored(m) THEN <<>> ELSE TypeSteps(m, d) \o StepsOf(Top(Star, d))

\* transformMessageTowardsHost, transformMessageTowardsTransport.
Receive ==
  /\ outcome = "ready"
  /\ \E m \in Messages :
       /\ received' = m
       /\ frames' = <<Frame(m, RulesFor(m, direction), NoCounts, <<>>, 0)>>
  /\ outcome' = "mapping"
  /\ UNCHANGED <<yaml, codec, calls, direction>>

-----------------------------------------------------------------------------
(* Reading and writing the places of a message                             *)

Within(m, metadata) == IF metadata THEN m.metadata ELSE m.payload

KeysTo(m, place) == Keys(Within(m, place.metadata), place.field, place.metadata)

IsThere(m, place) == Has(Within(m, place.metadata), KeysTo(m, place))
Read(m, place) == At(Within(m, place.metadata), KeysTo(m, place))

\* The message with this for its metadata, or its payload.
Replace(m, metadata, data) ==
  IF metadata THEN [metadata |-> data, payload |-> m.payload]
  ELSE [metadata |-> m.metadata, payload |-> data]

Write(m, place, value) ==
  Replace(m, place.metadata, Put(Within(m, place.metadata), KeysTo(m, place), value))

\* A payload that is moved from is empty.
Without(m, place) ==
  IF ~place.metadata /\ place.field = <<>> THEN Replace(m, FALSE, Empty)
  ELSE Replace(m, place.metadata, Erase(Within(m, place.metadata), KeysTo(m, place)))

\* A payload that is not a map has no fields.
NoPayloadMap(m, place) == ~place.metadata /\ place.field # <<>> /\ ~IsMap(m.payload)

-----------------------------------------------------------------------------
(* The rules that move or set a field                                      *)

\* -1 marks a target that has been set.
Filled == -1

StepAt(frame) == frame.steps[frame.next]

Applying(modes) ==
  /\ outcome = "mapping"
  /\ Head(frames).next <= Len(Head(frames).steps)
  /\ StepAt(Head(frames)).rule.mode \in modes

\* The frame after a rule that it has been through.
After(frame, message, current) ==
  [frame EXCEPT !.message = message, !.current = current, !.next = @ + 1]

Continue(message, current) ==
  /\ frames' = <<After(Head(frames), message, current)>> \o Tail(frames)
  /\ UNCHANGED outcome

\* What the write to the target starts from.
Rest(m, rule) == IF rule.mode = "mapFrom" THEN Without(m, rule.source) ELSE m

\* Mutant: the source is taken out last, and the target with it that is in it.
RemovedLast(m, rule) ==
  LET written == Write(m, rule.target, Read(m, rule.source))
  IN IF rule.mode = "mapFrom" THEN Without(written, rule.source) ELSE written

Moved(m, rule) == Write(Rest(m, rule), rule.target, Read(m, rule.source))

Move ==
  /\ Applying(Moves)
  /\ LET frame == Head(frames)
         rule == StepAt(frame).rule
     IN /\ ~NoPayloadMap(frame.message, rule.source)
        /\ IsThere(frame.message, rule.source)
        /\ Continue(Moved(frame.message, rule), With(frame.current, rule.target, Filled))
  /\ UNCHANGED <<yaml, codec, calls, direction, received>>

\* There is no source, and none is needed.
MoveNothing ==
  /\ Applying(Moves)
  /\ LET frame == Head(frames)
         rule == StepAt(frame).rule
     IN /\ \/ NoPayloadMap(frame.message, rule.source) /\ codec.allowMissing
           \/ /\ ~NoPayloadMap(frame.message, rule.source)
              /\ ~IsThere(frame.message, rule.source)
              /\ codec.allowMissing \/ Count(frame.current, rule.target) = Filled
        /\ Continue(frame.message, frame.current)
  /\ UNCHANGED <<yaml, codec, calls, direction, received>>

\* Mutant: a rule without a source is an error at once.
MissAtOnce(n, total) == TRUE

\* The n-th rule for a target that finds no source, of this many.
LastMiss(n, total) == n >= total

\* There is no source.  Another rule may still set the target, or this was
\* the last one.
MissSource ==
  /\ Applying(Moves)
  /\ ~codec.allowMissing
  /\ LET frame == Head(frames)
         step == StepAt(frame)
         target == step.rule.target
         n == Count(frame.current, target) + 1
         current == With(frame.current, target, n)
     IN /\ ~NoPayloadMap(frame.message, step.rule.source)
        /\ ~IsThere(frame.message, step.rule.source)
        /\ Count(frame.current, target) # Filled
        /\ \/ /\ ~LastMiss(n, Count(FieldsAt(codec.fields, step.level), target))
              /\ Continue(frame.message, current)
           \/ /\ LastMiss(n, Count(FieldsAt(codec.fields, step.level), target))
              /\ frames' = <<[frame EXCEPT !.current = current]>> \o Tail(frames)
              /\ outcome' = "failed"
  /\ UNCHANGED <<yaml, codec, calls, direction, received>>

\* An exception without a count.
MissPayload ==
  /\ Applying(Moves)
  /\ ~codec.allowMissing
  /\ NoPayloadMap(Head(frames).message, StepAt(Head(frames)).rule.source)
  /\ outcome' = "failed"
  /\ UNCHANGED <<yaml, codec, calls, direction, received, frames>>

\* What a defaultValue replaces: in metadata, an empty string too, but not
\* in an item of a list.
Unset(m, place, inItem) ==
  LET value == Read(m, place)
  IN value = Empty \/ (place.metadata /\ ~inItem /\ value = String(<<"">>))

Assigned(m, rule, inItem) ==
  IF rule.mode = "set" \/ Unset(m, rule.target, inItem)
  THEN Write(m, rule.target, rule.content) ELSE m

Assign ==
  /\ Applying({"set", "defaultValue"})
  /\ LET frame == Head(frames)
         rule == StepAt(frame).rule
     IN Continue(Assigned(frame.message, rule, Len(frames) > 1), With(frame.current, rule.target, Filled))
  /\ UNCHANGED <<yaml, codec, calls, direction, received>>

-----------------------------------------------------------------------------
(* forEach                                                                 *)

\* An item, as the message that the rules for it see.
ItemMessage(item, metadata) == Replace([metadata |-> Empty, payload |-> Empty], metadata, item)

\* Mutant: the counts are carried over from item to item.
CountsCarriedOver(counts) == counts

\* The counts for an item, after those for the one before it.
CountsForNext(counts) == NoCounts

ItemFrame(rule, items, at, counts) ==
  Frame(ItemMessage(items[at], rule.target.metadata), StepsOf(rule.children), counts, items, at)

\* Nothing can be done without a list, or with an item that is not a map.
NoList(m, place) ==
  \/ NoPayloadMap(m, place)
  \/ IsThere(m, place) /\ ~IsList(Read(m, place))

EnterList ==
  /\ Applying({"forEach"})
  /\ LET frame == Head(frames)
         rule == StepAt(frame).rule
         list == Read(frame.message, rule.target)
     IN /\ ~NoList(frame.message, rule.target)
        /\ IsThere(frame.message, rule.target)
        /\ list.items # <<>>
        /\ IsMap(list.items[1])
        /\ frames' = <<ItemFrame(rule, list.items, 1, NoCounts)>> \o frames
  /\ UNCHANGED <<yaml, codec, calls, direction, received, outcome>>

SkipList ==
  /\ Applying({"forEach"})
  /\ LET frame == Head(frames)
         target == StepAt(frame).rule.target
     IN /\ ~NoList(frame.message, target)
        /\ \/ ~IsThere(frame.message, target) /\ codec.allowMissing
           \/ IsThere(frame.message, target) /\ Read(frame.message, target).items = <<>>
        /\ Continue(frame.message, frame.current)
  /\ UNCHANGED <<yaml, codec, calls, direction, received>>

FailList ==
  /\ Applying({"forEach"})
  /\ LET m == Head(frames).message
         target == StepAt(Head(frames)).rule.target
     IN \/ NoList(m, target)
        \/ ~IsThere(m, target) /\ ~codec.allowMissing
        \/ /\ ~NoList(m, target) /\ IsThere(m, target)
           /\ Read(m, target).items # <<>> /\ ~IsMap(Read(m, target).items[1])
  /\ outcome' = "failed"
  /\ UNCHANGED <<yaml, codec, calls, direction, received, frames>>

\* The items of a list, with the one that has been mapped, and the message
\* of the frame that the list is in with them.
ItemsWith(frame, metadata) ==
  [frame.items EXCEPT ![frame.at] = Within(frame.message, metadata)]

MessageWith(below, frame) ==
  LET target == StepAt(below).rule.target
  IN Write(below.message, target, List(ItemsWith(frame, target.metadata)))

ItemDone ==
  /\ outcome = "mapping"
  /\ Len(frames) > 1
  /\ frames[1].next > Len(frames[1].steps)

NextItem ==
  /\ ItemDone
  /\ LET frame == frames[1]
         rule == StepAt(frames[2]).rule
     IN /\ frame.at < Len(frame.items)
        /\ IsMap(frame.items[frame.at + 1])
        /\ frames' = <<ItemFrame(rule, ItemsWith(frame, rule.target.metadata), frame.at + 1,
                                 CountsForNext(frame.current))>> \o Tail(frames)
  /\ UNCHANGED <<yaml, codec, calls, direction, received, outcome>>

LeaveList ==
  /\ ItemDone
  /\ LET frame == frames[1]
         below == frames[2]
     IN /\ frame.at = Len(frame.items)
        /\ frames' = <<After(below, MessageWith(below, frame), below.current)>> \o Tail(Tail(frames))
  /\ UNCHANGED <<yaml, codec, calls, direction, received, outcome>>

\* The list as far as it has been mapped stays in the message.
Back ==
  frames' = <<[frames[2] EXCEPT !.message = MessageWith(frames[2], frames[1])]>> \o Tail(Tail(frames))

FailItem ==
  /\ ItemDone
  /\ frames[1].at < Len(frames[1].items)
  /\ ~IsMap(frames[1].items[frames[1].at + 1])
  /\ Back
  /\ outcome' = "failed"
  /\ UNCHANGED <<yaml, codec, calls, direction, received>>

\* An exception leaves the forEach that it is thrown in.
Unwind ==
  /\ outcome = "failed"
  /\ Len(frames) > 1
  /\ Back
  /\ UNCHANGED <<yaml, codec, calls, direction, received, outcome>>

ForEach == EnterList \/ SkipList \/ FailList \/ NextItem \/ LeaveList \/ FailItem \/ Unwind

-----------------------------------------------------------------------------
\* The message has been mapped.  One that fails is dropped, unless its payload
\* is null: transformNullPayload... catches the exception and passes on what
\* the message is by then.
Finish ==
  /\ outcome = "mapping"
  /\ Len(frames) = 1
  /\ frames[1].next > Len(frames[1].steps)
  /\ outcome' = "mapped"
  /\ UNCHANGED <<yaml, codec, calls, direction, received, frames>>

Apply == Move \/ MoveNothing \/ MissSource \/ MissPayload \/ Assign \/ ForEach

Next == Construct \/ PopulateRules \/ ComputeTotals \/ Receive \/ Apply \/ Finish

Spec == Init /\ [][Next]_vars

-----------------------------------------------------------------------------
(* Properties                                                              *)

\* The call that a level is for: along its path, from the type and direction.
CallAt(level) ==
  LET along[n \in 0 .. Len(level.path)] ==
        IF n = 0
        THEN Call(Top(level.type, level.direction),
                  Entries(Entries(yaml)[level.type])[<<level.direction>>], <<>>)
        ELSE LET list == Actions(along[n - 1].commands, "forEach")[level.path[n]]
             IN Call(Child(along[n - 1].level, level.path[n]), ContentOf(list),
                     along[n - 1].parent \o NameOf(list))
  IN along[Len(level.path)]

\* A rule for an action.  In the items of a list it looks for what the action
\* names, wherever the list is.
IsRuleFor(rule, mode, action, parent) ==
  /\ rule.mode = mode
  /\ parent # <<>> => rule.target.field = NameOf(action)

\* A configuration is applied in full or refused: a codec has a rule for
\* each action of it, those within a forEach included.
AppliedOrRefused ==
  outcome = "ready" =>
    /\ \A type \in TypesOf(yaml) : \A d \in DOMAIN Entries(Entries(yaml)[type]) :
         Top(type, d[1]) \in DOMAIN codec.tables
    /\ \A level \in DOMAIN codec.tables : \A mode \in Modes :
         LET actions == Actions(CallAt(level).commands, mode)
             rules == codec.tables[level][mode]
         IN /\ Len(rules) = Len(actions)
            /\ \A i \in DOMAIN rules :
                 /\ IsRuleFor(rules[i], mode, actions[i], CallAt(level).parent)
                 /\ mode = "forEach" =>
                      /\ rules[i].children = Child(level, i)
                      /\ rules[i].children \in DOMAIN codec.tables

\* How many of the rules of a level set a place, and how many that a
\* message with steps of the level gets.
FillsOf(level, place) == Cardinality({i \in DOMAIN StepsOf(level) : Fills(StepsOf(level)[i].rule, place)})

AllFillsOf(level, place) ==
  FillsOf(level, place) +
    (IF level.path = <<>> /\ level.type # Star THEN FillsOf(Top(Star, level.direction), place) ELSE 0)

\* The field counts of a type say how many of the rules for its messages
\* target a place.
CountsAreTargets ==
  outcome = "ready" =>
    \A level \in DOMAIN codec.fields : \A place \in DOMAIN codec.fields[level] :
      codec.fields[level][place] = AllFillsOf(level, place)

(* A configuration is applied in full, at any depth of forEach, or it is   *)
(* refused, whatever is wrong in it; and the field counts, by which a      *)
(* missing source is an error or not, count the rules that set the target. *)
RulesAsConfigured == AppliedOrRefused /\ CountsAreTargets

\* A rule that has not been applied yet, and could still set the place.
LaterRule(frame, place) ==
  \E i \in frame.next + 1 .. Len(frame.steps) : Fills(frame.steps[i].rule, place)

NoSource(frame) == StepAt(frame).rule.mode \in Moves

(* What the comments on the field counts say: a missing source is an error *)
(* only at the last rule that could have set the target.                   *)
ErrorOnlyAtLastRule ==
  outcome = "failed" /\ NoSource(Head(frames))
    => ~LaterRule(Head(frames), StepAt(Head(frames)).rule.target)

\* Both the message's type and "*" have rules for the place.
Shared(steps, place) ==
  \E i, j \in DOMAIN steps :
    /\ Fills(steps[i].rule, place) /\ Fills(steps[j].rule, place)
    /\ steps[i].level # steps[j].level

\* The rules of "*" are applied twice to a message of type "*".
MappedTwice ==
  /\ Len(frames) = 1
  /\ HasEntry(received, <<"sag", "type">>)
  /\ Entries(received.metadata)[<<"sag", "type">>].value = Star

\* That holds for a target that only one type has rules for, and a source
\* that is not a field of a payload without fields; and a target that has
\* been set before is never an error.
ErrorAtLastRule ==
  outcome = "failed" /\ NoSource(Head(frames)) =>
    LET frame == Head(frames)
        rule == StepAt(frame).rule
    IN \/ NoPayloadMap(frame.message, rule.source)
       \/ /\ Count(frame.current, rule.target) # Filled
          /\ Shared(frame.steps, rule.target) \/ MappedTwice \/ ~LaterRule(frame, rule.target)

\* With allowMissing only a forEach can fail a message.
MissingAllowed ==
  outcome = "failed" /\ codec.allowMissing => StepAt(Head(frames)).rule.mode = "forEach"

(* A message fails only at a rule that leaves a target without a value for *)
(* good, as far as the counts of one type can tell.                        *)
FailedForReason == ErrorAtLastRule /\ MissingAllowed

\* The place is within what the rule takes away or replaces.
Disturbs(rule, place) ==
  \/ /\ rule.mode = "mapFrom" /\ rule.source.metadata = place.metadata
     /\ IsPrefix(rule.source.field, place.field)
  \/ /\ rule.mode # "forEach" /\ rule.target.metadata = place.metadata
     /\ IsStrictPrefix(rule.target.field, place.field)

(* Nothing is passed on that lacks a target, and no item of a list, at any *)
(* depth, that does: no rule is given up in favour of a later one that     *)
(* does not come, and no missing source is overlooked because the target   *)
(* was counted for another message, item or rule.  A target may be without *)
(* a value only where another rule moves it away or replaces what it is    *)
(* in: that the target was set before then counts, whenever it was.        *)
TargetsFilled ==
  outcome \in {"mapping", "mapped"} /\ ~codec.allowMissing =>
    LET frame == Head(frames) IN
      frame.next > Len(frame.steps) =>
        \A step \in Range(frame.steps) :
          \/ step.rule.mode = "forEach"
          \/ IsThere(frame.message, step.rule.target)
          \/ \E other \in Range(frame.steps) \ {step} : Disturbs(other.rule, step.rule.target)

(* What the comment on a null payload says: if the message fails to map it *)
(* is passed through as it is.                                             *)
NullPayloadAsIs ==
  outcome = "failed" /\ received.payload = Empty /\ Len(frames) = 1 => Head(frames).message = received
=============================================================================
