-------------------------- MODULE MapperCodec_proofs --------------------------
(***************************************************************************)
(* Proofs about MapperCodec: that a configuration is applied in full or    *)
(* refused, that a message fails for a reason, and that targets are        *)
(* filled.                                                                 *)
(***************************************************************************)
EXTENDS MapperCodec, SequenceTheorems, FiniteSetTheorems, WellFoundedInduction, TLAPS

-----------------------------------------------------------------------------
(* Field counts.                                                           *)

\* What holds of no least number holds of none.
LEMMA LeastNumber ==
  ASSUME NEW S \in SUBSET Nat, S # {}
  PROVE  \E n \in S : \A m \in S : n <= m
<1>1. IsWellFoundedOn(OpToRel(<, Nat), Nat)
  BY NatLessThanWellFounded
<1>2. PICK n \in S : \A m \in S : ~(<<m, n>> \in OpToRel(<, Nat))
  <2>1. IsWellFoundedOn(OpToRel(<, Nat), S)
    BY <1>1, IsWellFoundedOnSubset
  <2> QED BY <2>1, WFMin
<1>3. \A m \in S : ~(m < n)
  BY <1>2 DEF OpToRel
<1> QED BY <1>3

Highest(s) == CHOOSE x \in s : \A y \in s : x >= y

\* The function that the fold of CountRule over the first n rules is defined by.
Counting(rules, n, g) ==
  g = [s \in SUBSET (1 .. n) |->
         IF s = {} THEN NoCounts ELSE CountRule(g[s \ {Highest(s)}], rules[Highest(s)])]

LEMMA HighestOfInterval ==
  ASSUME NEW n \in Nat, NEW s \in SUBSET (1 .. n), n \in s PROVE Highest(s) = n
<1>1. \A x \in s : x \in Int /\ x <= n
  OBVIOUS
<1>2. \A x \in s : (\A y \in s : x >= y) <=> x = n
  BY <1>1
<1> QED BY <1>2 DEF Highest

LEMMA CountingExists ==
  ASSUME NEW rules, NEW N \in Nat PROVE \E g : Counting(rules, N, g)
<1> DEFINE Bad == {n \in Nat : ~ \E g : Counting(rules, n, g)}
<1> SUFFICES ASSUME Bad # {} PROVE FALSE
  OBVIOUS
<1>1. PICK n \in Bad : \A m \in Bad : n <= m
  BY LeastNumber
<1>2. CASE n = 0
  <2> DEFINE g == [s \in SUBSET (1 .. 0) |-> NoCounts]
  <2>1. Counting(rules, 0, g)
    BY DEF Counting
  <2> QED BY <1>1, <1>2, <2>1
<1>3. CASE n > 0
  <2>1. n - 1 \in Nat /\ n - 1 \notin Bad
    BY <1>1, <1>3
  <2>2. PICK g : Counting(rules, n - 1, g)
    BY <2>1
  <2> DEFINE h == [s \in SUBSET (1 .. n) |->
                     IF n \in s THEN CountRule(g[s \ {n}], rules[n]) ELSE g[s]]
  <2>3. ASSUME NEW s \in SUBSET (1 .. n), n \notin s
        PROVE  h[s] = IF s = {} THEN NoCounts ELSE CountRule(h[s \ {Highest(s)}], rules[Highest(s)])
    <3>1. s \in SUBSET (1 .. n - 1)
      BY <2>3
    <3>2. h[s] = g[s] /\ h[s \ {Highest(s)}] = g[s \ {Highest(s)}]
      BY <2>3
    <3> HIDE DEF h
    <3> QED BY <2>2, <3>1, <3>2 DEF Counting
  <2>4. ASSUME NEW s \in SUBSET (1 .. n), n \in s
        PROVE  h[s] = IF s = {} THEN NoCounts ELSE CountRule(h[s \ {Highest(s)}], rules[Highest(s)])
    <3>1. Highest(s) = n
      BY <2>4, HighestOfInterval
    <3>2. h[s] = CountRule(g[s \ {n}], rules[n]) /\ h[s \ {n}] = g[s \ {n}]
      BY <2>4
    <3> HIDE DEF h
    <3> QED BY <2>4, <3>1, <3>2
  <2>5. \A s \in SUBSET (1 .. n) :
          h[s] = IF s = {} THEN NoCounts ELSE CountRule(h[s \ {Highest(s)}], rules[Highest(s)])
    BY <2>3, <2>4
  <2>6. h = [s \in SUBSET (1 .. n) |-> h[s]]
    OBVIOUS
  <2> HIDE DEF h
  <2>7. Counting(rules, n, h)
    BY <2>5, <2>6 DEF Counting
  <2> QED BY <1>1, <2>7
<1> QED BY <1>2, <1>3

CountsOn(rules, g, k) ==
  g[1 .. k] = IF k = 0 THEN NoCounts ELSE CountRule(g[1 .. (k - 1)], rules[k])

LEMMA CountingAt ==
  ASSUME NEW rules, NEW n \in Nat, NEW g, Counting(rules, n, g), NEW k \in Nat, k <= n
  PROVE  CountsOn(rules, g, k)
<1> USE DEF CountsOn
<1>1. 1 .. k \in SUBSET (1 .. n)
  OBVIOUS
<1>2. CASE k = 0
  <2>1. 1 .. k = {}
    BY <1>2
  <2> QED BY <1>1, <1>2, <2>1 DEF Counting
<1>3. CASE k # 0
  <2>1. Highest(1 .. k) = k
    BY <1>3, HighestOfInterval
  <2>2. (1 .. k) \ {k} = 1 .. (k - 1) /\ 1 .. k # {}
    BY <1>3
  <2> QED BY <1>1, <1>3, <2>1, <2>2 DEF Counting
<1> QED BY <1>2, <1>3

\* How many of the first k rules set a place.
FillIndices(rules, k, place) == {i \in 1 .. k : Fills(rules[i], place)}
FillsUpTo(rules, k, place) == Cardinality(FillIndices(rules, k, place))

LEMMA FillsUpToType ==
  ASSUME NEW rules, NEW k \in Nat, NEW place
  PROVE  IsFiniteSet(FillIndices(rules, k, place)) /\ FillsUpTo(rules, k, place) \in Nat
<1>1. IsFiniteSet(1 .. k)
  BY FS_Interval
<1>2. FillIndices(rules, k, place) \in SUBSET (1 .. k)
  BY DEF FillIndices
<1>3. IsFiniteSet(FillIndices(rules, k, place))
  BY <1>1, <1>2, FS_Subset
<1> QED BY <1>3, FS_CardinalityType DEF FillsUpTo

LEMMA FillsUpToStep ==
  ASSUME NEW rules, NEW k \in Nat, NEW place
  PROVE  FillsUpTo(rules, k + 1, place) =
           FillsUpTo(rules, k, place) + (IF Fills(rules[k + 1], place) THEN 1 ELSE 0)
<1>1. IsFiniteSet(FillIndices(rules, k, place)) /\ FillsUpTo(rules, k, place) \in Nat
  BY FillsUpToType
<1>2. k + 1 \notin FillIndices(rules, k, place)
  BY DEF FillIndices
<1>3. CASE Fills(rules[k + 1], place)
  <2>1. FillIndices(rules, k + 1, place) = FillIndices(rules, k, place) \cup {k + 1}
    BY <1>3 DEF FillIndices
  <2> QED BY <1>1, <1>2, <1>3, <2>1, FS_AddElement DEF FillsUpTo
<1>4. CASE ~Fills(rules[k + 1], place)
  <2>1. FillIndices(rules, k + 1, place) = FillIndices(rules, k, place)
    BY <1>4 DEF FillIndices
  <2> QED BY <1>1, <1>4, <2>1 DEF FillsUpTo
<1> QED BY <1>3, <1>4

LEMMA FillsUpToNone ==
  ASSUME NEW rules, NEW place PROVE FillsUpTo(rules, 0, place) = 0
<1>1. FillIndices(rules, 0, place) = {}
  BY DEF FillIndices
<1> QED BY <1>1, FS_EmptySet DEF FillsUpTo

LEMMA FillsUpToMonotone ==
  ASSUME NEW rules, NEW j \in Nat, NEW k \in Nat, j <= k, NEW place
  PROVE  FillsUpTo(rules, j, place) <= FillsUpTo(rules, k, place)
<1>1. IsFiniteSet(FillIndices(rules, k, place))
  BY FillsUpToType
<1>2. FillIndices(rules, j, place) \in SUBSET FillIndices(rules, k, place)
  BY DEF FillIndices
<1> QED BY <1>1, <1>2, FS_Subset DEF FillsUpTo

LEMMA CountWith ==
  ASSUME NEW counts, NEW p, NEW q, NEW n
  PROVE  Count(With(counts, p, n), q) = IF q = p THEN n ELSE Count(counts, q)
  BY DEF Count, With

LEMMA CountRuleCounts ==
  ASSUME NEW counts, NEW rule, NEW place, Count(counts, place) \in Nat
  PROVE  Count(CountRule(counts, rule), place) =
           Count(counts, place) + (IF Fills(rule, place) THEN 1 ELSE 0)
<1>1. CASE rule.mode = "forEach"
  BY <1>1 DEF CountRule, Fills
<1>2. CASE rule.mode # "forEach"
  <2>1. CountRule(counts, rule) = With(counts, rule.target, Count(counts, rule.target) + 1)
    BY <1>2 DEF CountRule
  <2> QED BY <1>2, <2>1, CountWith DEF Fills
<1> QED BY <1>1, <1>2

\* The counts made of a sequence of rules.
CountsOf(rules) == FoldLeft(CountRule, NoCounts, rules)

LEMMA CountsOfAre ==
  ASSUME NEW rules, NEW n \in Nat, DOMAIN rules = 1 .. n, NEW place
  PROVE  Count(CountsOf(rules), place) = FillsUpTo(rules, n, place)
<1> DEFINE g == CHOOSE f : Counting(rules, n, f)
<1>1. Counting(rules, n, g)
  BY CountingExists
<1>2. CountsOf(rules) = g[1 .. n]
  BY DEF CountsOf, FoldLeft, MapThenFoldSet, Max, Counting, Highest
<1> HIDE DEF g
<1> DEFINE Bad == {k \in 0 .. n : Count(g[1 .. k], place) # FillsUpTo(rules, k, place)}
<1> SUFFICES ASSUME Bad # {} PROVE FALSE
  <2>1. n \in 0 .. n
    OBVIOUS
  <2> QED BY <1>2, <2>1
<1>3. PICK k \in Bad : \A j \in Bad : k <= j
  BY LeastNumber, Bad \in SUBSET Nat
<1>4. CountsOn(rules, g, k)
  <2>1. k \in Nat /\ k <= n
    OBVIOUS
  <2> QED BY <1>1, <2>1, CountingAt
<1>5. CASE k = 0
  <2>1. Count(g[1 .. k], place) = 0
    BY <1>4, <1>5 DEF CountsOn, NoCounts, Count
  <2> QED BY <1>3, <1>5, <2>1, FillsUpToNone
<1>6. CASE k # 0
  <2>1. k - 1 \in 0 .. n /\ k - 1 \in Nat /\ ~(k <= k - 1) /\ (k - 1) + 1 = k
    BY <1>6
  <2>2. Count(g[1 .. (k - 1)], place) = FillsUpTo(rules, k - 1, place)
    BY <1>3, <2>1
  <2>3. FillsUpTo(rules, k - 1, place) \in Nat
    BY <2>1, FillsUpToType
  <2>4. g[1 .. k] = CountRule(g[1 .. (k - 1)], rules[k])
    BY <1>4, <1>6 DEF CountsOn
  <2>5. Count(g[1 .. k], place) = Count(g[1 .. (k - 1)], place) + (IF Fills(rules[k], place) THEN 1 ELSE 0)
    BY <2>2, <2>3, <2>4, CountRuleCounts
  <2>6. FillsUpTo(rules, k, place) = FillsUpTo(rules, k - 1, place) + (IF Fills(rules[k], place) THEN 1 ELSE 0)
    BY <2>1, FillsUpToStep
  <2> QED BY <1>3, <2>2, <2>5, <2>6
<1> QED BY <1>5, <1>6

-----------------------------------------------------------------------------
(* The calls along a path.                                                 *)

TopCall(type, d) == Call(Top(type, d), Entries(Entries(yaml)[type])[<<d>>], <<>>)

NextCall(call, i) ==
  Call(Child(call.level, i), ContentOf(Actions(call.commands, "forEach")[i]),
       call.parent \o NameOf(Actions(call.commands, "forEach")[i]))

Calling(first, path, n, g) ==
  g = [m \in 0 .. n |-> IF m = 0 THEN first ELSE NextCall(g[m - 1], path[m])]

LEMMA CallingExists ==
  ASSUME NEW first, NEW path, NEW N \in Nat PROVE \E g : Calling(first, path, N, g)
<1> DEFINE Bad == {n \in Nat : ~ \E g : Calling(first, path, n, g)}
<1> SUFFICES ASSUME Bad # {} PROVE FALSE
  OBVIOUS
<1>1. PICK n \in Bad : \A m \in Bad : n <= m
  BY LeastNumber
<1>2. CASE n = 0
  <2> DEFINE g == [m \in 0 .. 0 |-> first]
  <2>1. Calling(first, path, 0, g)
    BY DEF Calling
  <2> QED BY <1>1, <1>2, <2>1
<1>3. CASE n > 0
  <2>1. n - 1 \in Nat /\ n - 1 \notin Bad
    BY <1>1, <1>3
  <2>2. PICK g : Calling(first, path, n - 1, g)
    BY <2>1
  <2> DEFINE h == [m \in 0 .. n |-> IF m = n THEN NextCall(g[n - 1], path[n]) ELSE g[m]]
  <2>3. \A m \in 0 .. n : h[m] = IF m = 0 THEN first ELSE NextCall(h[m - 1], path[m])
    <3> SUFFICES ASSUME NEW m \in 0 .. n
                 PROVE  h[m] = IF m = 0 THEN first ELSE NextCall(h[m - 1], path[m])
      OBVIOUS
    <3>1. CASE m = n
      <4>1. h[m] = NextCall(g[n - 1], path[n]) /\ h[n - 1] = g[n - 1] /\ m # 0
        BY <1>3, <3>1
      <4> HIDE DEF h
      <4> QED BY <3>1, <4>1
    <3>2. CASE m # n
      <4>1. m \in 0 .. (n - 1) /\ (m # 0 => m - 1 \in 0 .. n /\ m - 1 # n)
        BY <3>2
      <4>2. h[m] = g[m] /\ (m # 0 => h[m - 1] = g[m - 1])
        BY <3>2, <4>1
      <4> HIDE DEF h
      <4>3. g[m] = IF m = 0 THEN first ELSE NextCall(g[m - 1], path[m])
        BY <2>2, <4>1 DEF Calling
      <4> QED BY <4>2, <4>3
    <3> QED BY <3>1, <3>2
  <2>4. h = [m \in 0 .. n |-> h[m]]
    OBVIOUS
  <2> HIDE DEF h
  <2>5. Calling(first, path, n, h)
    BY <2>3, <2>4 DEF Calling
  <2> QED BY <1>1, <2>5
<1> QED BY <1>2, <1>3

Follow(first, path, n) == (CHOOSE g : Calling(first, path, n, g))[n]

(* The calls along a path depend on as much of it as they have come.       *)
LEMMA CallingAgree ==
  ASSUME NEW first, NEW p, NEW q, NEW m \in Nat, NEW n \in Nat, NEW g, NEW h,
         Calling(first, p, m, g), Calling(first, q, n, h),
         NEW k \in Nat, k <= m, k <= n, \A i \in 1 .. k : p[i] = q[i]
  PROVE  g[k] = h[k]
<1> DEFINE Bad == {j \in 0 .. k : g[j] # h[j]}
<1> SUFFICES ASSUME Bad # {} PROVE FALSE
  OBVIOUS
<1>1. PICK j \in Bad : \A i \in Bad : j <= i
  BY LeastNumber, Bad \in SUBSET Nat
<1>2. g[j] = IF j = 0 THEN first ELSE NextCall(g[j - 1], p[j])
  BY j \in 0 .. m DEF Calling
<1>3. h[j] = IF j = 0 THEN first ELSE NextCall(h[j - 1], q[j])
  BY j \in 0 .. n DEF Calling
<1>4. j # 0 => g[j - 1] = h[j - 1] /\ p[j] = q[j]
  <2> SUFFICES ASSUME j # 0 PROVE g[j - 1] = h[j - 1] /\ p[j] = q[j]
    OBVIOUS
  <2>1. j - 1 \in 0 .. k /\ j \in 1 .. k /\ ~(j <= j - 1)
    OBVIOUS
  <2>2. j - 1 \notin Bad
    BY <1>1, <2>1
  <2> QED BY <2>1, <2>2
<1> QED BY <1>1, <1>2, <1>3, <1>4

LEMMA FollowNone ==
  ASSUME NEW first, NEW path PROVE Follow(first, path, 0) = first
<1> DEFINE g == CHOOSE f : Calling(first, path, 0, f)
<1>1. Calling(first, path, 0, g)
  BY CallingExists
<1> HIDE DEF g
<1>2. g[0] = first
  BY <1>1 DEF Calling
<1> QED BY <1>2 DEF Follow, g

LEMMA FollowOn ==
  ASSUME NEW first, NEW p, NEW q, NEW n \in Nat, \A i \in 1 .. n : p[i] = q[i]
  PROVE  Follow(first, q, n + 1) = NextCall(Follow(first, p, n), q[n + 1])
<1> DEFINE g == CHOOSE f : Calling(first, p, n, f)
           h == CHOOSE f : Calling(first, q, n + 1, f)
<1>1. Calling(first, p, n, g) /\ Calling(first, q, n + 1, h)
  <2>1. n + 1 \in Nat
    OBVIOUS
  <2> QED BY <2>1, CallingExists
<1> HIDE DEF g, h
<1>2. h[n + 1] = NextCall(h[n], q[n + 1])
  <2>1. n + 1 \in 0 .. n + 1 /\ n + 1 # 0 /\ (n + 1) - 1 = n
    OBVIOUS
  <2> QED BY <1>1, <2>1 DEF Calling
<1>3. g[n] = h[n]
  <2>1. n <= n /\ n <= n + 1 /\ n + 1 \in Nat
    OBVIOUS
  <2> QED BY <1>1, <2>1, CallingAgree
<1> QED BY <1>2, <1>3 DEF Follow, g, h

LEMMA CallAtIsFollow ==
  ASSUME NEW level
  PROVE  CallAt(level) = Follow(TopCall(level.type, level.direction), level.path, Len(level.path))
  BY DEF CallAt, Follow, Calling, TopCall, NextCall

IsLevel(level) ==
  /\ level = [type |-> level.type, direction |-> level.direction, path |-> level.path]
  /\ level.path \in Seq(Nat)

LEMMA CallAtTop ==
  ASSUME NEW type, NEW d
  PROVE  IsLevel(Top(type, d)) /\ CallAt(Top(type, d)) = TopCall(type, d)
<1> DEFINE level == Top(type, d)
<1>1. level.type = type /\ level.direction = d /\ level.path = <<>> /\ Len(level.path) = 0
  BY DEF Top
<1>2. IsLevel(level)
  BY DEF Top, IsLevel
<1> HIDE DEF level
<1>3. CallAt(level) = Follow(TopCall(type, d), <<>>, 0)
  BY <1>1, CallAtIsFollow
<1> QED BY <1>2, <1>3, FollowNone DEF level

LEMMA CallAtChild ==
  ASSUME NEW level, IsLevel(level), NEW i \in Nat
  PROVE  IsLevel(Child(level, i)) /\ CallAt(Child(level, i)) = NextCall(CallAt(level), i)
<1> DEFINE child == Child(level, i)
           n == Len(level.path)
<1>1. /\ child.type = level.type /\ child.direction = level.direction
      /\ child.path = Append(level.path, i)
  BY DEF Child
<1>2. level.path \in Seq(Nat)
  BY DEF IsLevel
<1>3. /\ child.path \in Seq(Nat) /\ Len(child.path) = n + 1 /\ n \in Nat
      /\ \A j \in 1 .. n : child.path[j] = level.path[j]
      /\ child.path[n + 1] = i
  BY <1>1, <1>2
<1>4. IsLevel(child)
  BY <1>3 DEF IsLevel, Child
<1> HIDE DEF child, n
<1>5. CallAt(child) = Follow(TopCall(level.type, level.direction), child.path, n + 1)
  BY <1>1, <1>3, CallAtIsFollow
<1>6. CallAt(level) = Follow(TopCall(level.type, level.direction), level.path, n)
  BY CallAtIsFollow DEF n
<1>7. CallAt(child) = NextCall(CallAt(level), child.path[n + 1])
  <2> DEFINE first == TopCall(level.type, level.direction)
  <2> HIDE DEF first
  <2>1. n \in Nat /\ \A j \in 1 .. n : level.path[j] = child.path[j]
    BY <1>3
  <2>2. Follow(first, child.path, n + 1) = NextCall(Follow(first, level.path, n), child.path[n + 1])
    BY <2>1, FollowOn
  <2> QED BY <1>5, <1>6, <2>2 DEF first
<1> QED BY <1>3, <1>4, <1>7 DEF child

-----------------------------------------------------------------------------
(* Rules.                                                                  *)

LEMMA RuleOfAction ==
  ASSUME NEW mode \in Modes, NEW parent, NEW action, NEW children
  PROVE  LET rule == RuleOf(mode, parent, action, children) IN
           /\ rule.mode = mode
           /\ mode = "forEach" => rule.target = ListPlace(parent, NameOf(action)) /\ rule.children = children
           /\ mode # "forEach" => rule.target = Place(parent, NameOf(action))
           /\ mode \in Moves => rule.source = Place(parent, ContentOf(action).value)
  BY DEF RuleOf, Modes, Moves

LEMMA SequenceRange ==
  ASSUME NEW s, NEW n \in Nat, DOMAIN s = 1 .. n, s = [i \in 1 .. n |-> s[i]]
  PROVE  IsSequence(s) /\ Len(s) = n
<1>1. s \in [1 .. n -> Range(s)]
  BY DEF Range
<1>2. s \in Seq(Range(s))
  BY <1>1, SeqDef
<1>3. Len(s) \in Nat /\ DOMAIN s = 1 .. Len(s)
  BY <1>2, LenProperties
<1> QED BY <1>2, <1>3 DEF IsSequence

LEMMA SequenceDomain ==
  ASSUME NEW s, IsSequence(s)
  PROVE  Len(s) \in Nat /\ DOMAIN s = 1 .. Len(s) /\ s = [i \in 1 .. Len(s) |-> s[i]]
  BY LenProperties DEF IsSequence

\* An action of a command that has been read.
LEMMA ActionsRead ==
  ASSUME NEW commands, NEW parent, IsRules(commands, parent), NEW mode \in Modes
  PROVE  LET actions == Actions(commands, mode) IN
           /\ IsSequence(actions)
           /\ \A i \in DOMAIN actions : IsAction(mode, parent, actions[i])
<1> DEFINE actions == Actions(commands, mode)
<1>1. CASE <<mode>> \in DOMAIN Entries(commands)
  <2>1. Entries(commands) = commands.entries
    BY DEF IsRules, Entries
  <2>2. IsCommand(<<mode>>, parent, commands.entries[<<mode>>])
    BY <1>1, <2>1 DEF IsRules
  <2>3. actions = commands.entries[<<mode>>].items
    BY <1>1, <2>1 DEF Actions
  <2>4. IsSequence(actions) /\ \A action \in Range(actions) : IsAction(mode, parent, action)
    BY <2>2, <2>3 DEF IsCommand, IsList
  <2> HIDE DEF actions
  <2>5. \A i \in DOMAIN actions : actions[i] \in Range(actions)
    BY DEF Range
  <2> QED BY <2>4, <2>5 DEF actions
<1>2. CASE <<mode>> \notin DOMAIN Entries(commands)
  <2>1. actions = <<>>
    BY <1>2 DEF Actions
  <2>2. IsSequence(actions) /\ DOMAIN actions = {}
    BY <2>1 DEF IsSequence
  <2> QED BY <2>2
<1> QED BY <1>1, <1>2

LEMMA RulesOfCall ==
  ASSUME NEW call, IsRules(call.commands, call.parent), NEW mode \in Modes
  PROVE  LET actions == Actions(call.commands, mode)
             rules == RulesOf(call)[mode]
         IN /\ IsSequence(rules) /\ IsSequence(actions)
            /\ Len(rules) = Len(actions) /\ DOMAIN rules = DOMAIN actions
            /\ \A i \in DOMAIN rules :
                 rules[i] = RuleOf(mode, call.parent, actions[i], Child(call.level, i))
<1> DEFINE actions == Actions(call.commands, mode)
           rules == RulesOf(call)[mode]
<1>1. IsSequence(actions)
  BY ActionsRead
<1>2. rules = [i \in DOMAIN actions |-> RuleOf(mode, call.parent, actions[i], Child(call.level, i))]
  BY DEF RulesOf
<1> HIDE DEF actions, rules
<1>3. Len(actions) \in Nat /\ DOMAIN actions = 1 .. Len(actions)
  BY <1>1, SequenceDomain
<1>4. DOMAIN rules = 1 .. Len(actions) /\ rules = [i \in 1 .. Len(actions) |-> rules[i]]
  BY <1>2, <1>3
<1>5. IsSequence(rules) /\ Len(rules) = Len(actions)
  BY <1>3, <1>4, SequenceRange
<1> QED BY <1>1, <1>2, <1>3, <1>4, <1>5 DEF actions, rules

LEMMA TargetOfAction ==
  ASSUME NEW parent, NEW name, NEW content,
         IsSequence(parent), IsName(name), IsTarget(parent \o name, content)
  PROVE  /\ IsSequence(Place(parent, name).field)
         /\ Place(parent, name).metadata => Place(parent, name).field # <<>>
         /\ parent # <<>> => Place(parent, name).field = name
<1> DEFINE full == parent \o name
           S == Range(parent) \cup Range(name)
           rest == Tail(full)
<1>1. parent \in Seq(S) /\ name \in Seq(S) /\ name # <<>>
  <2>1. parent \in Seq(Range(parent)) /\ name \in Seq(Range(name)) /\ name # <<>>
    BY DEF IsSequence, IsName
  <2> HIDE DEF full, rest
  <2>2. Range(parent) \subseteq S /\ Range(name) \subseteq S
    OBVIOUS
  <2>3. parent \in Seq(S)
    BY <2>1, <2>2, SeqMonotonic
  <2>4. name \in Seq(S)
    BY <2>1, <2>2, SeqMonotonic
  <2> QED BY <2>1, <2>3, <2>4
<1> HIDE DEF S
<1>2. /\ full \in Seq(S) /\ Len(full) = Len(parent) + Len(name)
      /\ \A i \in 1 .. Len(name) : full[Len(parent) + i] = name[i]
      /\ Len(parent) \in Nat /\ Len(name) \in Nat \ {0} /\ full # <<>>
  BY <1>1
<1>3. Head(full) \in {"metadata", "payload"}
  BY DEF IsTarget
<1>4. rest \in Seq(S) /\ Len(rest) = Len(full) - 1 /\ \A i \in 1 .. Len(rest) : rest[i] = full[i + 1]
  BY <1>2, HeadTailProperties
<1> DEFINE place == Place(parent, name)
<1>5. /\ place.field = IF parent = <<>> THEN rest ELSE SubSeq(rest, Len(parent), Len(rest))
      /\ place.metadata = (Head(full) = "metadata")
  BY <1>3 DEF Place, Glued
<1>6. CASE parent = <<>>
  <2>1. place.field = rest
    BY <1>5, <1>6
  <2>2. IsSequence(rest)
    BY <1>4, SeqOfRange DEF IsSequence
  <2>3. place.metadata => Tail(full) # <<>>
    BY <1>5 DEF IsTarget, NoField
  <2> QED BY <1>6, <2>1, <2>2, <2>3
<1>7. CASE parent # <<>>
  <2>1. Len(parent) \in Nat \ {0}
    BY <1>1, <1>7
  <2>2. \A i \in Len(parent) .. Len(rest) : rest[i] \in S
    BY <1>4, <2>1
  <2>3. place.field = SubSeq(rest, Len(parent), Len(rest))
    BY <1>5, <1>7
  <2> HIDE DEF full, rest, place
  <2>4. Len(rest) \in Int /\ Len(parent) \in Int /\ Len(rest) = Len(parent) + Len(name) - 1 /\ Len(parent) <= Len(rest)
    BY <1>2, <1>4, <2>1
  <2>5. /\ place.field \in Seq(S) /\ Len(place.field) = Len(rest) - Len(parent) + 1
        /\ \A i \in 1 .. Len(rest) - Len(parent) + 1 : place.field[i] = rest[Len(parent) + i - 1]
    BY <2>2, <2>3, <2>4, SubSeqProperties
  <2>6. Len(place.field) = Len(name)
    BY <1>2, <2>4, <2>5
  <2>7. \A i \in 1 .. Len(place.field) : place.field[i] = name[i]
    <3> SUFFICES ASSUME NEW i \in 1 .. Len(place.field) PROVE place.field[i] = name[i]
      OBVIOUS
    <3>1. Len(parent) + i - 1 \in 1 .. Len(rest) /\ i \in 1 .. Len(name) /\ (Len(parent) + i - 1) + 1 = Len(parent) + i
      BY <1>2, <2>1, <2>4, <2>6
    <3>2. place.field[i] = rest[Len(parent) + i - 1]
      BY <2>4, <2>5, <2>6
    <3> QED BY <1>2, <1>4, <3>1, <3>2
  <2>8. place.field = name
    BY <1>1, <2>5, <2>6, <2>7, SeqEqual
  <2> QED BY <2>8, <1>7 DEF place, IsName
<1> QED BY <1>6, <1>7

-----------------------------------------------------------------------------
(* Reading a configuration.                                                *)

\* The calls are those along the paths of their levels ...
CallsRead ==
  \A call \in calls :
    IsLevel(call.level) /\ call = CallAt(call.level) /\ IsSequence(call.parent)

\* ... and the tables have been made by such calls.
TableRead(level) ==
  /\ IsLevel(level) /\ CallAt(level).level = level
  /\ IsSequence(CallAt(level).parent)
  /\ IsRules(CallAt(level).commands, CallAt(level).parent)
  /\ codec.tables[level] = RulesOf(CallAt(level))

TablesRead == \A level \in DOMAIN codec.tables : TableRead(level)

\* What has a table, or is yet to get one: the lists of the tables there
\* are, and all types.
Known == DOMAIN codec.tables \cup {call.level : call \in calls}

ListsKnown ==
  \A level \in DOMAIN codec.tables :
    \A i \in DOMAIN Actions(CallAt(level).commands, "forEach") : Child(level, i) \in Known

TypesKnown ==
  \A type \in TypesOf(yaml) : \A d \in DOMAIN Entries(Entries(yaml)[type]) :
    Top(type, d[1]) \in Known

\* The counts are those of the tables, and with those of "*" in the end.
CountsRead ==
  /\ DOMAIN codec.fields = DOMAIN codec.tables
  /\ \A level \in DOMAIN codec.tables :
       codec.fields[level] = CountsOf(InOrder(codec.tables[level]))

TotalsRead ==
  /\ DOMAIN codec.fields = DOMAIN codec.tables
  /\ \A level \in DOMAIN codec.tables : \A place :
       Count(codec.fields[level], place) = AllFillsOf(level, place)

CodecShape ==
  codec = [tables |-> codec.tables, fields |-> codec.fields, allowMissing |-> codec.allowMissing,
           ignoreControlMessages |-> codec.ignoreControlMessages]

Read1 == CodecShape /\ CallsRead /\ TablesRead /\ ListsKnown /\ TypesKnown

ReadInv ==
  /\ outcome \notin {"new", "refused"} => Read1
  /\ outcome = "reading" => CountsRead
  /\ outcome \notin {"new", "refused", "reading"} => calls = {} /\ TotalsRead

LEMMA CallAtSame ==
  ASSUME NEW level, yaml' = yaml PROVE CallAt(level)' = CallAt(level)
  BY DEF CallAt

LEMMA ConstructReads ==
  ReadInv /\ Construct => ReadInv'
<1> SUFFICES ASSUME Construct PROVE ReadInv'
  OBVIOUS
<1>1. CASE outcome' = "refused"
  BY <1>1 DEF ReadInv
<1>2. CASE outcome' # "refused"
  <2>1. /\ IsConfig(yaml) /\ calls' = TopCalls(yaml) /\ outcome' = "reading" /\ yaml' = yaml
        /\ codec' = CodecWith(Flag(yaml, <<"allowMissing">>), Flag(yaml, <<"ignoreControlMessages">>))
    BY <1>2 DEF Construct
  <2>2. codec'.tables = NoTables /\ codec'.fields = NoFields /\ CodecShape'
    BY <2>1 DEF CodecWith, CodecShape
  <2>3. DOMAIN codec'.tables = {} /\ DOMAIN codec'.fields = {}
    BY <2>2 DEF NoTables, NoFields
  <2>4. ASSUME NEW type \in TypesOf(yaml), NEW d \in DOMAIN Entries(Entries(yaml)[type])
        PROVE  /\ d = <<d[1]>> /\ Entries(Entries(yaml)[type]) = Entries(yaml)[type].entries
               /\ Call(Top(type, d[1]), Entries(yaml)[type].entries[d], <<>>) = TopCall(type, d[1])
    <3>1. IsType(Entries(yaml)[type])
      BY <2>1 DEF IsConfig
    <3>2. Entries(Entries(yaml)[type]) = Entries(yaml)[type].entries
      BY <3>1 DEF IsType, Entries
    <3>3. d = <<d[1]>>
      BY <3>1, <3>2 DEF IsType
    <3> QED BY <3>2, <3>3 DEF TopCall
  <2>5. CallsRead'
    <3> SUFFICES ASSUME NEW call \in calls'
                 PROVE  IsLevel(call.level) /\ call = CallAt(call.level)' /\ IsSequence(call.parent)
      BY DEF CallsRead
    <3>1. PICK type \in TypesOf(yaml) :
            call \in {Call(Top(type, d[1]), Entries(yaml)[type].entries[d], <<>>) :
                        d \in DOMAIN Entries(yaml)[type].entries}
      BY <2>1 DEF TopCalls
    <3>2. PICK d \in DOMAIN Entries(yaml)[type].entries :
            call = Call(Top(type, d[1]), Entries(yaml)[type].entries[d], <<>>)
      BY <3>1
    <3>3. type \in TypesOf(yaml)
      BY <3>1
    <3>4. Entries(Entries(yaml)[type]) = Entries(yaml)[type].entries
      BY <2>1, <3>3 DEF IsConfig, IsType, Entries
    <3>5. call = TopCall(type, d[1])
      BY <2>4, <3>2, <3>3, <3>4
    <3>6. call.level = Top(type, d[1]) /\ call.parent = <<>>
      BY <3>2 DEF Call
    <3>7. IsLevel(call.level) /\ CallAt(call.level) = TopCall(type, d[1])
      BY <3>6, CallAtTop
    <3>8. CallAt(call.level)' = CallAt(call.level)
      BY <2>1, CallAtSame
    <3>9. IsSequence(<<>>)
      BY DEF IsSequence
    <3> QED BY <3>5, <3>6, <3>7, <3>8, <3>9
  <2>6. TablesRead' /\ ListsKnown' /\ CountsRead'
    BY <2>3 DEF TablesRead, ListsKnown, CountsRead
  <2>7. TypesKnown'
    <3> SUFFICES ASSUME NEW type \in TypesOf(yaml), NEW d \in DOMAIN Entries(Entries(yaml)[type])
                 PROVE  Top(type, d[1]) \in Known'
      BY <2>1 DEF TypesKnown
    <3>1. Entries(Entries(yaml)[type]) = Entries(yaml)[type].entries
      BY <2>4
    <3>2. Call(Top(type, d[1]), Entries(yaml)[type].entries[d], <<>>) \in calls'
      BY <2>1, <3>1 DEF TopCalls
    <3>3. Call(Top(type, d[1]), Entries(yaml)[type].entries[d], <<>>).level = Top(type, d[1])
      BY DEF Call
    <3> QED BY <3>2, <3>3 DEF Known
  <2> QED BY <2>1, <2>2, <2>5, <2>6, <2>7 DEF ReadInv, Read1
<1> QED BY <1>1, <1>2

LEMMA CallsOfRead ==
  ASSUME NEW call, IsLevel(call.level), call = CallAt(call.level), IsSequence(call.parent),
         IsRules(call.commands, call.parent), NEW next \in CallsOf(call)
  PROVE  IsLevel(next.level) /\ next = CallAt(next.level) /\ IsSequence(next.parent)
<1> DEFINE lists == Actions(call.commands, "forEach")
<1>1. IsSequence(lists) /\ \A i \in DOMAIN lists : IsAction("forEach", call.parent, lists[i])
  BY ActionsRead DEF Modes
<1>2. PICK i \in DOMAIN lists :
        next = Call(Child(call.level, i), ContentOf(lists[i]), call.parent \o NameOf(lists[i]))
  BY DEF CallsOf
<1>3. next = NextCall(call, i) /\ next.level = Child(call.level, i) /\ next.parent = call.parent \o NameOf(lists[i])
  BY <1>2 DEF NextCall, Call
<1>4. i \in Nat
  <2>1. DOMAIN lists = 1 .. Len(lists) /\ Len(lists) \in Nat
    BY <1>1, SequenceDomain
  <2> HIDE DEF lists
  <2> QED BY <1>2, <2>1
<1>5. IsLevel(next.level) /\ CallAt(next.level) = NextCall(call, i)
  BY <1>3, <1>4, CallAtChild
<1>6. IsSequence(next.parent)
  <2>1. IsName(NameOf(lists[i]))
    BY <1>1, <1>2 DEF IsAction
  <2> DEFINE name == NameOf(lists[i])
             S == Range(call.parent) \cup Range(name)
  <2> HIDE DEF lists
  <2>2. call.parent \in Seq(Range(call.parent)) /\ name \in Seq(Range(name))
    BY <2>1 DEF IsName, IsSequence
  <2> HIDE DEF name
  <2>3. Range(call.parent) \subseteq S /\ Range(name) \subseteq S
    OBVIOUS
  <2>4. call.parent \in Seq(S)
    BY <2>2, <2>3, SeqMonotonic
  <2>5. name \in Seq(S)
    BY <2>2, <2>3, SeqMonotonic
  <2>6. call.parent \o name \in Seq(S)
    BY <2>4, <2>5
  <2>7. call.parent \o name \in Seq(Range(call.parent \o name))
    BY <2>6, SeqOfRange
  <2> QED BY <1>3, <2>7 DEF IsSequence, name
<1> QED BY <1>3, <1>5, <1>6

LEMMA PopulateReads ==
  ReadInv /\ PopulateRules => ReadInv'
<1> SUFFICES ASSUME ReadInv, PopulateRules PROVE ReadInv'
  OBVIOUS
<1>1. CASE outcome' = "refused"
  BY <1>1 DEF ReadInv
<1>2. CASE outcome' # "refused"
  <2>1. outcome = "reading" /\ yaml' = yaml
    BY DEF PopulateRules
  <2>2. PICK call \in calls :
          /\ IsRules(call.commands, call.parent)
          /\ codec' = [codec EXCEPT !.tables = With(@, call.level, RulesOf(call)),
                                    !.fields = With(@, call.level, FieldCounts(RulesOf(call)))]
          /\ calls' = (calls \ {call}) \cup CallsOf(call)
          /\ outcome' = outcome
    BY <1>2 DEF PopulateRules
  <2>3. Read1 /\ CountsRead
    BY <2>1 DEF ReadInv
  <2> DEFINE level == call.level
             tables == With(codec.tables, level, RulesOf(call))
             fields == With(codec.fields, level, CountsOf(InOrder(RulesOf(call))))
  <2>4. codec'.tables = tables /\ codec'.fields = fields /\ CodecShape'
    BY <2>2, <2>3 DEF Read1, CodecShape, FieldCounts, CountsOf
  <2>5. /\ DOMAIN tables = DOMAIN codec.tables \cup {level}
        /\ \A l \in DOMAIN tables : tables[l] = IF l = level THEN RulesOf(call) ELSE codec.tables[l]
    BY DEF With
  <2>6. /\ DOMAIN fields = DOMAIN codec.fields \cup {level}
        /\ \A l \in DOMAIN fields :
             fields[l] = IF l = level THEN CountsOf(InOrder(RulesOf(call))) ELSE codec.fields[l]
    BY DEF With
  <2>7. IsLevel(level) /\ call = CallAt(level) /\ IsSequence(call.parent)
    BY <2>3 DEF Read1, CallsRead
  <2> HIDE DEF tables, fields
  <2>8. \A l : CallAt(l)' = CallAt(l)
    BY <2>1, CallAtSame
  <2>9. CallsRead'
    <3> SUFFICES ASSUME NEW c \in calls'
                 PROVE  IsLevel(c.level) /\ c = CallAt(c.level) /\ IsSequence(c.parent)
      BY <2>8 DEF CallsRead
    <3>1. CASE c \in calls
      BY <2>3, <3>1 DEF Read1, CallsRead
    <3>2. CASE c \in CallsOf(call)
      BY <2>2, <2>7, <3>2, CallsOfRead
    <3> QED BY <2>2, <3>1, <3>2
  <2>10. TablesRead'
    <3> SUFFICES ASSUME NEW l \in DOMAIN tables PROVE TableRead(l)'
      BY <2>4 DEF TablesRead
    <3>1. CASE l = level
      BY <2>2, <2>4, <2>5, <2>7, <2>8, <3>1 DEF TableRead
    <3>2. CASE l # level
      <4>1. l \in DOMAIN codec.tables
        BY <2>5, <3>2
      <4>2. TableRead(l)
        BY <2>3, <4>1 DEF Read1, TablesRead
      <4>3. codec'.tables[l] = codec.tables[l]
        BY <2>4, <2>5, <3>2
      <4> QED BY <2>8, <4>2, <4>3 DEF TableRead
    <3> QED BY <3>1, <3>2
  <2>11. ASSUME NEW l \in Known PROVE l \in Known'
    <3>1. CASE l \in DOMAIN codec.tables
      BY <2>4, <2>5, <3>1 DEF Known
    <3>2. CASE l \notin DOMAIN codec.tables
      <4>1. PICK c \in calls : l = c.level
        BY <3>2 DEF Known
      <4>2. CASE c = call
        BY <2>4, <2>5, <4>1, <4>2 DEF Known
      <4>3. CASE c # call
        BY <2>2, <4>1, <4>3 DEF Known
      <4> QED BY <4>2, <4>3
    <3> QED BY <3>1, <3>2
  <2>12. ListsKnown'
    <3> SUFFICES ASSUME NEW l \in DOMAIN tables, NEW i \in DOMAIN Actions(CallAt(l).commands, "forEach")
                 PROVE  Child(l, i) \in Known'
      BY <2>4, <2>8 DEF ListsKnown
    <3>1. CASE l = level
      <4>1. i \in DOMAIN Actions(call.commands, "forEach")
        BY <2>7, <3>1
      <4> DEFINE lists == Actions(call.commands, "forEach")
                 next == Call(Child(level, i), ContentOf(lists[i]), call.parent \o NameOf(lists[i]))
      <4>2. next \in CallsOf(call)
        BY <4>1 DEF CallsOf
      <4>3. next.level = Child(level, i)
        BY DEF Call
      <4> HIDE DEF next
      <4>4. next \in calls'
        BY <2>2, <4>2
      <4> QED BY <3>1, <4>3, <4>4 DEF Known
    <3>2. CASE l # level
      <4>1. l \in DOMAIN codec.tables
        BY <2>5, <3>2
      <4>2. Child(l, i) \in Known
        BY <2>3, <4>1 DEF Read1, ListsKnown
      <4> QED BY <2>11, <4>2
    <3> QED BY <3>1, <3>2
  <2>13. TypesKnown'
    BY <2>1, <2>3, <2>11 DEF Read1, TypesKnown
  <2>14. CountsRead'
    <3>1. DOMAIN fields = DOMAIN tables
      BY <2>3, <2>5, <2>6 DEF CountsRead
    <3>2. ASSUME NEW l \in DOMAIN tables PROVE fields[l] = CountsOf(InOrder(tables[l]))
      <4>1. CASE l = level
        BY <2>5, <2>6, <3>1, <4>1
      <4>2. CASE l # level
        <5>1. l \in DOMAIN codec.tables
          BY <2>5, <4>2
        <5>2. codec.fields[l] = CountsOf(InOrder(codec.tables[l]))
          BY <2>3, <5>1 DEF CountsRead
        <5> QED BY <2>5, <2>6, <3>1, <4>2, <5>2
      <4> QED BY <4>1, <4>2
    <3> QED BY <2>4, <3>1, <3>2 DEF CountsRead
  <2> QED BY <2>1, <2>2, <2>4, <2>9, <2>10, <2>12, <2>13, <2>14 DEF ReadInv, Read1
<1> QED BY <1>1, <1>2

-----------------------------------------------------------------------------
(* The steps of a level.                                                   *)

IsTable(rules) == \A mode \in Modes : IsSequence(rules[mode])

FromTable(rule, rules) == \E mode \in Modes : \E i \in DOMAIN rules[mode] : rule = rules[mode][i]

LEMMA InOrderIs ==
  ASSUME NEW rules, IsTable(rules)
  PROVE  IsSequence(InOrder(rules)) /\ \A i \in DOMAIN InOrder(rules) : FromTable(InOrder(rules)[i], rules)
<1> DEFINE S == UNION {Range(rules[mode]) : mode \in Modes}
<1>1. ASSUME NEW mode \in Modes PROVE rules[mode] \in Seq(S)
  <2>1. rules[mode] \in Seq(Range(rules[mode]))
    BY DEF IsTable, IsSequence
  <2>2. Range(rules[mode]) \subseteq S
    OBVIOUS
  <2> HIDE DEF S
  <2> QED BY <2>1, <2>2, SeqMonotonic
<1>2. ASSUME NEW r \in S PROVE FromTable(r, rules)
  BY DEF FromTable, Range
<1> HIDE DEF S
<1>3. /\ rules["copyFrom"] \in Seq(S) /\ rules["mapFrom"] \in Seq(S) /\ rules["forEach"] \in Seq(S)
      /\ rules["set"] \in Seq(S) /\ rules["defaultValue"] \in Seq(S)
  BY <1>1 DEF Modes
<1>4. InOrder(rules) \in Seq(S)
  BY <1>3 DEF InOrder
<1>5. IsSequence(InOrder(rules))
  BY <1>4, SeqOfRange DEF IsSequence
<1>6. \A i \in DOMAIN InOrder(rules) : InOrder(rules)[i] \in S
  BY <1>4
<1> QED BY <1>2, <1>5, <1>6

RulesIn(steps) == [i \in DOMAIN steps |-> steps[i].rule]

TableAt(level) == IF level \in DOMAIN codec.tables THEN codec.tables[level] ELSE NoRules

LEMMA NoRulesIs == IsTable(NoRules) /\ InOrder(NoRules) = <<>>
<1>1. \A mode \in Modes : NoRules[mode] = <<>>
  BY DEF NoRules
<1>2. IsSequence(<<>>)
  BY DEF IsSequence
<1>3. InOrder(NoRules) = <<>> \o <<>> \o <<>> \o <<>> \o <<>>
  BY <1>1 DEF InOrder, Modes
<1> QED BY <1>1, <1>2, <1>3 DEF IsTable

LEMMA TableAtIs ==
  ASSUME TablesRead, NEW level PROVE IsTable(TableAt(level))
<1>1. CASE level \in DOMAIN codec.tables
  <2>1. TableRead(level)
    BY <1>1 DEF TablesRead
  <2>2. \A mode \in Modes : IsSequence(RulesOf(CallAt(level))[mode])
    BY <2>1, RulesOfCall DEF TableRead
  <2> QED BY <1>1, <2>1, <2>2 DEF TableAt, IsTable, TableRead
<1>2. CASE level \notin DOMAIN codec.tables
  BY <1>2, NoRulesIs DEF TableAt
<1> QED BY <1>1, <1>2

\* The rules of the steps of a level are those of its table.
LEMMA StepsOfIs ==
  ASSUME TablesRead, NEW level
  PROVE  /\ IsSequence(StepsOf(level)) /\ RulesIn(StepsOf(level)) = InOrder(TableAt(level))
         /\ IsSequence(InOrder(TableAt(level))) /\ Len(InOrder(TableAt(level))) = Len(StepsOf(level))
         /\ \A i \in DOMAIN StepsOf(level) :
              StepsOf(level)[i].level = level /\ FromTable(StepsOf(level)[i].rule, TableAt(level))
         /\ level \notin DOMAIN codec.tables => StepsOf(level) = <<>>
<1> DEFINE rules == InOrder(TableAt(level))
           steps == StepsOf(level)
<1>1. IsSequence(rules) /\ \A i \in DOMAIN rules : FromTable(rules[i], TableAt(level))
  BY TableAtIs, InOrderIs
<1>2. steps = [i \in DOMAIN rules |-> [level |-> level, rule |-> rules[i]]]
  BY DEF StepsOf, TableAt
<1>3. level \notin DOMAIN codec.tables => rules = <<>>
  BY NoRulesIs DEF TableAt
<1> HIDE DEF rules, steps
<1>4. Len(rules) \in Nat /\ DOMAIN rules = 1 .. Len(rules) /\ rules = [i \in 1 .. Len(rules) |-> rules[i]]
  BY <1>1, SequenceDomain
<1>5. DOMAIN steps = 1 .. Len(rules) /\ steps = [i \in 1 .. Len(rules) |-> steps[i]]
  BY <1>2, <1>4
<1>6. IsSequence(steps) /\ Len(steps) = Len(rules)
  BY <1>4, <1>5, SequenceRange
<1>7. RulesIn(steps) = rules
  BY <1>2, <1>4 DEF RulesIn
<1>8. \A i \in DOMAIN steps : steps[i].level = level /\ steps[i].rule = rules[i] /\ i \in DOMAIN rules
  BY <1>2
<1>9. rules = <<>> => steps = <<>>
  BY <1>2
<1> QED BY <1>1, <1>3, <1>6, <1>7, <1>8, <1>9 DEF rules, steps

\* How many of the first k steps set a place.
FillSteps(steps, k, place) == FillsUpTo(RulesIn(steps), k, place)

LEMMA FillsOfIs ==
  ASSUME TablesRead, NEW level, NEW place
  PROVE  /\ FillsOf(level, place) = FillSteps(StepsOf(level), Len(StepsOf(level)), place)
         /\ FillsOf(level, place) \in Nat
<1> DEFINE steps == StepsOf(level)
<1>1. IsSequence(steps)
  BY StepsOfIs
<1>2. FillsOf(level, place) = Cardinality({i \in DOMAIN steps : Fills(steps[i].rule, place)})
  BY DEF FillsOf
<1> HIDE DEF steps
<1>3. Len(steps) \in Nat /\ DOMAIN steps = 1 .. Len(steps)
  BY <1>1, SequenceDomain
<1>4. \A i \in 1 .. Len(steps) : RulesIn(steps)[i] = steps[i].rule
  BY <1>3 DEF RulesIn
<1>5. FillIndices(RulesIn(steps), Len(steps), place) = {i \in DOMAIN steps : Fills(steps[i].rule, place)}
  BY <1>3, <1>4 DEF FillIndices
<1>6. FillsOf(level, place) = FillsUpTo(RulesIn(steps), Len(steps), place)
  BY <1>2, <1>5 DEF FillsUpTo
<1> QED BY <1>3, <1>6, FillsUpToType DEF FillSteps, steps

LEMMA SumOfCountsIs ==
  ASSUME NEW c, NEW d, NEW place, Count(c, place) \in Nat, Count(d, place) \in Nat
  PROVE  Count(SumOfCounts(c, d), place) = Count(c, place) + Count(d, place)
  BY DEF SumOfCounts, Count

LEMMA ComputeReads ==
  ReadInv /\ ComputeTotals => ReadInv'
<1> SUFFICES ASSUME ReadInv, ComputeTotals PROVE ReadInv'
  OBVIOUS
<1>1. /\ outcome = "reading" /\ calls = {} /\ codec' = [codec EXCEPT !.fields = AddStar(@)]
      /\ outcome' = "ready" /\ yaml' = yaml /\ calls' = calls
  BY DEF ComputeTotals
<1>2. Read1 /\ CountsRead
  BY <1>1 DEF ReadInv
<1>3. codec'.tables = codec.tables /\ codec'.fields = AddStar(codec.fields) /\ CodecShape'
  BY <1>1, <1>2 DEF Read1, CodecShape
<1>4. \A l : CallAt(l)' = CallAt(l)
  BY <1>1, CallAtSame
<1>5. CallsRead' /\ ListsKnown' /\ TypesKnown'
  BY <1>1, <1>2, <1>3, <1>4 DEF Read1, CallsRead, ListsKnown, TypesKnown, Known
<1>6. TablesRead'
  BY <1>2, <1>3, <1>4 DEF Read1, TablesRead, TableRead
<1>7. ASSUME NEW level, NEW place PROVE Count(FieldsAt(codec.fields, level), place) = FillsOf(level, place)
  <2>1. TablesRead
    BY <1>2 DEF Read1
  <2>2. FillsOf(level, place) = FillsUpTo(InOrder(TableAt(level)), Len(StepsOf(level)), place)
    BY <2>1, FillsOfIs, StepsOfIs DEF FillSteps
  <2>3. CASE level \in DOMAIN codec.tables
    <3>1. FieldsAt(codec.fields, level) = CountsOf(InOrder(TableAt(level)))
      BY <1>2, <2>3 DEF CountsRead, FieldsAt, TableAt
    <3>2. /\ Len(StepsOf(level)) \in Nat
          /\ DOMAIN InOrder(TableAt(level)) = 1 .. Len(StepsOf(level))
      BY <2>1, StepsOfIs, SequenceDomain
    <3> QED BY <2>2, <3>1, <3>2, CountsOfAre
  <2>4. CASE level \notin DOMAIN codec.tables
    <3>1. FieldsAt(codec.fields, level) = NoCounts
      BY <1>2, <2>4 DEF CountsRead, FieldsAt
    <3>2. Len(StepsOf(level)) = 0
      BY <2>1, <2>4, StepsOfIs
    <3>3. Count(NoCounts, place) = 0
      BY DEF Count, NoCounts
    <3> QED BY <2>2, <3>1, <3>2, <3>3, FillsUpToNone
  <2> QED BY <2>3, <2>4
<1>8. \A level, place : FillsOf(level, place)' = FillsOf(level, place)
  BY <1>3 DEF FillsOf, StepsOf
<1>9. TotalsRead'
  <2>1. DOMAIN AddStar(codec.fields) = DOMAIN codec.tables
    BY <1>2 DEF CountsRead, AddStar
  <2>2. ASSUME NEW level \in DOMAIN codec.tables, NEW place
        PROVE  Count(AddStar(codec.fields)[level], place) = AllFillsOf(level, place)'
    <3> DEFINE star == Top(Star, level.direction)
    <3>0. codec.fields[level] = FieldsAt(codec.fields, level) /\ level \in DOMAIN codec.fields
      BY <1>2 DEF CountsRead, FieldsAt
    <3>1. FillsOf(level, place) \in Nat /\ FillsOf(star, place) \in Nat
      BY <1>2, FillsOfIs DEF Read1
    <3>2. Count(FieldsAt(codec.fields, level), place) = FillsOf(level, place)
      BY <1>7
    <3>3. Count(FieldsAt(codec.fields, star), place) = FillsOf(star, place)
      BY <1>7
    <3>4. AllFillsOf(level, place)' =
            FillsOf(level, place) + (IF level.path = <<>> /\ level.type # Star THEN FillsOf(star, place) ELSE 0)
      BY <1>8 DEF AllFillsOf
    <3> HIDE DEF star
    <3>5. CASE level.path = <<>> /\ level.type # Star
      <4>1. AddStar(codec.fields)[level] = SumOfCounts(FieldsAt(codec.fields, level), FieldsAt(codec.fields, star))
        BY <3>0, <3>5 DEF AddStar, star
      <4>2. Count(AddStar(codec.fields)[level], place) = FillsOf(level, place) + FillsOf(star, place)
        BY <3>1, <3>2, <3>3, <4>1, SumOfCountsIs
      <4> QED BY <3>4, <3>5, <4>2
    <3>6. CASE ~(level.path = <<>> /\ level.type # Star)
      <4>1. AddStar(codec.fields)[level] = FieldsAt(codec.fields, level)
        BY <3>0, <3>6 DEF AddStar
      <4> QED BY <3>1, <3>2, <3>4, <3>6, <4>1
    <3> QED BY <3>5, <3>6
  <2> QED BY <1>3, <2>1, <2>2 DEF TotalsRead
<1> QED BY <1>1, <1>3, <1>5, <1>6, <1>9 DEF ReadInv, Read1

Constructing == {"new", "refused", "reading"}

\* A step after the constructor's.
MappingStep ==
  /\ yaml' = yaml /\ codec' = codec /\ calls' = calls
  /\ outcome \notin Constructing /\ outcome' \notin Constructing

LEMMA ReadKept ==
  ReadInv /\ yaml' = yaml /\ codec' = codec /\ calls' = calls
    /\ (outcome' = outcome \/ (outcome \notin Constructing /\ outcome' \notin Constructing)) => ReadInv'
<1> SUFFICES ASSUME ReadInv, yaml' = yaml, codec' = codec, calls' = calls,
                    outcome' = outcome \/ (outcome \notin Constructing /\ outcome' \notin Constructing)
             PROVE  ReadInv'
  OBVIOUS
<1>1. \A l : CallAt(l)' = CallAt(l)
  BY CallAtSame
<1>2. \A l, p : AllFillsOf(l, p)' = AllFillsOf(l, p)
  BY DEF AllFillsOf, FillsOf, StepsOf
<1>3. Read1 => Read1'
  BY <1>1 DEF Read1, CodecShape, CallsRead, TablesRead, TableRead, ListsKnown, TypesKnown, Known
<1>4. CountsRead => CountsRead'
  BY DEF CountsRead
<1>5. TotalsRead => TotalsRead'
  BY <1>2 DEF TotalsRead
<1> QED BY <1>3, <1>4, <1>5 DEF ReadInv, Constructing

LEMMA MappingSteps ==
  Receive \/ Apply \/ Finish => MappingStep
<1> USE DEF MappingStep, Constructing
<1>1. Receive => MappingStep
  BY DEF Receive
<1>2. Move \/ MoveNothing \/ Assign => MappingStep
  BY DEF Move, MoveNothing, Assign, Applying, Continue
<1>3. MissSource \/ MissPayload => MappingStep
  BY DEF MissSource, MissPayload, Applying, Continue
<1>4. EnterList \/ SkipList \/ FailList => MappingStep
  BY DEF EnterList, SkipList, FailList, Applying, Continue
<1>5. NextItem \/ LeaveList \/ FailItem \/ Unwind => MappingStep
  BY DEF NextItem, LeaveList, FailItem, Unwind, ItemDone
<1>6. Finish => MappingStep
  BY DEF Finish
<1> QED BY <1>1, <1>2, <1>3, <1>4, <1>5, <1>6 DEF Apply, ForEach

LEMMA ReadAlways == Spec => []ReadInv
<1>1. Init => ReadInv
  BY DEF Init, Start, ReadInv
<1>2. ReadInv /\ [Next]_vars => ReadInv'
  <2> SUFFICES ASSUME ReadInv, [Next]_vars PROVE ReadInv'
    OBVIOUS
  <2>1. CASE Construct
    BY <2>1, ConstructReads
  <2>2. CASE PopulateRules
    BY <2>2, PopulateReads
  <2>3. CASE ComputeTotals
    BY <2>3, ComputeReads
  <2>4. CASE Receive \/ Apply \/ Finish
    BY <2>4, MappingSteps, ReadKept DEF MappingStep
  <2>5. CASE UNCHANGED vars
    <3>1. yaml' = yaml /\ codec' = codec /\ calls' = calls /\ outcome' = outcome
      BY <2>5 DEF vars
    <3> QED BY <3>1, ReadKept
  <2> QED BY <2>1, <2>2, <2>3, <2>4, <2>5 DEF Next
<1> QED BY <1>1, <1>2, PTL DEF Spec

\* A rule that has been read for an action.
LEMMA RuleRead ==
  ASSUME NEW level, TableRead(level), NEW mode \in Modes, NEW i \in DOMAIN codec.tables[level][mode]
  PROVE  LET call == CallAt(level)
             action == Actions(call.commands, mode)[i]
             rule == codec.tables[level][mode][i]
         IN /\ i \in DOMAIN Actions(call.commands, mode) /\ i \in Nat
            /\ rule = RuleOf(mode, call.parent, action, Child(level, i))
            /\ rule.mode = mode /\ IsName(NameOf(action))
            /\ IsSequence(rule.target.field)
            /\ rule.target.metadata => rule.target.field # <<>>
            /\ call.parent # <<>> => rule.target.field = NameOf(action)
<1> DEFINE call == CallAt(level)
           actions == Actions(call.commands, mode)
           rules == codec.tables[level][mode]
           name == NameOf(actions[i])
<1>1. /\ call.level = level /\ IsSequence(call.parent) /\ IsRules(call.commands, call.parent)
      /\ codec.tables[level] = RulesOf(call)
  BY DEF TableRead
<1>2. /\ IsSequence(rules) /\ IsSequence(actions) /\ DOMAIN rules = DOMAIN actions
      /\ rules[i] = RuleOf(mode, call.parent, actions[i], Child(level, i))
  BY <1>1, RulesOfCall
<1>3. IsAction(mode, call.parent, actions[i])
  BY <1>1, <1>2, ActionsRead
<1>4. i \in Nat
  BY <1>2, SequenceDomain
<1>5. IsName(name) /\ IsRule(mode, call.parent, name, ContentOf(actions[i]))
  BY <1>3 DEF IsAction
<1>6. PICK content : IsTarget(call.parent \o name, content)
  <2>1. mode \in Moves \/ mode = "forEach" \/ mode \in {"set", "defaultValue"}
    BY DEF Modes, Moves
  <2>2. Moves = {"copyFrom", "mapFrom"}
    BY DEF Moves
  <2> QED BY <1>5, <2>1, <2>2 DEF IsRule
<1> DEFINE place == Place(call.parent, name)
<1>7. /\ IsSequence(place.field)
      /\ place.metadata => place.field # <<>>
      /\ call.parent # <<>> => place.field = name
  BY <1>1, <1>5, <1>6, TargetOfAction
<1>8. /\ rules[i].mode = mode
      /\ mode = "forEach" => rules[i].target = ListPlace(call.parent, name)
      /\ mode # "forEach" => rules[i].target = place
  BY <1>2, RuleOfAction
<1> HIDE DEF rules, place, call
<1>9. CASE mode # "forEach"
  BY <1>1, <1>2, <1>4, <1>5, <1>7, <1>8, <1>9 DEF rules, call
<1>10. CASE mode = "forEach"
  <2> DEFINE list == ListPlace(call.parent, name)
  <2>1. list = IF place.field = <<>> THEN [place EXCEPT !.field = <<"">>] ELSE place
    BY DEF ListPlace, place
  <2>2. place = [metadata |-> place.metadata, field |-> place.field]
    BY DEF place, Place
  <2>3. IsSequence(<<"">>) /\ <<"">> # <<>>
    <3>1. <<"">> \in Seq({""}) /\ <<"">> # <<>>
      OBVIOUS
    <3> QED BY <3>1, SeqOfRange DEF IsSequence
  <2> HIDE DEF list
  <2>4. /\ IsSequence(list.field) /\ list.field # <<>>
        /\ call.parent # <<>> => list.field = name
    BY <1>5, <1>7, <2>1, <2>2, <2>3 DEF IsName
  <2>5. rules[i].target = list
    BY <1>8, <1>10 DEF list
  <2> QED BY <1>1, <1>2, <1>4, <1>5, <1>8, <2>4, <2>5 DEF rules, call
<1> QED BY <1>9, <1>10

LEMMA ReadIsConfigured == ReadInv => RulesAsConfigured
<1> SUFFICES ASSUME ReadInv, outcome = "ready" PROVE RulesAsConfigured
  BY DEF RulesAsConfigured, AppliedOrRefused, CountsAreTargets
<1>1. Read1 /\ calls = {} /\ TotalsRead
  BY DEF ReadInv
<1>2. Known = DOMAIN codec.tables
  BY <1>1 DEF Known
<1>3. \A type \in TypesOf(yaml) : \A d \in DOMAIN Entries(Entries(yaml)[type]) :
        Top(type, d[1]) \in DOMAIN codec.tables
  BY <1>1, <1>2 DEF Read1, TypesKnown
<1>4. ASSUME NEW level \in DOMAIN codec.tables, NEW mode \in Modes
      PROVE  LET actions == Actions(CallAt(level).commands, mode)
                 rules == codec.tables[level][mode]
             IN /\ Len(rules) = Len(actions)
                /\ \A i \in DOMAIN rules :
                     /\ IsRuleFor(rules[i], mode, actions[i], CallAt(level).parent)
                     /\ mode = "forEach" =>
                          /\ rules[i].children = Child(level, i)
                          /\ rules[i].children \in DOMAIN codec.tables
  <2>1. TableRead(level)
    BY <1>1 DEF Read1, TablesRead
  <2>2. Len(codec.tables[level][mode]) = Len(Actions(CallAt(level).commands, mode))
    BY <2>1, RulesOfCall DEF TableRead
  <2>3. ASSUME NEW i \in DOMAIN codec.tables[level][mode]
        PROVE  IsRuleFor(codec.tables[level][mode][i], mode, Actions(CallAt(level).commands, mode)[i], CallAt(level).parent)
    BY <2>1, RuleRead DEF IsRuleFor
  <2>4. ASSUME NEW i \in DOMAIN codec.tables[level][mode], mode = "forEach"
        PROVE  /\ codec.tables[level][mode][i].children = Child(level, i)
               /\ codec.tables[level][mode][i].children \in DOMAIN codec.tables
    <3>1. /\ i \in DOMAIN Actions(CallAt(level).commands, mode)
          /\ codec.tables[level][mode][i] =
               RuleOf(mode, CallAt(level).parent, Actions(CallAt(level).commands, mode)[i], Child(level, i))
      BY <2>1, RuleRead
    <3>2. codec.tables[level][mode][i].children = Child(level, i)
      BY <2>4, <3>1, RuleOfAction
    <3>3. Child(level, i) \in Known
      BY <1>1, <2>4, <3>1 DEF Read1, ListsKnown
    <3> QED BY <1>2, <3>2, <3>3
  <2> QED BY <2>2, <2>3, <2>4
<1>5. AppliedOrRefused
  BY <1>3, <1>4 DEF AppliedOrRefused
<1>6. CountsAreTargets
  <2> SUFFICES ASSUME NEW level \in DOMAIN codec.fields, NEW place \in DOMAIN codec.fields[level]
               PROVE  codec.fields[level][place] = AllFillsOf(level, place)
    BY DEF CountsAreTargets
  <2>1. Count(codec.fields[level], place) = AllFillsOf(level, place)
    BY <1>1 DEF TotalsRead
  <2> QED BY <2>1 DEF Count
<1> QED BY <1>5, <1>6 DEF RulesAsConfigured

(* A configuration is applied in full, at any depth of forEach, or it is   *)
(* refused; and the field counts count the rules that set a target.        *)
THEOREM AppliedInFull == Spec => []RulesAsConfigured
  BY ReadAlways, ReadIsConfigured, PTL

-----------------------------------------------------------------------------
(* The steps for a message, and how many of them set a place.              *)

LEMMA ConcatSequences ==
  ASSUME NEW s, NEW t, IsSequence(s), IsSequence(t)
  PROVE  /\ IsSequence(s \o t) /\ Len(s \o t) = Len(s) + Len(t)
         /\ DOMAIN (s \o t) = 1 .. Len(s) + Len(t)
         /\ Len(s) \in Nat /\ Len(t) \in Nat
         /\ \A i \in 1 .. Len(s) : (s \o t)[i] = s[i]
         /\ \A i \in 1 .. Len(t) : (s \o t)[Len(s) + i] = t[i]
<1> DEFINE S == Range(s) \cup Range(t)
<1>1. s \in Seq(Range(s)) /\ t \in Seq(Range(t))
  BY DEF IsSequence
<1>2. Range(s) \subseteq S /\ Range(t) \subseteq S
  OBVIOUS
<1> HIDE DEF S
<1>3. s \in Seq(S)
  BY <1>1, <1>2, SeqMonotonic
<1>4. t \in Seq(S)
  BY <1>1, <1>2, SeqMonotonic
<1>5. s \o t \in Seq(S)
  BY <1>3, <1>4
<1>6. IsSequence(s \o t)
  BY <1>5, SeqOfRange DEF IsSequence
<1> QED BY <1>3, <1>4, <1>6

LEMMA FillsAgree ==
  ASSUME NEW rules, NEW other, NEW k \in Nat, \A i \in 1 .. k : rules[i] = other[i], NEW place
  PROVE  FillsUpTo(rules, k, place) = FillsUpTo(other, k, place)
<1>1. FillIndices(rules, k, place) = FillIndices(other, k, place)
  BY DEF FillIndices
<1> QED BY <1>1 DEF FillsUpTo

\* From the m-th on there are n of some others.
Continues(rules, other, m, n) == \A i \in 1 .. n : rules[m + i] = other[i]

LEMMA FillsFrom ==
  ASSUME NEW rules, NEW other, NEW m \in Nat, NEW n \in Nat, Continues(rules, other, m, n), NEW place
  PROVE  FillsUpTo(rules, m + n, place) = FillsUpTo(rules, m, place) + FillsUpTo(other, n, place)
<1> DEFINE Bad == {k \in 0 .. n :
             FillsUpTo(rules, m + k, place) # FillsUpTo(rules, m, place) + FillsUpTo(other, k, place)}
<1> SUFFICES ASSUME Bad # {} PROVE FALSE
  BY n \in 0 .. n
<1>1. PICK k \in Bad : \A j \in Bad : k <= j
  BY LeastNumber, Bad \in SUBSET Nat
<1>2. FillsUpTo(rules, m, place) \in Nat
  BY FillsUpToType
<1>3. CASE k = 0
  <2>1. m + k = m
    BY <1>3
  <2> QED BY <1>1, <1>2, <1>3, <2>1, FillsUpToNone
<1>4. CASE k # 0
  <2>1. k - 1 \in 0 .. n /\ k - 1 \in Nat /\ ~(k <= k - 1) /\ (k - 1) + 1 = k /\ k \in 1 .. n
    BY <1>4
  <2>2. m + (k - 1) \in Nat /\ (m + (k - 1)) + 1 = m + k
    BY <2>1
  <2>3. FillsUpTo(rules, m + (k - 1), place) = FillsUpTo(rules, m, place) + FillsUpTo(other, k - 1, place)
    BY <1>1, <2>1
  <2>4. FillsUpTo(rules, m + k, place) =
          FillsUpTo(rules, m + (k - 1), place) + (IF Fills(rules[m + k], place) THEN 1 ELSE 0)
    BY <2>2, FillsUpToStep
  <2>5. FillsUpTo(other, k, place) = FillsUpTo(other, k - 1, place) + (IF Fills(other[k], place) THEN 1 ELSE 0)
    BY <2>1, FillsUpToStep
  <2>6. FillsUpTo(other, k - 1, place) \in Nat
    BY <2>1, FillsUpToType
  <2>7. rules[m + k] = other[k]
    BY <2>1 DEF Continues
  <2> QED BY <1>1, <1>2, <2>3, <2>4, <2>5, <2>6, <2>7
<1> QED BY <1>3, <1>4

\* All of the steps that set a place.
AllFills(steps, place) == FillSteps(steps, Len(steps), place)

LEMMA AllFillsConcat ==
  ASSUME NEW s, NEW t, IsSequence(s), IsSequence(t), NEW place
  PROVE  AllFills(s \o t, place) = AllFills(s, place) + AllFills(t, place)
<1> DEFINE all == s \o t
<1>1. /\ Len(all) = Len(s) + Len(t) /\ DOMAIN all = 1 .. Len(s) + Len(t)
      /\ Len(s) \in Nat /\ Len(t) \in Nat
      /\ \A i \in 1 .. Len(s) : all[i] = s[i]
      /\ \A i \in 1 .. Len(t) : all[Len(s) + i] = t[i]
      /\ DOMAIN s = 1 .. Len(s) /\ DOMAIN t = 1 .. Len(t)
  BY ConcatSequences, SequenceDomain
<1> HIDE DEF all
<1> DEFINE n == Len(s)
           m == Len(t)
           x == RulesIn(all)
           y == RulesIn(s)
           z == RulesIn(t)
<1>2. n \in Nat /\ m \in Nat
  BY <1>1
<1>3. \A i \in 1 .. n : x[i] = y[i]
  BY <1>1 DEF RulesIn
<1>4. Continues(x, z, n, m)
  BY <1>1 DEF RulesIn, Continues
<1>5. Len(all) = n + m
  BY <1>1
<1> HIDE DEF n, m, x, y, z
<1>6. FillsUpTo(x, n, place) = FillsUpTo(y, n, place)
  BY <1>2, <1>3, FillsAgree
<1>7. FillsUpTo(x, n + m, place) = FillsUpTo(x, n, place) + FillsUpTo(z, m, place)
  BY <1>2, <1>4, FillsFrom
<1>8. FillsUpTo(x, n + m, place) = FillsUpTo(y, n, place) + FillsUpTo(z, m, place)
  BY <1>6, <1>7
<1> QED BY <1>5, <1>8 DEF AllFills, FillSteps, all, n, m, x, y, z

LEMMA AllFillsNat ==
  ASSUME NEW steps, IsSequence(steps), NEW place
  PROVE  AllFills(steps, place) \in Nat
<1>1. Len(steps) \in Nat
  BY SequenceDomain
<1> QED BY <1>1, FillsUpToType DEF AllFills, FillSteps

\* A step that sets a place counts.
LEMMA FillStep ==
  ASSUME NEW steps, IsSequence(steps), NEW i \in DOMAIN steps, NEW place, Fills(steps[i].rule, place)
  PROVE  /\ FillSteps(steps, i, place) = FillSteps(steps, i - 1, place) + 1
         /\ FillSteps(steps, i - 1, place) \in Nat /\ i \in Nat
<1>1. Len(steps) \in Nat /\ DOMAIN steps = 1 .. Len(steps)
  BY SequenceDomain
<1>2. i - 1 \in Nat /\ (i - 1) + 1 = i /\ i \in Nat
  BY <1>1
<1>3. RulesIn(steps)[i] = steps[i].rule
  BY DEF RulesIn
<1>4. FillSteps(steps, i, place) = FillSteps(steps, i - 1, place) + 1
  BY <1>2, <1>3, FillsUpToStep DEF FillSteps
<1> QED BY <1>2, <1>4, FillsUpToType DEF FillSteps

\* A step is one of a level, with a rule of its table.
IsStep(step) == FromTable(step.rule, TableAt(step.level))

SagType == <<"sag", "type">>

TypeOf(m) == Entries(m.metadata)[SagType].value

LEMMA TypeStepsIs ==
  ASSUME TablesRead, NEW m, NEW d
  PROVE  /\ IsSequence(TypeSteps(m, d))
         /\ \A i \in DOMAIN TypeSteps(m, d) : IsStep(TypeSteps(m, d)[i])
         /\ TypeSteps(m, d) = IF HasEntry(m, SagType) THEN StepsOf(Top(TypeOf(m), d)) ELSE <<>>
<1>1. CASE HasEntry(m, SagType)
  <2>1. TypeSteps(m, d) = StepsOf(Top(TypeOf(m), d))
    BY <1>1 DEF TypeSteps, TypeOf, SagType
  <2> QED BY <1>1, <2>1, StepsOfIs DEF IsStep
<1>2. CASE ~HasEntry(m, SagType)
  <2>1. TypeSteps(m, d) = <<>>
    BY <1>2 DEF TypeSteps, SagType
  <2>2. IsSequence(<<>>) /\ DOMAIN <<>> = {}
    BY DEF IsSequence
  <2> QED BY <1>2, <2>1, <2>2
<1> QED BY <1>1, <1>2

LEMMA RulesForIs ==
  ASSUME TablesRead, NEW m, NEW d
  PROVE  /\ IsSequence(RulesFor(m, d)) /\ \A i \in DOMAIN RulesFor(m, d) : IsStep(RulesFor(m, d)[i])
<1>1. CASE Ignored(m)
  <2>1. RulesFor(m, d) = <<>>
    BY <1>1 DEF RulesFor
  <2>2. IsSequence(<<>>) /\ DOMAIN <<>> = {}
    BY DEF IsSequence
  <2> QED BY <2>1, <2>2
<1>2. CASE ~Ignored(m)
  <2> DEFINE s == TypeSteps(m, d)
             t == StepsOf(Top(Star, d))
  <2>1. RulesFor(m, d) = s \o t
    BY <1>2 DEF RulesFor
  <2>2. IsSequence(s) /\ \A i \in DOMAIN s : IsStep(s[i])
    BY TypeStepsIs
  <2>3. IsSequence(t) /\ \A i \in DOMAIN t : IsStep(t[i])
    BY StepsOfIs DEF IsStep
  <2> HIDE DEF s, t
  <2>4. /\ IsSequence(s \o t) /\ DOMAIN (s \o t) = 1 .. Len(s) + Len(t)
        /\ Len(s) \in Nat /\ Len(t) \in Nat
        /\ \A i \in 1 .. Len(s) : (s \o t)[i] = s[i]
        /\ \A i \in 1 .. Len(t) : (s \o t)[Len(s) + i] = t[i]
    BY <2>2, <2>3, ConcatSequences
  <2>5. DOMAIN s = 1 .. Len(s) /\ DOMAIN t = 1 .. Len(t)
    BY <2>2, <2>3, SequenceDomain
  <2>6. ASSUME NEW i \in DOMAIN (s \o t) PROVE IsStep((s \o t)[i])
    <3>1. CASE i <= Len(s)
      BY <2>2, <2>4, <2>5, <3>1
    <3>2. CASE ~(i <= Len(s))
      <4>1. i - Len(s) \in 1 .. Len(t) /\ Len(s) + (i - Len(s)) = i
        BY <2>4, <3>2
      <4>2. (s \o t)[Len(s) + (i - Len(s))] = t[i - Len(s)]
        BY <2>4, <4>1
      <4> QED BY <2>3, <2>5, <4>1, <4>2
    <3> QED BY <3>1, <3>2
  <2> QED BY <2>1, <2>4, <2>6
<1> QED BY <1>1, <1>2

-----------------------------------------------------------------------------
(* The frames.                                                             *)

LEMMA ReplaceHead ==
  ASSUME NEW s, IsSequence(s), Len(s) >= 1, NEW f
  PROVE  /\ IsSequence(<<f>> \o Tail(s)) /\ Len(<<f>> \o Tail(s)) = Len(s)
         /\ (<<f>> \o Tail(s))[1] = f
         /\ \A k \in 2 .. Len(s) : (<<f>> \o Tail(s))[k] = s[k]
<1> DEFINE S == Range(s) \cup {f}
<1>1. s \in Seq(Range(s)) /\ Range(s) \subseteq S /\ f \in S
  BY DEF IsSequence
<1> HIDE DEF S
<1>2. s \in Seq(S)
  BY <1>1, SeqMonotonic
<1>3. s # <<>> /\ Len(s) \in Nat
  BY <1>2
<1>4. Tail(s) \in Seq(S) /\ Len(Tail(s)) = Len(s) - 1 /\ \A k \in 1 .. Len(s) - 1 : Tail(s)[k] = s[k + 1]
  BY <1>2, <1>3
<1>5. <<f>> \in Seq(S) /\ Len(<<f>>) = 1
  BY <1>1
<1>6. <<f>> \o Tail(s) \in Seq(S)
  BY <1>4, <1>5
<1>7. IsSequence(<<f>> \o Tail(s))
  BY <1>6, SeqOfRange DEF IsSequence
<1>8. Len(<<f>> \o Tail(s)) = Len(s)
  BY <1>3, <1>4, <1>5
<1>9. (<<f>> \o Tail(s))[1] = f
  BY <1>4, <1>5
<1>10. ASSUME NEW k \in 2 .. Len(s) PROVE (<<f>> \o Tail(s))[k] = s[k]
  <2>1. k - 1 \in 1 .. Len(s) - 1 /\ (k - 1) + 1 = k
    BY <1>3
  <2>2. (<<f>> \o Tail(s))[k] = Tail(s)[k - 1]
    BY <1>3, <1>4, <1>5
  <2>3. Tail(s)[k - 1] = s[(k - 1) + 1]
    BY <1>4, <2>1
  <2> QED BY <2>1, <2>2, <2>3
<1> QED BY <1>7, <1>8, <1>9, <1>10

LEMMA PushHead ==
  ASSUME NEW s, IsSequence(s), NEW f
  PROVE  /\ IsSequence(<<f>> \o s) /\ Len(<<f>> \o s) = Len(s) + 1 /\ Len(s) \in Nat
         /\ (<<f>> \o s)[1] = f
         /\ \A k \in 2 .. Len(s) + 1 : (<<f>> \o s)[k] = s[k - 1]
<1> DEFINE S == Range(s) \cup {f}
<1>1. s \in Seq(Range(s)) /\ Range(s) \subseteq S /\ f \in S
  BY DEF IsSequence
<1> HIDE DEF S
<1>2. s \in Seq(S)
  BY <1>1, SeqMonotonic
<1>3. Len(s) \in Nat
  BY <1>2
<1>4. <<f>> \in Seq(S) /\ Len(<<f>>) = 1
  BY <1>1
<1>5. <<f>> \o s \in Seq(S)
  BY <1>2, <1>4
<1>6. IsSequence(<<f>> \o s)
  BY <1>5, SeqOfRange DEF IsSequence
<1>7. Len(<<f>> \o s) = Len(s) + 1
  BY <1>2, <1>4
<1>8. (<<f>> \o s)[1] = f
  BY <1>2, <1>4
<1>9. \A k \in 2 .. Len(s) + 1 : (<<f>> \o s)[k] = s[k - 1]
  BY <1>2, <1>3, <1>4
<1> QED BY <1>3, <1>6, <1>7, <1>8, <1>9

LEMMA DropHead ==
  ASSUME NEW s, IsSequence(s), Len(s) >= 1
  PROVE  /\ IsSequence(Tail(s)) /\ Len(Tail(s)) = Len(s) - 1 /\ Len(s) \in Nat
         /\ \A k \in 1 .. Len(s) - 1 : Tail(s)[k] = s[k + 1]
<1>1. s \in Seq(Range(s)) /\ s # <<>> /\ Len(s) \in Nat
  BY DEF IsSequence
<1>2. Tail(s) \in Seq(Range(s)) /\ Len(Tail(s)) = Len(s) - 1 /\ \A k \in 1 .. Len(s) - 1 : Tail(s)[k] = s[k + 1]
  BY <1>1
<1>3. IsSequence(Tail(s))
  BY <1>2, SeqOfRange DEF IsSequence
<1> QED BY <1>1, <1>2, <1>3

LEMMA ReplaceTwo ==
  ASSUME NEW s, IsSequence(s), Len(s) >= 2, NEW f
  PROVE  /\ IsSequence(<<f>> \o Tail(Tail(s))) /\ Len(<<f>> \o Tail(Tail(s))) = Len(s) - 1
         /\ Len(s) \in Nat
         /\ (<<f>> \o Tail(Tail(s)))[1] = f
         /\ \A k \in 2 .. Len(s) - 1 : (<<f>> \o Tail(Tail(s)))[k] = s[k + 1]
<1> DEFINE t == Tail(s)
<1>1. Len(s) \in Nat
  BY SequenceDomain
<1>2. IsSequence(t) /\ Len(t) = Len(s) - 1 /\ \A k \in 1 .. Len(s) - 1 : t[k] = s[k + 1]
  BY <1>1, DropHead
<1> HIDE DEF t
<1>3. Len(t) >= 1
  BY <1>1, <1>2
<1>4. /\ IsSequence(<<f>> \o Tail(t)) /\ Len(<<f>> \o Tail(t)) = Len(t) /\ (<<f>> \o Tail(t))[1] = f
      /\ \A k \in 2 .. Len(t) : (<<f>> \o Tail(t))[k] = t[k]
  BY <1>2, <1>3, ReplaceHead
<1>5. ASSUME NEW k \in 2 .. Len(s) - 1 PROVE (<<f>> \o Tail(t))[k] = s[k + 1]
  <2>1. k \in 2 .. Len(t) /\ k \in 1 .. Len(s) - 1
    BY <1>1, <1>2
  <2> QED BY <1>2, <1>4, <2>1
<1> QED BY <1>1, <1>2, <1>4, <1>5 DEF t

\* A frame, of the message or of an item of a list; and one that waits for
\* the items of a list.
IsFrame(f) ==
  /\ f = [message |-> f.message, steps |-> f.steps, next |-> f.next, current |-> f.current,
          items |-> f.items, at |-> f.at]
  /\ f.next \in Nat /\ f.next >= 1 /\ f.next <= Len(f.steps) + 1

OfMessage(f) == f.steps = RulesFor(received, direction)
OfItem(f) == \E level : level.path # <<>> /\ f.steps = StepsOf(level)

Waiting(f) == f.next <= Len(f.steps) /\ StepAt(f).rule.mode = "forEach"

Placed(f, k, n) ==
  /\ IsFrame(f)
  /\ k = n => OfMessage(f)
  /\ k # n => OfItem(f)
  /\ k # 1 => Waiting(f)

Stack(fs) ==
  /\ IsSequence(fs) /\ Len(fs) >= 1
  /\ \A k \in 1 .. Len(fs) : Placed(fs[k], k, Len(fs))

\* A count is that of rules there have been.
SoundAt(f, place) ==
  \/ Count(f.current, place) = Filled
  \/ /\ Count(f.current, place) \in Nat
     /\ Count(f.current, place) <= FillSteps(f.steps, f.next - 1, place)

Sound(f) == \A place : SoundAt(f, place)

AllSound(fs) == \A k \in 1 .. Len(fs) : Sound(fs[k])

LEMMA StackReplaced ==
  ASSUME NEW s, Stack(s), NEW f, Placed(f, 1, Len(s))
  PROVE  /\ Stack(<<f>> \o Tail(s)) /\ (<<f>> \o Tail(s))[1] = f
         /\ AllSound(s) /\ Sound(f) => AllSound(<<f>> \o Tail(s))
<1> DEFINE r == <<f>> \o Tail(s)
<1>1. IsSequence(s) /\ Len(s) >= 1
  BY DEF Stack
<1>2. IsSequence(r) /\ Len(r) = Len(s) /\ r[1] = f /\ \A k \in 2 .. Len(s) : r[k] = s[k]
  BY <1>1, ReplaceHead
<1>3. Len(s) \in Nat
  BY <1>1, SequenceDomain
<1> HIDE DEF r
<1>4. ASSUME NEW k \in 1 .. Len(s) PROVE k = 1 \/ k \in 2 .. Len(s)
  BY <1>3
<1>5. Stack(r)
  BY <1>1, <1>2, <1>4 DEF Stack
<1>6. AllSound(s) /\ Sound(f) => AllSound(r)
  BY <1>2, <1>4 DEF AllSound
<1> QED BY <1>2, <1>5, <1>6 DEF r

LEMMA StackPushed ==
  ASSUME NEW s, Stack(s), Waiting(s[1]), NEW f, IsFrame(f), OfItem(f)
  PROVE  /\ Stack(<<f>> \o s)
         /\ AllSound(s) /\ Sound(f) => AllSound(<<f>> \o s)
<1> DEFINE r == <<f>> \o s
<1>1. IsSequence(s) /\ Len(s) >= 1
  BY DEF Stack
<1>2. IsSequence(r) /\ Len(r) = Len(s) + 1 /\ Len(s) \in Nat /\ r[1] = f /\ \A k \in 2 .. Len(s) + 1 : r[k] = s[k - 1]
  BY <1>1, PushHead
<1> HIDE DEF r
<1>3. ASSUME NEW k \in 2 .. Len(s) + 1
      PROVE  k - 1 \in 1 .. Len(s) /\ r[k] = s[k - 1] /\ Placed(r[k], k, Len(r))
  <2>1. k - 1 \in 1 .. Len(s) /\ r[k] = s[k - 1]
    BY <1>2
  <2>2. Placed(s[k - 1], k - 1, Len(s))
    BY <2>1 DEF Stack
  <2>3. (k - 1 = Len(s)) <=> (k = Len(r))
    BY <1>2, <2>1
  <2>4. Waiting(s[k - 1])
    BY <2>2 DEF Placed
  <2> QED BY <2>1, <2>2, <2>3, <2>4 DEF Placed
<1>4. Placed(f, 1, Len(r))
  BY <1>1, <1>2 DEF Placed
<1>5. ASSUME NEW k \in 1 .. Len(r) PROVE k = 1 \/ k \in 2 .. Len(s) + 1
  BY <1>2
<1>6. Stack(r)
  BY <1>1, <1>2, <1>3, <1>4, <1>5 DEF Stack
<1>7. AllSound(s) /\ Sound(f) => AllSound(r)
  BY <1>2, <1>3, <1>5 DEF AllSound
<1> QED BY <1>6, <1>7 DEF r

\* The frame below takes the place of one that is done.
LEMMA StackPopped ==
  ASSUME NEW s, Stack(s), Len(s) > 1, NEW f, IsFrame(f), f.steps = s[2].steps
  PROVE  /\ Stack(<<f>> \o Tail(Tail(s))) /\ (<<f>> \o Tail(Tail(s)))[1] = f
         /\ AllSound(s) /\ Sound(f) => AllSound(<<f>> \o Tail(Tail(s)))
<1> DEFINE r == <<f>> \o Tail(Tail(s))
<1>1. IsSequence(s) /\ Len(s) \in Nat
  BY SequenceDomain DEF Stack
<1>0. Len(s) >= 2
  BY <1>1
<1>2. IsSequence(r) /\ Len(r) = Len(s) - 1 /\ r[1] = f /\ \A k \in 2 .. Len(s) - 1 : r[k] = s[k + 1]
  BY <1>0, <1>1, ReplaceTwo
<1> HIDE DEF r
<1>3. ASSUME NEW k \in 2 .. Len(s) - 1
      PROVE  k + 1 \in 1 .. Len(s) /\ r[k] = s[k + 1] /\ Placed(r[k], k, Len(r))
  <2>1. k + 1 \in 1 .. Len(s) /\ r[k] = s[k + 1]
    BY <1>1, <1>2
  <2>2. Placed(s[k + 1], k + 1, Len(s))
    BY <2>1 DEF Stack
  <2>3. ((k + 1 = Len(s)) <=> (k = Len(r))) /\ k + 1 # 1
    BY <1>1, <1>2, <2>1
  <2> QED BY <2>1, <2>2, <2>3 DEF Placed
<1>4. Placed(s[2], 2, Len(s))
  BY <1>0, <1>1 DEF Stack
<1>5. Placed(f, 1, Len(r))
  <2>1. (2 = Len(s)) <=> (1 = Len(r))
    BY <1>1, <1>2
  <2> QED BY <1>4, <2>1 DEF Placed, OfMessage, OfItem
<1>6. ASSUME NEW k \in 1 .. Len(r) PROVE k = 1 \/ k \in 2 .. Len(s) - 1
  BY <1>1, <1>2
<1>7. Stack(r)
  BY <1>0, <1>1, <1>2, <1>3, <1>5, <1>6 DEF Stack
<1>8. AllSound(s) /\ Sound(f) => AllSound(r)
  BY <1>2, <1>3, <1>6 DEF AllSound
<1> QED BY <1>2, <1>7, <1>8 DEF r

-----------------------------------------------------------------------------
(* What a step is, and the counts for its target.                          *)

\* A rule of a table that there is.
LEMMA StepRead ==
  ASSUME TablesRead, NEW step, IsStep(step)
  PROVE  /\ step.level \in DOMAIN codec.tables /\ TableRead(step.level)
         /\ \E mode \in Modes : \E i \in DOMAIN codec.tables[step.level][mode] :
              step.rule = codec.tables[step.level][mode][i]
<1>1. PICK mode \in Modes : \E i \in DOMAIN TableAt(step.level)[mode] : step.rule = TableAt(step.level)[mode][i]
  BY DEF IsStep, FromTable
<1>2. PICK i \in DOMAIN TableAt(step.level)[mode] : step.rule = TableAt(step.level)[mode][i]
  BY <1>1
<1>3. DOMAIN NoRules[mode] = {}
  BY <1>1 DEF NoRules
<1>4. step.level \in DOMAIN codec.tables
  BY <1>2, <1>3 DEF TableAt
<1> QED BY <1>1, <1>2, <1>4 DEF TableAt, TablesRead

LEMMA StepMode ==
  ASSUME TablesRead, NEW step, IsStep(step)
  PROVE  /\ step.rule.mode \in Modes
         /\ step.rule.mode = "forEach" => step.rule.children.path # <<>>
<1>1. PICK mode \in Modes : \E i \in DOMAIN codec.tables[step.level][mode] :
        step.rule = codec.tables[step.level][mode][i]
  BY StepRead
<1>2. PICK i \in DOMAIN codec.tables[step.level][mode] : step.rule = codec.tables[step.level][mode][i]
  BY <1>1
<1>3. TableRead(step.level)
  BY StepRead
<1> DEFINE call == CallAt(step.level)
           action == Actions(call.commands, mode)[i]
<1>4. /\ step.rule = RuleOf(mode, call.parent, action, Child(step.level, i))
      /\ step.rule.mode = mode /\ i \in Nat
  BY <1>2, <1>3, RuleRead
<1> HIDE DEF call, action
<1>5. mode = "forEach" => step.rule.children = Child(step.level, i)
  BY <1>1, <1>4, RuleOfAction
<1>6. step.level.path \in Seq(Nat)
  BY <1>3 DEF TableRead, IsLevel
<1>7. Child(step.level, i).path = Append(step.level.path, i)
  BY DEF Child
<1>8. Append(step.level.path, i) # <<>>
  <2>1. PICK path \in Seq(Nat) : path = step.level.path
    BY <1>6
  <2>2. Append(path, i) \in Seq(Nat) /\ Append(path, i) # <<>>
    BY ONLY <1>4, <2>1, AppendProperties
  <2> QED BY <2>1, <2>2
<1> QED BY <1>1, <1>4, <1>5, <1>7, <1>8

LEMMA FrameSteps ==
  ASSUME TablesRead, NEW f, OfMessage(f) \/ OfItem(f)
  PROVE  /\ IsSequence(f.steps) /\ Len(f.steps) \in Nat /\ DOMAIN f.steps = 1 .. Len(f.steps)
         /\ \A i \in DOMAIN f.steps : IsStep(f.steps[i])
<1>1. IsSequence(f.steps) /\ \A i \in DOMAIN f.steps : IsStep(f.steps[i])
  <2>1. CASE OfMessage(f)
    BY <2>1, RulesForIs DEF OfMessage
  <2>2. CASE OfItem(f)
    <3>1. PICK level : level.path # <<>> /\ f.steps = StepsOf(level)
      BY <2>2 DEF OfItem
    <3> QED BY <3>1, StepsOfIs DEF IsStep
  <2> QED BY <2>1, <2>2
<1> QED BY <1>1, SequenceDomain

\* The number of steps that set a place, for those of a level.
LEMMA LevelFills ==
  ASSUME TablesRead, NEW level, NEW place
  PROVE  /\ AllFills(StepsOf(level), place) = FillsOf(level, place) /\ FillsOf(level, place) \in Nat
         /\ (\A i \in DOMAIN StepsOf(level) : ~Fills(StepsOf(level)[i].rule, place)) => FillsOf(level, place) = 0
<1>1. AllFills(StepsOf(level), place) = FillsOf(level, place) /\ FillsOf(level, place) \in Nat
  BY FillsOfIs DEF AllFills
<1>2. ASSUME \A i \in DOMAIN StepsOf(level) : ~Fills(StepsOf(level)[i].rule, place)
      PROVE  FillsOf(level, place) = 0
  <2>1. {i \in DOMAIN StepsOf(level) : Fills(StepsOf(level)[i].rule, place)} = {}
    BY <1>2
  <2> QED BY <2>1, FS_EmptySet DEF FillsOf
<1> QED BY <1>1, <1>2

\* The count that a missing source is held against.
TotalFor(step, place) == Count(FieldsAt(codec.fields, step.level), place)

LEMMA TotalForIs ==
  ASSUME TablesRead, TotalsRead, NEW step, IsStep(step), NEW place
  PROVE  TotalFor(step, place) = AllFillsOf(step.level, place)
<1>1. step.level \in DOMAIN codec.tables
  BY StepRead
<1>2. step.level \in DOMAIN codec.fields /\ Count(codec.fields[step.level], place) = AllFillsOf(step.level, place)
  BY <1>1 DEF TotalsRead
<1> QED BY <1>2 DEF TotalFor, FieldsAt

LEMMA ItemTotal ==
  ASSUME TablesRead, TotalsRead, NEW f, OfItem(f), NEW i \in DOMAIN f.steps, NEW place
  PROVE  TotalFor(f.steps[i], place) = AllFills(f.steps, place)
<1>1. PICK level : level.path # <<>> /\ f.steps = StepsOf(level)
  BY DEF OfItem
<1>2. f.steps[i].level = level
  BY <1>1, StepsOfIs
<1>3. IsStep(f.steps[i])
  BY FrameSteps
<1>4. TotalFor(f.steps[i], place) = AllFillsOf(level, place)
  BY <1>2, <1>3, TotalForIs
<1>5. FillsOf(level, place) \in Nat /\ AllFills(f.steps, place) = FillsOf(level, place)
  BY <1>1, LevelFills
<1> QED BY <1>1, <1>4, <1>5 DEF AllFillsOf

OfStarType == HasEntry(received, SagType) /\ TypeOf(received) = Star

LEMMA MessageTotal ==
  ASSUME TablesRead, TotalsRead, NEW f, OfMessage(f), NEW i \in DOMAIN f.steps,
         NEW place, Fills(f.steps[i].rule, place), ~Shared(f.steps, place), ~OfStarType
  PROVE  TotalFor(f.steps[i], place) = AllFills(f.steps, place)
<1> DEFINE type == TypeOf(received)
           level == Top(type, direction)
           star == Top(Star, direction)
           s == TypeSteps(received, direction)
           t == StepsOf(star)
           steps == f.steps
<1>1. ~Ignored(received)
  <2>1. Ignored(received) => f.steps = <<>>
    BY DEF OfMessage, RulesFor
  <2> QED BY <2>1
<1>2. steps = s \o t
  BY <1>1 DEF OfMessage, RulesFor
<1>3. /\ IsSequence(s) /\ IsSequence(t)
      /\ s = IF HasEntry(received, SagType) THEN StepsOf(level) ELSE <<>>
  BY TypeStepsIs, StepsOfIs
<1>4. \A j \in DOMAIN t : t[j].level = star
  BY StepsOfIs
<1>5. AllFills(t, place) = FillsOf(star, place) /\ FillsOf(star, place) \in Nat
  BY LevelFills
<1>6. star.path = <<>> /\ star.type = Star /\ star.direction = direction
  BY DEF Top
<1>7. level.path = <<>> /\ level.type = type /\ level.direction = direction
  BY DEF Top
<1>8. IsStep(steps[i])
  BY FrameSteps
<1>9. TotalFor(steps[i], place) = AllFillsOf(steps[i].level, place)
  BY <1>8, TotalForIs
<1>10. ASSUME steps[i].level = star PROVE TotalFor(steps[i], place) = FillsOf(star, place)
  BY <1>5, <1>6, <1>9, <1>10 DEF AllFillsOf
<1>11. AllFills(steps, place) = AllFills(s, place) + AllFills(t, place)
  BY <1>2, <1>3, AllFillsConcat
<1>12. /\ DOMAIN steps = 1 .. Len(s) + Len(t) /\ Len(s) \in Nat /\ Len(t) \in Nat
       /\ \A j \in 1 .. Len(s) : steps[j] = s[j]
       /\ \A j \in 1 .. Len(t) : steps[Len(s) + j] = t[j]
       /\ DOMAIN s = 1 .. Len(s) /\ DOMAIN t = 1 .. Len(t)
  <2>1. /\ DOMAIN (s \o t) = 1 .. Len(s) + Len(t) /\ Len(s) \in Nat /\ Len(t) \in Nat
        /\ \A j \in 1 .. Len(s) : (s \o t)[j] = s[j]
        /\ \A j \in 1 .. Len(t) : (s \o t)[Len(s) + j] = t[j]
    BY <1>3, ConcatSequences
  <2>2. DOMAIN s = 1 .. Len(s) /\ DOMAIN t = 1 .. Len(t)
    BY <1>3, SequenceDomain
  <2> HIDE DEF s, t, steps
  <2> QED BY <1>2, <2>1, <2>2
<1>13. CASE HasEntry(received, SagType)
  <2>1. s = StepsOf(level) /\ type # Star
    BY <1>3, <1>13 DEF OfStarType
  <2>2. level # star
    BY <1>6, <1>7, <2>1
  <2>3. \A j \in DOMAIN s : s[j].level = level
    BY <2>1, StepsOfIs
  <2>4. AllFills(s, place) = FillsOf(level, place) /\ FillsOf(level, place) \in Nat
    BY <2>1, LevelFills
  <2>5. CASE i <= Len(s)
    <3>1. i \in DOMAIN s /\ steps[i] = s[i]
      BY <1>12, <2>5
    <3>2. steps[i].level = level
      BY <2>3, <3>1
    <3>3. TotalFor(steps[i], place) = FillsOf(level, place) + FillsOf(star, place)
      BY <1>7, <1>9, <2>1, <3>2 DEF AllFillsOf
    <3> QED BY <1>5, <1>11, <2>4, <3>3
  <2>6. CASE ~(i <= Len(s))
    <3>1. i - Len(s) \in DOMAIN t /\ Len(s) + (i - Len(s)) = i
      BY <1>12, <2>6
    <3>2. steps[i].level = star
      BY <1>4, <1>12, <3>1
    <3>3. ASSUME NEW j \in DOMAIN s, Fills(s[j].rule, place) PROVE FALSE
      <4>1. j \in DOMAIN steps /\ steps[j] = s[j] /\ s[j].level = level
        BY <1>12, <2>3
      <4>2. Shared(steps, place)
        BY <2>2, <3>2, <3>3, <4>1 DEF Shared
      <4> QED BY <4>2
    <3>4. FillsOf(level, place) = 0
      BY <2>1, <3>3, LevelFills
    <3> QED BY <1>5, <1>10, <1>11, <2>4, <3>2, <3>4
  <2> QED BY <2>5, <2>6
<1>14. CASE ~HasEntry(received, SagType)
  <2>1. s = <<>> /\ Len(s) = 0
    BY <1>3, <1>14
  <2>2. AllFills(s, place) = 0
    BY <2>1, FillsUpToNone DEF AllFills, FillSteps
  <2>3. i \in DOMAIN t /\ Len(s) + i = i
    BY <1>12, <2>1
  <2>4. steps[i].level = star
    BY <1>4, <1>12, <2>3
  <2> QED BY <1>5, <1>10, <1>11, <2>2, <2>4
<1> QED BY <1>13, <1>14

\* A rule that is the last one its count allows for has no other after it.
LEMMA NoneLater ==
  ASSUME TablesRead, TotalsRead, NEW f, IsFrame(f), OfItem(f) \/ (OfMessage(f) /\ ~OfStarType),
         f.next <= Len(f.steps), NEW place, Fills(StepAt(f).rule, place),
         Count(f.current, place) \in Nat, SoundAt(f, place),
         LastMiss(Count(f.current, place) + 1, TotalFor(StepAt(f), place)),
         LaterRule(f, place)
  PROVE  OfMessage(f) /\ Shared(f.steps, place)
<1> SUFFICES ASSUME ~(OfMessage(f) /\ Shared(f.steps, place)) PROVE FALSE
  OBVIOUS
<1> DEFINE steps == f.steps
           i == f.next
           total == TotalFor(steps[i], place)
           n == Count(f.current, place)
<1>1. /\ IsSequence(steps) /\ Len(steps) \in Nat /\ DOMAIN steps = 1 .. Len(steps)
      /\ i \in Nat /\ i >= 1 /\ i <= Len(steps) /\ i \in DOMAIN steps
  BY FrameSteps DEF IsFrame
<1>2. Fills(steps[i].rule, place)
  BY DEF StepAt
<1>3. total = AllFills(steps, place)
  <2>1. CASE OfItem(f)
    BY <1>1, <2>1, ItemTotal
  <2>2. CASE ~OfItem(f)
    BY <1>1, <1>2, <2>2, MessageTotal
  <2> QED BY <2>1, <2>2
<1>4. PICK j \in i + 1 .. Len(steps) : Fills(steps[j].rule, place)
  BY DEF LaterRule
<1>5. /\ FillSteps(steps, i, place) = FillSteps(steps, i - 1, place) + 1
      /\ FillSteps(steps, i - 1, place) \in Nat
  BY <1>1, <1>2, FillStep
<1>6. j \in DOMAIN steps /\ j \in Nat /\ j - 1 \in Nat /\ i <= j - 1 /\ j <= Len(steps)
  BY <1>1, <1>4
<1>7. FillSteps(steps, j, place) = FillSteps(steps, j - 1, place) + 1 /\ FillSteps(steps, j - 1, place) \in Nat
  BY <1>1, <1>4, <1>6, FillStep
<1>8. FillSteps(steps, i, place) <= FillSteps(steps, j - 1, place)
  BY <1>1, <1>6, FillsUpToMonotone DEF FillSteps
<1>9. FillSteps(steps, j, place) <= AllFills(steps, place)
  BY <1>1, <1>6, FillsUpToMonotone DEF FillSteps, AllFills
<1>10. n \in Nat /\ n <= FillSteps(steps, i - 1, place)
  BY DEF SoundAt, Filled
<1>11. n + 1 >= total
  BY DEF LastMiss, StepAt
<1>12. AllFills(steps, place) \in Nat
  BY <1>1, AllFillsNat
<1> HIDE DEF steps, i, total, n
<1> QED BY ONLY <1>3, <1>5, <1>7, <1>8, <1>9, <1>10, <1>11, <1>12

-----------------------------------------------------------------------------
(* The frames, step by step.                                               *)

StackInv ==
  /\ outcome \in {"mapping", "mapped", "failed"} => Stack(frames)
  /\ outcome \in {"mapping", "mapped"} => AllSound(frames)
  /\ FailedForReason

LEMMA StackSame ==
  ASSUME NEW fs, Stack(fs), codec' = codec, received' = received, direction' = direction
  PROVE  Stack(fs)'
<1>1. \A f : OfMessage(f) => OfMessage(f)'
  BY DEF OfMessage, RulesFor, Ignored, TypeSteps, StepsOf
<1>2. \A f : OfItem(f) => OfItem(f)'
  BY DEF OfItem, StepsOf
<1>3. \A f, k, n : Placed(f, k, n) => Placed(f, k, n)'
  BY <1>1, <1>2 DEF Placed
<1> QED BY <1>3 DEF Stack

\* Counts stay sound as rules go by, and as a target is set.
LEMMA SoundAfter ==
  ASSUME NEW f, IsFrame(f), Sound(f), f.next <= Len(f.steps), NEW m, NEW current,
         \A place : Count(current, place) \in {Count(f.current, place), Filled}
  PROVE  Sound(After(f, m, current))
<1> DEFINE g == After(f, m, current)
<1>1. g.steps = f.steps /\ g.current = current /\ g.next = f.next + 1
  BY DEF After, IsFrame
<1>2. f.next - 1 \in Nat /\ f.next \in Nat /\ f.next - 1 <= f.next /\ g.next - 1 = f.next
  BY <1>1 DEF IsFrame
<1> HIDE DEF g
<1>3. ASSUME NEW place PROVE SoundAt(g, place)
  <2>1. SoundAt(f, place)
    BY DEF Sound
  <2>2. FillSteps(f.steps, f.next - 1, place) <= FillSteps(f.steps, f.next, place)
    BY <1>2, FillsUpToMonotone DEF FillSteps
  <2>3. FillSteps(f.steps, f.next - 1, place) \in Nat /\ FillSteps(f.steps, f.next, place) \in Nat
    BY <1>2, FillsUpToType DEF FillSteps
  <2>4. Count(g.current, place) \in {Count(f.current, place), Filled}
    BY <1>1
  <2>5. CASE Count(g.current, place) = Filled
    BY <2>5 DEF SoundAt
  <2>6. CASE Count(g.current, place) # Filled
    <3>1. Count(g.current, place) = Count(f.current, place)
      BY <2>4, <2>6
    <3>2. Count(f.current, place) \in Nat /\ Count(f.current, place) <= FillSteps(f.steps, f.next - 1, place)
      BY <2>1, <2>6, <3>1 DEF SoundAt
    <3>3. Count(g.current, place) \in Nat /\ Count(g.current, place) <= FillSteps(f.steps, f.next, place)
      BY <2>2, <2>3, <3>1, <3>2
    <3> QED BY <1>1, <1>2, <3>3 DEF SoundAt
  <2> QED BY <2>5, <2>6
<1> QED BY <1>3 DEF Sound, g

LEMMA AfterFrame ==
  ASSUME NEW f, IsFrame(f), f.next <= Len(f.steps), Len(f.steps) \in Nat, NEW m, NEW current
  PROVE  IsFrame(After(f, m, current)) /\ After(f, m, current).steps = f.steps
<1> DEFINE g == After(f, m, current)
<1>1. g = [message |-> m, steps |-> f.steps, next |-> f.next + 1, current |-> current,
           items |-> f.items, at |-> f.at]
  <2>1. PICK v, w, x, y, z, u :
          f = [message |-> v, steps |-> w, next |-> x, current |-> y, items |-> z, at |-> u]
    BY DEF IsFrame
  <2>2. f.steps = w /\ f.next = x /\ f.items = z /\ f.at = u
    BY ONLY <2>1
  <2>3. PICK a : a = [f EXCEPT !.message = m]
    OBVIOUS
  <2>4. a = [message |-> m, steps |-> w, next |-> x, current |-> y, items |-> z, at |-> u]
    BY ONLY <2>1, <2>3
  <2>5. PICK b : b = [a EXCEPT !.current = current]
    OBVIOUS
  <2>6. b = [message |-> m, steps |-> w, next |-> x, current |-> current, items |-> z, at |-> u]
    BY ONLY <2>4, <2>5
  <2>7. [b EXCEPT !.next = x + 1] =
          [message |-> m, steps |-> w, next |-> x + 1, current |-> current, items |-> z, at |-> u]
    BY ONLY <2>6
  <2>8. g = [b EXCEPT !.next = x + 1]
    BY <2>2, <2>3, <2>5 DEF After
  <2> QED BY <2>2, <2>7, <2>8
<1>2. f.next + 1 \in Nat /\ f.next + 1 >= 1 /\ f.next + 1 <= Len(f.steps) + 1
  BY DEF IsFrame
<1> HIDE DEF g
<1> QED BY <1>1, <1>2 DEF IsFrame, g

\* A step that keeps what is being mapped.
MessageKept ==
  codec' = codec /\ received' = received /\ direction' = direction

\* What there is to know of a stack in a step.
LEMMA TopOf ==
  ASSUME TablesRead, NEW s, Stack(s)
  PROVE  /\ IsSequence(s) /\ Len(s) \in Nat /\ Len(s) >= 1 /\ Head(s) = s[1]
         /\ Placed(s[1], 1, Len(s)) /\ IsFrame(s[1])
         /\ (Len(s) = 1 /\ OfMessage(s[1])) \/ (Len(s) # 1 /\ OfItem(s[1]))
         /\ IsSequence(s[1].steps) /\ Len(s[1].steps) \in Nat
<1>1. IsSequence(s) /\ Len(s) \in Nat /\ Len(s) >= 1
  BY SequenceDomain DEF Stack
<1>2. Head(s) = s[1]
  <2> DEFINE S == Range(s)
  <2>1. s \in Seq(S) /\ s # <<>>
    BY <1>1 DEF IsSequence
  <2> HIDE DEF S
  <2> QED BY ONLY <2>1
<1>3. Placed(s[1], 1, Len(s)) /\ IsFrame(s[1])
  <2>1. 1 \in 1 .. Len(s)
    BY <1>1
  <2> QED BY <2>1 DEF Stack, Placed
<1>4. (Len(s) = 1 /\ OfMessage(s[1])) \/ (Len(s) # 1 /\ OfItem(s[1]))
  BY <1>3 DEF Placed
<1>5. IsSequence(s[1].steps) /\ Len(s[1].steps) \in Nat
  BY <1>4, FrameSteps
<1> QED BY <1>1, <1>2, <1>3, <1>4, <1>5

LEMMA ContinueKeeps ==
  ASSUME TablesRead, Stack(frames), AllSound(frames), Head(frames).next <= Len(Head(frames).steps),
         MessageKept, outcome = "mapping", NEW m, NEW current,
         Sound(After(Head(frames), m, current)), Continue(m, current)
  PROVE  StackInv'
<1> DEFINE f == frames[1]
           g == After(f, m, current)
<1>1. IsFrame(f) /\ Placed(f, 1, Len(frames)) /\ Head(frames) = f /\ Len(f.steps) \in Nat
  BY TopOf
<1>3. frames' = <<g>> \o Tail(frames) /\ outcome' = outcome
  BY <1>1 DEF Continue
<1>4. IsFrame(g) /\ g.steps = f.steps
  BY <1>1, AfterFrame
<1>5. Sound(g)
  BY <1>1
<1> HIDE DEF g
<1>6. Placed(g, 1, Len(frames))
  BY <1>1, <1>4 DEF Placed, OfMessage, OfItem
<1>7. Stack(<<g>> \o Tail(frames)) /\ AllSound(<<g>> \o Tail(frames))
  BY <1>5, <1>6, StackReplaced
<1>8. PICK h : h = frames'
  OBVIOUS
<1>9. Stack(h) /\ AllSound(h)
  BY <1>3, <1>7, <1>8
<1>10. Stack(h)'
  BY <1>9, StackSame DEF MessageKept
<1>11. Stack(frames)' /\ AllSound(frames)'
  BY <1>8, <1>9, <1>10
<1>12. FailedForReason'
  BY <1>3 DEF FailedForReason, ErrorAtLastRule, MissingAllowed
<1> QED BY <1>11, <1>12 DEF StackInv

\* A rule that does not move a count on.
LEMMA PlainSteps ==
  TablesRead /\ StackInv /\ (Move \/ MoveNothing \/ Assign \/ SkipList) => StackInv'
<1> SUFFICES ASSUME TablesRead, StackInv, Move \/ MoveNothing \/ Assign \/ SkipList PROVE StackInv'
  OBVIOUS
<1> DEFINE f == Head(frames)
           target == StepAt(f).rule.target
<1>1. outcome = "mapping" /\ f.next <= Len(f.steps) /\ MessageKept
  BY DEF Move, MoveNothing, Assign, SkipList, Applying, MessageKept
<1>2. PICK m : Continue(m, f.current) \/ Continue(m, With(f.current, target, Filled))
  BY DEF Move, MoveNothing, Assign, SkipList
<1>3. Stack(frames) /\ AllSound(frames)
  BY <1>1 DEF StackInv
<1>4. IsFrame(f) /\ Sound(f)
  <2>1. f = frames[1] /\ IsFrame(f) /\ 1 \in 1 .. Len(frames)
    BY <1>3, TopOf
  <2> QED BY <1>3, <2>1 DEF AllSound
<1> HIDE DEF f, target
<1>5. \A place : Count(f.current, place) \in {Count(f.current, place), Filled}
  OBVIOUS
<1>6. Sound(After(f, m, f.current))
  BY <1>1, <1>4, <1>5, SoundAfter
<1>7. \A place : Count(With(f.current, target, Filled), place) \in {Count(f.current, place), Filled}
  BY CountWith
<1>8. Sound(After(f, m, With(f.current, target, Filled)))
  BY <1>1, <1>4, <1>7, SoundAfter
<1>9. CASE Continue(m, f.current)
  BY <1>1, <1>3, <1>6, <1>9, ContinueKeeps DEF f
<1>10. CASE Continue(m, With(f.current, target, Filled))
  BY <1>1, <1>3, <1>8, <1>10, ContinueKeeps DEF f
<1> QED BY <1>2, <1>9, <1>10

\* One more that finds no source.
LEMMA SoundMiss ==
  ASSUME NEW f, IsFrame(f), Sound(f), IsSequence(f.steps), f.next <= Len(f.steps), NEW m,
         NEW place, Fills(StepAt(f).rule, place), Count(f.current, place) # Filled
  PROVE  Sound(After(f, m, With(f.current, place, Count(f.current, place) + 1)))
<1> DEFINE current == With(f.current, place, Count(f.current, place) + 1)
           g == After(f, m, current)
<1>1. g.steps = f.steps /\ g.current = current /\ g.next = f.next + 1
  BY DEF After, IsFrame
<1>2. \A p : Count(current, p) = IF p = place THEN Count(f.current, place) + 1 ELSE Count(f.current, p)
  BY CountWith
<1>3. f.next \in DOMAIN f.steps /\ f.next - 1 \in Nat /\ f.next \in Nat /\ f.next - 1 <= f.next /\ g.next - 1 = f.next
  BY <1>1, SequenceDomain DEF IsFrame
<1> HIDE DEF g, current
<1>4. ASSUME NEW p PROVE SoundAt(g, p)
  <2>1. SoundAt(f, p)
    BY DEF Sound
  <2>2. FillSteps(f.steps, f.next - 1, p) <= FillSteps(f.steps, f.next, p)
    BY <1>3, FillsUpToMonotone DEF FillSteps
  <2>3. FillSteps(f.steps, f.next - 1, p) \in Nat /\ FillSteps(f.steps, f.next, p) \in Nat
    BY <1>3, FillsUpToType DEF FillSteps
  <2>4. CASE p = place
    <3>1. Fills(f.steps[f.next].rule, place)
      BY DEF StepAt
    <3>2. FillSteps(f.steps, f.next, p) = FillSteps(f.steps, f.next - 1, p) + 1
      BY <1>3, <2>4, <3>1, FillStep
    <3>3. Count(f.current, p) \in Nat /\ Count(f.current, p) <= FillSteps(f.steps, f.next - 1, p)
      BY <2>1, <2>4 DEF SoundAt
    <3>4. Count(g.current, p) = Count(f.current, p) + 1
      BY <1>1, <1>2, <2>4
    <3>5. Count(g.current, p) \in Nat /\ Count(g.current, p) <= FillSteps(f.steps, f.next, p)
      BY <2>3, <3>2, <3>3, <3>4
    <3> QED BY <1>1, <1>3, <3>5 DEF SoundAt
  <2>5. CASE p # place
    <3>1. Count(g.current, p) = Count(f.current, p)
      BY <1>1, <1>2, <2>5
    <3>2. CASE Count(f.current, p) = Filled
      BY <3>1, <3>2 DEF SoundAt
    <3>3. CASE Count(f.current, p) # Filled
      <4>1. Count(f.current, p) \in Nat /\ Count(f.current, p) <= FillSteps(f.steps, f.next - 1, p)
        BY <2>1, <3>3 DEF SoundAt
      <4>2. Count(g.current, p) \in Nat /\ Count(g.current, p) <= FillSteps(f.steps, f.next, p)
        BY <2>2, <2>3, <3>1, <4>1
      <4> QED BY <1>1, <1>3, <4>2 DEF SoundAt
    <3> QED BY <3>2, <3>3
  <2> QED BY <2>4, <2>5
<1> QED BY <1>4 DEF Sound, g, current

LEMMA MissSourceStep ==
  TablesRead /\ TotalsRead /\ StackInv /\ MissSource => StackInv'
<1> SUFFICES ASSUME TablesRead, TotalsRead, StackInv, MissSource PROVE StackInv'
  OBVIOUS
<1> DEFINE f == Head(frames)
           step == StepAt(f)
           target == step.rule.target
           n == Count(f.current, target) + 1
           current == With(f.current, target, n)
<1>1. /\ outcome = "mapping" /\ f.next <= Len(f.steps) /\ MessageKept
      /\ step.rule.mode \in Moves /\ ~codec.allowMissing /\ Count(f.current, target) # Filled
  BY DEF MissSource, Applying, MessageKept
<1>2. Stack(frames) /\ AllSound(frames)
  BY <1>1 DEF StackInv
<1>3. /\ f = frames[1] /\ IsFrame(f) /\ Len(frames) \in Nat /\ Placed(f, 1, Len(frames))
      /\ IsSequence(frames) /\ Len(frames) >= 1
      /\ (Len(frames) = 1 /\ OfMessage(f)) \/ (Len(frames) # 1 /\ OfItem(f))
      /\ IsSequence(f.steps) /\ Len(f.steps) \in Nat
  BY <1>2, TopOf
<1>4. Sound(f)
  <2>1. 1 \in 1 .. Len(frames)
    BY <1>3
  <2> QED BY <1>2, <1>3, <2>1 DEF AllSound
<1>5. Fills(step.rule, target)
  BY <1>1 DEF Fills, Moves
<1>6. CASE ~LastMiss(n, TotalFor(step, target))
  <2>1. Continue(f.message, current)
    BY <1>6 DEF MissSource, TotalFor
  <2>2. Sound(After(f, f.message, current))
    BY <1>1, <1>3, <1>4, <1>5, SoundMiss
  <2> HIDE DEF f, current
  <2> QED BY <1>1, <1>2, <2>1, <2>2, ContinueKeeps DEF f
<1>7. CASE LastMiss(n, TotalFor(step, target))
  <2> DEFINE g == [f EXCEPT !.current = current]
  <2>1. frames' = <<g>> \o Tail(frames) /\ outcome' = "failed"
    BY <1>7 DEF MissSource, TotalFor
  <2>2. g.steps = f.steps /\ g.next = f.next /\ g.current = current /\ IsFrame(g)
    <3>1. PICK v, w, x, y, z, u :
            f = [message |-> v, steps |-> w, next |-> x, current |-> y, items |-> z, at |-> u]
      BY <1>3 DEF IsFrame
    <3>2. f.steps = w /\ f.next = x /\ f.items = z /\ f.at = u
      BY ONLY <3>1
    <3> HIDE DEF f, current
    <3>3. g = [message |-> v, steps |-> w, next |-> x, current |-> current, items |-> z, at |-> u]
      BY ONLY <3>1
    <3> HIDE DEF g
    <3>4. g.next = f.next /\ g.steps = f.steps /\ g.current = current
      BY <3>2, <3>3
    <3> QED BY <1>3, <3>3, <3>4 DEF IsFrame
  <2> HIDE DEF g
  <2>3. Placed(g, 1, Len(frames))
    BY <1>3, <2>2 DEF Placed, OfMessage, OfItem
  <2>4. Stack(<<g>> \o Tail(frames)) /\ (<<g>> \o Tail(frames))[1] = g
    BY <1>2, <2>3, StackReplaced
  <2>5. Len(<<g>> \o Tail(frames)) = Len(frames)
    BY <1>3, ReplaceHead
  <2>6. PICK h : h = frames'
    OBVIOUS
  <2>7. Stack(h) /\ h[1] = g /\ Head(h) = g /\ Len(h) = Len(frames)
    BY <2>1, <2>4, <2>5, <2>6, TopOf
  <2>8. Stack(frames)'
    BY <1>1, <2>6, <2>7, StackSame DEF MessageKept
  <2>9. StepAt(g) = step
    BY <2>2 DEF StepAt
  <2>10. Count(g.current, target) = n
    BY <2>2, CountWith
  <2>11. SoundAt(f, target)
    BY <1>4 DEF Sound
  <2>12. Count(f.current, target) \in Nat /\ n # Filled
    BY <1>1, <2>11 DEF SoundAt, Filled
  <2>13. ASSUME LaterRule(g, target) PROVE Shared(g.steps, target) \/ (Len(h) = 1 /\ OfStarType)
    <3>1. LaterRule(f, target)
      BY <2>2, <2>13 DEF LaterRule
    <3> SUFFICES ASSUME ~(Len(h) = 1 /\ OfStarType) PROVE Shared(g.steps, target)
      OBVIOUS
    <3>2. OfItem(f) \/ (OfMessage(f) /\ ~OfStarType)
      BY <1>3, <2>7
    <3> HIDE DEF f
    <3>3. Shared(f.steps, target)
      BY <1>1, <1>3, <1>5, <1>7, <2>11, <2>12, <3>1, <3>2, NoneLater
    <3> QED BY <2>2, <3>3
  <2>14. OfStarType' = OfStarType /\ codec' = codec
    BY <1>1 DEF MessageKept, OfStarType, HasEntry, TypeOf
  <2>15. (Len(h) = 1 /\ OfStarType) => MappedTwice'
    <3>1. received' = received /\ Len(frames)' = Len(h)
      BY <1>1, <2>6 DEF MessageKept
    <3> QED BY <3>1 DEF MappedTwice, OfStarType, SagType, TypeOf, HasEntry
  <2>16. ErrorAtLastRule'
    <3>1. Head(frames)' = g
      BY <2>6, <2>7
    <3> HIDE DEF f, step, target, n, current
    <3> USE DEF target
    <3>2. Count(g.current, StepAt(g).rule.target) # Filled
      BY <2>9, <2>10, <2>12
    <3>3. Shared(g.steps, StepAt(g).rule.target) \/ MappedTwice' \/ ~LaterRule(g, StepAt(g).rule.target)
      BY <2>9, <2>13, <2>15
    <3> QED BY <3>1, <3>2, <3>3 DEF ErrorAtLastRule
  <2>17. MissingAllowed'
    BY <1>1, <2>14 DEF MissingAllowed
  <2> QED BY <2>1, <2>8, <2>16, <2>17 DEF StackInv, FailedForReason
<1> QED BY <1>6, <1>7

\* A frame for an item starts with no counts.
LEMMA ItemFrameIs ==
  ASSUME TablesRead, NEW rule, rule.children.path # <<>>, NEW items, NEW at
  PROVE  LET f == ItemFrame(rule, items, at, NoCounts)
         IN IsFrame(f) /\ OfItem(f) /\ Sound(f)
<1> DEFINE f == ItemFrame(rule, items, at, NoCounts)
           steps == StepsOf(rule.children)
           m == ItemMessage(items[at], rule.target.metadata)
<1>1. f = [message |-> m, steps |-> steps, next |-> 1, current |-> NoCounts, items |-> items, at |-> at]
  BY DEF ItemFrame, Frame
<1>2. Len(steps) \in Nat
  BY StepsOfIs, SequenceDomain
<1>3. OfItem(f)
  BY <1>1 DEF OfItem
<1> HIDE DEF f, steps
<1>4. IsFrame(f)
  BY <1>1, <1>2 DEF IsFrame
<1>5. \A place : Count(f.current, place) = 0
  BY <1>1 DEF NoCounts, Count
<1>6. \A place : FillSteps(f.steps, f.next - 1, place) \in Nat
  <2>1. f.next - 1 \in Nat
    BY <1>1
  <2> QED BY <2>1, FillsUpToType DEF FillSteps
<1>7. Sound(f)
  BY <1>5, <1>6 DEF Sound, SoundAt
<1> QED BY <1>3, <1>4, <1>7 DEF f

\* A forEach's items have rules of a list.
LEMMA WaitingRule ==
  ASSUME TablesRead, NEW f, IsFrame(f), OfMessage(f) \/ OfItem(f), Waiting(f)
  PROVE  StepAt(f).rule.children.path # <<>>
<1>1. f.next \in DOMAIN f.steps
  BY FrameSteps DEF IsFrame, Waiting
<1>2. IsStep(StepAt(f))
  BY <1>1, FrameSteps DEF StepAt
<1> QED BY <1>2, StepMode DEF Waiting

LEMMA SecondFrame ==
  ASSUME TablesRead, NEW s, Stack(s), Len(s) > 1
  PROVE  /\ IsFrame(s[2]) /\ Waiting(s[2]) /\ (OfMessage(s[2]) \/ OfItem(s[2]))
         /\ Len(s[2].steps) \in Nat /\ 2 \in 1 .. Len(s)
<1>1. 2 \in 1 .. Len(s)
  BY TopOf
<1>2. Placed(s[2], 2, Len(s))
  BY <1>1 DEF Stack
<1>3. IsFrame(s[2]) /\ Waiting(s[2]) /\ (OfMessage(s[2]) \/ OfItem(s[2]))
  BY <1>2 DEF Placed
<1> QED BY <1>1, <1>3, FrameSteps

\* The stack of the next state, from what is known of it now.
LEMMA StackInvNext ==
  ASSUME MessageKept, NEW h, h = frames', Stack(h), AllSound(h), outcome' # "failed"
  PROVE  StackInv'
<1>1. Stack(h)'
  BY StackSame DEF MessageKept
<1>2. Stack(frames)' /\ AllSound(frames)'
  BY <1>1
<1> QED BY <1>2 DEF StackInv, FailedForReason, ErrorAtLastRule, MissingAllowed

LEMMA EnterListStep ==
  TablesRead /\ StackInv /\ EnterList => StackInv'
<1> SUFFICES ASSUME TablesRead, StackInv, EnterList PROVE StackInv'
  OBVIOUS
<1> DEFINE f == Head(frames)
           rule == StepAt(f).rule
           list == Read(f.message, rule.target)
           g == ItemFrame(rule, list.items, 1, NoCounts)
<1>1. /\ outcome = "mapping" /\ f.next <= Len(f.steps) /\ rule.mode = "forEach" /\ MessageKept
      /\ frames' = <<g>> \o frames /\ outcome' = outcome
  BY DEF EnterList, Applying, MessageKept
<1>2. Stack(frames) /\ AllSound(frames)
  BY <1>1 DEF StackInv
<1>3. f = frames[1] /\ IsFrame(f) /\ (OfMessage(f) \/ OfItem(f))
  BY <1>2, TopOf
<1>4. Waiting(f)
  BY <1>1 DEF Waiting
<1> HIDE DEF f
<1>5. rule.children.path # <<>>
  BY <1>3, <1>4, WaitingRule
<1>6. IsFrame(g) /\ OfItem(g) /\ Sound(g)
  BY <1>5, ItemFrameIs
<1> HIDE DEF g
<1>7. Stack(<<g>> \o frames) /\ AllSound(<<g>> \o frames)
  BY <1>2, <1>3, <1>4, <1>6, StackPushed
<1>8. PICK h : h = frames'
  OBVIOUS
<1>9. Stack(h) /\ AllSound(h)
  BY <1>1, <1>7, <1>8
<1> QED BY <1>1, <1>8, <1>9, StackInvNext

LEMMA NextItemStep ==
  TablesRead /\ StackInv /\ NextItem => StackInv'
<1> SUFFICES ASSUME TablesRead, StackInv, NextItem PROVE StackInv'
  OBVIOUS
<1> DEFINE f == frames[1]
           rule == StepAt(frames[2]).rule
           g == ItemFrame(rule, ItemsWith(f, rule.target.metadata), f.at + 1, NoCounts)
<1>1. /\ outcome = "mapping" /\ Len(frames) > 1 /\ MessageKept
      /\ frames' = <<g>> \o Tail(frames) /\ outcome' = outcome
  BY DEF NextItem, ItemDone, MessageKept, CountsForNext
<1>2. Stack(frames) /\ AllSound(frames)
  BY <1>1 DEF StackInv
<1>3. rule.children.path # <<>>
  BY <1>1, <1>2, SecondFrame, WaitingRule
<1>4. IsFrame(g) /\ OfItem(g) /\ Sound(g)
  BY <1>3, ItemFrameIs
<1> HIDE DEF g
<1>5. Placed(g, 1, Len(frames))
  BY <1>1, <1>4 DEF Placed
<1>6. Stack(<<g>> \o Tail(frames)) /\ AllSound(<<g>> \o Tail(frames))
  BY <1>2, <1>4, <1>5, StackReplaced
<1>7. PICK h : h = frames'
  OBVIOUS
<1>8. Stack(h) /\ AllSound(h)
  BY <1>1, <1>6, <1>7
<1> QED BY <1>1, <1>7, <1>8, StackInvNext

LEMMA LeaveListStep ==
  TablesRead /\ StackInv /\ LeaveList => StackInv'
<1> SUFFICES ASSUME TablesRead, StackInv, LeaveList PROVE StackInv'
  OBVIOUS
<1> DEFINE f == frames[2]
           m == MessageWith(f, frames[1])
           g == After(f, m, f.current)
<1>1. /\ outcome = "mapping" /\ Len(frames) > 1 /\ MessageKept
      /\ frames' = <<g>> \o Tail(Tail(frames)) /\ outcome' = outcome
  BY DEF LeaveList, ItemDone, MessageKept
<1>2. Stack(frames) /\ AllSound(frames)
  BY <1>1 DEF StackInv
<1>3. IsFrame(f) /\ Waiting(f) /\ Len(f.steps) \in Nat /\ 2 \in 1 .. Len(frames)
  BY <1>1, <1>2, SecondFrame
<1>4. Sound(f) /\ f.next <= Len(f.steps)
  BY <1>2, <1>3 DEF AllSound, Waiting
<1> HIDE DEF m
<1>5. IsFrame(g) /\ g.steps = f.steps
  BY <1>3, <1>4, AfterFrame
<1>6. \A place : Count(f.current, place) \in {Count(f.current, place), Filled}
  OBVIOUS
<1>7. Sound(g)
  BY <1>3, <1>4, <1>6, SoundAfter
<1> HIDE DEF g
<1>8. Stack(<<g>> \o Tail(Tail(frames))) /\ AllSound(<<g>> \o Tail(Tail(frames)))
  BY <1>1, <1>2, <1>5, <1>7, StackPopped
<1>9. PICK h : h = frames'
  OBVIOUS
<1>10. Stack(h) /\ AllSound(h)
  BY <1>1, <1>8, <1>9
<1> QED BY <1>1, <1>9, <1>10, StackInvNext

\* A message that has failed is at a rule without a source, or at a forEach.
AtForEach(f) == StepAt(f).rule.mode = "forEach"

LEMMA AtForEachReason ==
  ASSUME NEW h, h = frames', AtForEach(Head(h))
  PROVE  FailedForReason'
<1>1. ErrorAtLastRule'
  BY DEF ErrorAtLastRule, NoSource, AtForEach, Moves
<1>2. MissingAllowed'
  BY DEF MissingAllowed, AtForEach
<1> QED BY <1>1, <1>2 DEF FailedForReason

LEMMA BackStep ==
  TablesRead /\ Stack(frames) /\ Len(frames) > 1 /\ Back /\ MessageKept /\ outcome' = "failed" => StackInv'
<1> SUFFICES ASSUME TablesRead, Stack(frames), Len(frames) > 1, Back, MessageKept, outcome' = "failed"
             PROVE  StackInv'
  OBVIOUS
<1> DEFINE f == frames[2]
           m == MessageWith(f, frames[1])
           g == [f EXCEPT !.message = m]
<1>1. frames' = <<g>> \o Tail(Tail(frames))
  BY DEF Back
<1>2. IsFrame(f) /\ Waiting(f)
  BY SecondFrame
<1> HIDE DEF f, m
<1>3. IsFrame(g) /\ g.steps = f.steps /\ g.next = f.next
  <2>1. PICK v, w, x, y, z, u :
          f = [message |-> v, steps |-> w, next |-> x, current |-> y, items |-> z, at |-> u]
    BY <1>2 DEF IsFrame
  <2>2. f.steps = w /\ f.next = x
    BY ONLY <2>1
  <2>3. g = [message |-> m, steps |-> w, next |-> x, current |-> y, items |-> z, at |-> u]
    BY ONLY <2>1
  <2> HIDE DEF g
  <2>4. g.steps = f.steps /\ g.next = f.next
    BY <2>2, <2>3
  <2> QED BY <1>2, <2>3, <2>4 DEF IsFrame
<1> HIDE DEF g
<1>4. AtForEach(g)
  BY <1>2, <1>3 DEF AtForEach, Waiting, StepAt
<1>5. Stack(<<g>> \o Tail(Tail(frames))) /\ (<<g>> \o Tail(Tail(frames)))[1] = g
  BY <1>3, StackPopped DEF f
<1>6. PICK h : h = frames'
  OBVIOUS
<1>7. Stack(h) /\ h[1] = g /\ Head(h) = g
  BY <1>1, <1>5, <1>6, TopOf
<1>8. Stack(frames)'
  BY <1>6, <1>7, StackSame DEF MessageKept
<1>9. FailedForReason'
  BY <1>4, <1>6, <1>7, AtForEachReason
<1> QED BY <1>8, <1>9 DEF StackInv

LEMMA FailSteps ==
  TablesRead /\ StackInv /\ (FailItem \/ Unwind) => StackInv'
<1> SUFFICES ASSUME TablesRead, StackInv, FailItem \/ Unwind PROVE StackInv'
  OBVIOUS
<1>1. outcome \in {"mapping", "failed"} /\ Len(frames) > 1 /\ Back /\ MessageKept /\ outcome' = "failed"
  BY DEF FailItem, Unwind, ItemDone, MessageKept
<1>2. Stack(frames)
  BY <1>1 DEF StackInv
<1> QED BY <1>1, <1>2, BackStep

\* Exceptions without a count: the frames are as they were.
LEMMA ExceptionSteps ==
  TablesRead /\ StackInv /\ (MissPayload \/ FailList) => StackInv'
<1> SUFFICES ASSUME TablesRead, StackInv, MissPayload \/ FailList PROVE StackInv'
  OBVIOUS
<1>1. outcome = "mapping" /\ MessageKept /\ outcome' = "failed" /\ frames' = frames
  BY DEF MissPayload, FailList, Applying, MessageKept
<1>2. Stack(frames)
  BY <1>1 DEF StackInv
<1>3. PICK h : h = frames'
  OBVIOUS
<1>4. Stack(h) /\ h = frames
  BY <1>1, <1>2, <1>3
<1>5. Stack(frames)'
  BY <1>1, <1>3, <1>4, StackSame DEF MessageKept
<1>6. CASE MissPayload
  <2>1. NoPayloadMap(Head(h).message, StepAt(Head(h)).rule.source) /\ ~codec.allowMissing
    BY <1>4, <1>6 DEF MissPayload
  <2>2. ErrorAtLastRule'
    BY <1>3, <2>1 DEF ErrorAtLastRule
  <2>3. MissingAllowed'
    BY <1>1, <2>1 DEF MissingAllowed, MessageKept
  <2> QED BY <1>5, <1>1, <2>2, <2>3 DEF StackInv, FailedForReason
<1>7. CASE FailList
  <2>1. AtForEach(Head(h))
    BY <1>4, <1>7 DEF FailList, Applying, AtForEach
  <2>2. FailedForReason'
    BY <1>3, <2>1, AtForEachReason
  <2> QED BY <1>1, <1>5, <2>2 DEF StackInv
<1> QED BY <1>6, <1>7

LEMMA ReceiveStep ==
  TablesRead /\ Receive => StackInv'
<1> SUFFICES ASSUME TablesRead, Receive PROVE StackInv'
  OBVIOUS
<1>1. PICK m : /\ received' = m
               /\ frames' = <<Frame(m, RulesFor(m, direction), NoCounts, <<>>, 0)>>
  BY DEF Receive
<1>2. outcome' = "mapping" /\ codec' = codec /\ direction' = direction
  BY DEF Receive
<1> PICK steps : steps = RulesFor(m, direction)
  OBVIOUS
<1> PICK f : f = Frame(m, steps, NoCounts, <<>>, 0)
  OBVIOUS
<1>3. f = [message |-> m, steps |-> steps, next |-> 1, current |-> NoCounts, items |-> <<>>, at |-> 0]
  BY DEF Frame
<1>4. Len(steps) \in Nat
  BY RulesForIs, SequenceDomain
<1>5. frames' = <<f>>
  BY <1>1
<1>6. RulesFor(received, direction)' = steps
  BY <1>1, <1>2 DEF RulesFor, Ignored, TypeSteps, StepsOf
<1>7. IsFrame(f)
  BY <1>3, <1>4 DEF IsFrame
<1>8. \A place : Count(f.current, place) = 0
  BY <1>3 DEF NoCounts, Count
<1>9. \A place : FillSteps(f.steps, f.next - 1, place) \in Nat
  <2>1. f.next - 1 \in Nat
    BY <1>3
  <2> QED BY <2>1, FillsUpToType DEF FillSteps
<1>10. Sound(f)
  BY <1>8, <1>9 DEF Sound, SoundAt
<1>11. OfMessage(f)'
  BY <1>3, <1>6 DEF OfMessage
<1>12. Placed(f, 1, 1)'
  BY <1>7, <1>11 DEF Placed
<1>13. /\ Len(<<f>>) = 1 /\ <<f>>[1] = f /\ IsSequence(<<f>>)
       /\ \A k \in 1 .. 1 : k = 1
  <2>1. <<f>> \in Seq({f})
    OBVIOUS
  <2>2. IsSequence(<<f>>)
    BY <2>1, SeqOfRange DEF IsSequence
  <2> QED BY <2>2
<1>14. Stack(<<f>>)'
  BY <1>12, <1>13 DEF Stack
<1>15. AllSound(<<f>>)
  BY <1>10, <1>13 DEF AllSound
<1>16. Stack(frames)' /\ AllSound(frames)'
  BY <1>5, <1>14, <1>15
<1> QED BY <1>2, <1>16 DEF StackInv, FailedForReason, ErrorAtLastRule, MissingAllowed

LEMMA StackAlways == Spec => []StackInv
<1>1. Init => StackInv
  BY DEF Init, Start, StackInv, FailedForReason, ErrorAtLastRule, MissingAllowed
<1>2. ReadInv /\ StackInv /\ [Next]_vars => StackInv'
  <2> SUFFICES ASSUME ReadInv, StackInv, [Next]_vars PROVE StackInv'
    OBVIOUS
  <2>1. outcome \notin {"new", "refused", "reading"} => TablesRead /\ TotalsRead
    BY DEF ReadInv, Read1
  <2>2. CASE Construct \/ PopulateRules \/ ComputeTotals
    <3>1. outcome' \in {"refused", "reading", "ready"}
      BY <2>2 DEF Construct, PopulateRules, ComputeTotals
    <3> QED BY <3>1 DEF StackInv, FailedForReason, ErrorAtLastRule, MissingAllowed
  <2>3. CASE Receive
    <3>1. outcome = "ready"
      BY <2>3 DEF Receive
    <3> QED BY <2>1, <2>3, <3>1, ReceiveStep
  <2>4. CASE Apply
    <3>1. outcome \in {"mapping", "failed"}
      BY <2>4 DEF Apply, ForEach, Move, MoveNothing, MissSource, MissPayload, Assign, EnterList, SkipList,
                  FailList, NextItem, LeaveList, FailItem, Unwind, ItemDone, Applying
    <3>2. TablesRead /\ TotalsRead
      BY <2>1, <3>1
    <3>3. CASE Move \/ MoveNothing \/ Assign \/ SkipList
      BY <3>2, <3>3, PlainSteps
    <3>4. CASE MissSource
      BY <3>2, <3>4, MissSourceStep
    <3>5. CASE MissPayload \/ FailList
      BY <3>2, <3>5, ExceptionSteps
    <3>6. CASE EnterList
      BY <3>2, <3>6, EnterListStep
    <3>7. CASE NextItem
      BY <3>2, <3>7, NextItemStep
    <3>8. CASE LeaveList
      BY <3>2, <3>8, LeaveListStep
    <3>9. CASE FailItem \/ Unwind
      BY <3>2, <3>9, FailSteps
    <3> QED BY <2>4, <3>3, <3>4, <3>5, <3>6, <3>7, <3>8, <3>9 DEF Apply, ForEach
  <2>5. CASE Finish
    <3>1. outcome = "mapping" /\ outcome' = "mapped" /\ MessageKept /\ frames' = frames
      BY <2>5 DEF Finish, MessageKept
    <3>2. Stack(frames) /\ AllSound(frames)
      BY <3>1 DEF StackInv
    <3>3. PICK h : h = frames'
      OBVIOUS
    <3>4. Stack(h) /\ AllSound(h)
      BY <3>1, <3>2, <3>3
    <3> QED BY <3>1, <3>3, <3>4, StackInvNext
  <2>6. CASE UNCHANGED vars
    <3>1. MessageKept /\ frames' = frames /\ outcome' = outcome
      BY <2>6 DEF vars, MessageKept
    <3>2. PICK h : h = frames'
      OBVIOUS
    <3>3. Stack(h) => Stack(h)'
      BY <3>1, StackSame DEF MessageKept
    <3>4. FailedForReason' = FailedForReason
      BY <2>6 DEF vars, FailedForReason, ErrorAtLastRule, MissingAllowed, NoSource, MappedTwice, HasEntry
    <3> QED BY <3>1, <3>2, <3>3, <3>4 DEF StackInv
  <2> QED BY <2>2, <2>3, <2>4, <2>5, <2>6 DEF Next
<1> QED BY <1>1, <1>2, ReadAlways, PTL DEF Spec

(* A message fails only at a rule that leaves its target without a value   *)
(* for good: by the counts, no later rule of the type could have set it.   *)
THEOREM FailsForReason == Spec => []FailedForReason
<1>1. StackInv => FailedForReason
  BY DEF StackInv
<1> QED BY <1>1, StackAlways, PTL

-----------------------------------------------------------------------------
(* Data: what stays where it is when another field is written or erased.   *)

\* The function that Along is defined by.
Walking(d, keys, n, g) == g = [m \in 0 .. n |-> IF m = 0 THEN d ELSE Entry(g[m - 1], keys[m])]

LEMMA WalkingExists ==
  ASSUME NEW d, NEW keys, NEW N \in Nat PROVE \E g : Walking(d, keys, N, g)
<1> DEFINE Bad == {n \in Nat : ~ \E g : Walking(d, keys, n, g)}
<1> SUFFICES ASSUME Bad # {} PROVE FALSE
  OBVIOUS
<1>1. PICK n \in Bad : \A m \in Bad : n <= m
  BY LeastNumber
<1>2. CASE n = 0
  <2> DEFINE g == [m \in 0 .. 0 |-> d]
  <2>1. Walking(d, keys, 0, g)
    BY DEF Walking
  <2> QED BY <1>1, <1>2, <2>1
<1>3. CASE n > 0
  <2>1. n - 1 \in Nat /\ n - 1 \notin Bad
    BY <1>1, <1>3
  <2>2. PICK g : Walking(d, keys, n - 1, g)
    BY <2>1
  <2> DEFINE h == [m \in 0 .. n |-> IF m = n THEN Entry(g[n - 1], keys[n]) ELSE g[m]]
  <2>3. \A m \in 0 .. n : h[m] = IF m = 0 THEN d ELSE Entry(h[m - 1], keys[m])
    <3> SUFFICES ASSUME NEW m \in 0 .. n
                 PROVE  h[m] = IF m = 0 THEN d ELSE Entry(h[m - 1], keys[m])
      OBVIOUS
    <3>1. CASE m = n
      <4>1. h[m] = Entry(g[n - 1], keys[n]) /\ h[n - 1] = g[n - 1] /\ m # 0
        BY <1>3, <3>1
      <4> HIDE DEF h
      <4> QED BY <3>1, <4>1
    <3>2. CASE m # n
      <4>1. m \in 0 .. (n - 1) /\ (m # 0 => m - 1 \in 0 .. n /\ m - 1 # n)
        BY <3>2
      <4>2. h[m] = g[m] /\ (m # 0 => h[m - 1] = g[m - 1])
        BY <3>2, <4>1
      <4> HIDE DEF h
      <4>3. g[m] = IF m = 0 THEN d ELSE Entry(g[m - 1], keys[m])
        BY <2>2, <4>1 DEF Walking
      <4> QED BY <4>2, <4>3
    <3> QED BY <3>1, <3>2
  <2>4. h = [m \in 0 .. n |-> h[m]]
    OBVIOUS
  <2> HIDE DEF h
  <2>5. Walking(d, keys, n, h)
    BY <2>3, <2>4 DEF Walking
  <2> QED BY <1>1, <2>5
<1> QED BY <1>2, <1>3

LEMMA AlongIs ==
  ASSUME NEW d, NEW keys, IsSequence(keys)
  PROVE  /\ Along(d, keys)[0] = d
         /\ \A i \in 1 .. Len(keys) : Along(d, keys)[i] = Entry(Along(d, keys)[i - 1], keys[i])
<1> DEFINE g == CHOOSE f : Walking(d, keys, Len(keys), f)
<1>1. Len(keys) \in Nat
  BY SequenceDomain
<1>2. Walking(d, keys, Len(keys), g)
  BY <1>1, WalkingExists
<1>3. Along(d, keys) = g
  BY DEF Along, Walking
<1> HIDE DEF g
<1>4. g[0] = d
  BY <1>1, <1>2 DEF Walking
<1>5. ASSUME NEW i \in 1 .. Len(keys) PROVE g[i] = Entry(g[i - 1], keys[i])
  <2>1. i \in 0 .. Len(keys) /\ i # 0
    BY <1>1
  <2> QED BY <1>2, <2>1 DEF Walking
<1> QED BY <1>3, <1>4, <1>5

\* The function that Put is defined by, of the data on the path.
Putting(path, keys, value, n, g) ==
  g = [m \in 0 .. n |->
         IF m = 0 THEN value
         ELSE LET i == Len(keys) - m IN WithEntry(path[i], keys[i + 1], g[m - 1])]

LEMMA PuttingExists ==
  ASSUME NEW path, NEW keys, NEW value, NEW N \in Nat PROVE \E g : Putting(path, keys, value, N, g)
<1> DEFINE Bad == {n \in Nat : ~ \E g : Putting(path, keys, value, n, g)}
           Step(m, x) == WithEntry(path[Len(keys) - m], keys[(Len(keys) - m) + 1], x)
<1> SUFFICES ASSUME Bad # {} PROVE FALSE
  OBVIOUS
<1>1. PICK n \in Bad : \A m \in Bad : n <= m
  BY LeastNumber
<1>0. \A g, k : Putting(path, keys, value, k, g)
                  <=> g = [m \in 0 .. k |-> IF m = 0 THEN value ELSE Step(m, g[m - 1])]
  BY DEF Putting
<1> HIDE DEF Step
<1>2. CASE n = 0
  <2> DEFINE g == [m \in 0 .. 0 |-> value]
  <2>1. g = [m \in 0 .. 0 |-> IF m = 0 THEN value ELSE Step(m, g[m - 1])]
    OBVIOUS
  <2>2. Putting(path, keys, value, 0, g)
    BY <1>0, <2>1
  <2> QED BY <1>1, <1>2, <2>2
<1>3. CASE n > 0
  <2>1. n - 1 \in Nat /\ n - 1 \notin Bad
    BY <1>1, <1>3
  <2>2. PICK g : Putting(path, keys, value, n - 1, g)
    BY <2>1
  <2>0. g = [m \in 0 .. n - 1 |-> IF m = 0 THEN value ELSE Step(m, g[m - 1])]
    BY <1>0, <2>2
  <2> DEFINE h == [m \in 0 .. n |-> IF m = n THEN Step(n, g[n - 1]) ELSE g[m]]
  <2>3. \A m \in 0 .. n : h[m] = IF m = 0 THEN value ELSE Step(m, h[m - 1])
    <3> SUFFICES ASSUME NEW m \in 0 .. n
                 PROVE  h[m] = IF m = 0 THEN value ELSE Step(m, h[m - 1])
      OBVIOUS
    <3>1. CASE m = n
      <4>1. h[m] = Step(n, g[n - 1]) /\ h[n - 1] = g[n - 1] /\ m # 0
        BY <1>3, <3>1
      <4> HIDE DEF h
      <4> QED BY <3>1, <4>1
    <3>2. CASE m # n
      <4>1. m \in 0 .. (n - 1) /\ (m # 0 => m - 1 \in 0 .. n /\ m - 1 # n)
        BY <3>2
      <4>2. h[m] = g[m] /\ (m # 0 => h[m - 1] = g[m - 1])
        BY <3>2, <4>1
      <4> HIDE DEF h
      <4>3. g[m] = IF m = 0 THEN value ELSE Step(m, g[m - 1])
        BY <2>0, <4>1
      <4> QED BY <4>2, <4>3
    <3> QED BY <3>1, <3>2
  <2>4. h = [m \in 0 .. n |-> h[m]]
    OBVIOUS
  <2> HIDE DEF h
  <2>5. h = [m \in 0 .. n |-> IF m = 0 THEN value ELSE Step(m, h[m - 1])]
    BY <2>3, <2>4
  <2>6. Putting(path, keys, value, n, h)
    BY <1>0, <2>5
  <2> QED BY <1>1, <2>6
<1> QED BY <1>2, <1>3

\* What is put together, from each of the keys on.
PutFrom(d, keys, value) ==
  LET g == CHOOSE f : Putting(Along(d, keys), keys, value, Len(keys), f)
  IN [i \in 0 .. Len(keys) |-> g[Len(keys) - i]]

LEMMA PutIs ==
  ASSUME NEW d, NEW keys, NEW value, IsSequence(keys)
  PROVE  LET b == PutFrom(d, keys, value) IN
           /\ Put(d, keys, value) = b[0] /\ b[Len(keys)] = value
           /\ \A i \in 0 .. Len(keys) - 1 :
                b[i] = WithEntry(Along(d, keys)[i], keys[i + 1], b[i + 1])
<1> DEFINE path == Along(d, keys)
           g == CHOOSE f : Putting(path, keys, value, Len(keys), f)
           b == PutFrom(d, keys, value)
<1>1. Len(keys) \in Nat
  BY SequenceDomain
<1>2. Putting(path, keys, value, Len(keys), g)
  BY <1>1, PuttingExists
<1>3. Put(d, keys, value) = g[Len(keys)]
  BY DEF Put, Putting
<1>4. \A i \in 0 .. Len(keys) : b[i] = g[Len(keys) - i]
  BY DEF PutFrom
<1> HIDE DEF g, b, path
<1>5. g[0] = value
  BY <1>1, <1>2 DEF Putting
<1>6. b[0] = g[Len(keys)] /\ b[Len(keys)] = g[0]
  BY <1>1, <1>4
<1>7. ASSUME NEW i \in 0 .. Len(keys) - 1
      PROVE  b[i] = WithEntry(path[i], keys[i + 1], b[i + 1])
  <2>1. /\ Len(keys) - i \in 0 .. Len(keys) /\ Len(keys) - i # 0 /\ Len(keys) - (Len(keys) - i) = i
        /\ (Len(keys) - i) - 1 = Len(keys) - (i + 1) /\ i \in 0 .. Len(keys) /\ i + 1 \in 0 .. Len(keys)
    BY <1>1
  <2>2. g[Len(keys) - i] = WithEntry(path[i], keys[i + 1], g[(Len(keys) - i) - 1])
    BY <1>2, <2>1 DEF Putting
  <2> QED BY <1>4, <2>1, <2>2
<1> QED BY <1>3, <1>5, <1>6, <1>7 DEF b, path

LEMMA EntriesWith ==
  ASSUME NEW d, NEW k, NEW x
  PROVE  LET e == WithEntry(d, k, x) IN
           /\ k \in DOMAIN Entries(e) /\ Entry(e, k) = x
           /\ \A key \in DOMAIN Entries(d) : key \in DOMAIN Entries(e)
           /\ \A key : key # k => Entry(e, key) = Entry(d, key)
<1> DEFINE e == WithEntry(d, k, x)
<1>1. Entries(e) = With(Entries(d), k, x)
  BY DEF WithEntry, Entries, Map, IsMap
<1> HIDE DEF e
<1>2. DOMAIN Entries(e) = DOMAIN Entries(d) \cup {k}
  BY <1>1 DEF With
<1>3. \A key \in DOMAIN Entries(d) \cup {k} : Entries(e)[key] = IF key = k THEN x ELSE Entries(d)[key]
  BY <1>1 DEF With
<1>4. \A key : key # k => Entry(e, key) = Entry(d, key)
  BY <1>2, <1>3 DEF Entry
<1> QED BY <1>2, <1>3, <1>4 DEF Entry, e

LEMMA EntriesWithout ==
  ASSUME NEW d, NEW k, NEW key \in DOMAIN Entries(d), key # k
  PROVE  LET e == WithoutEntry(d, k) IN key \in DOMAIN Entries(e) /\ Entry(e, key) = Entry(d, key)
<1> DEFINE e == WithoutEntry(d, k)
<1>1. Entries(e) = [l \in DOMAIN Entries(d) \ {k} |-> Entries(d)[l]]
  BY DEF WithoutEntry, Entries, Map, IsMap
<1> HIDE DEF e
<1>2. DOMAIN Entries(e) = DOMAIN Entries(d) \ {k} /\ Entries(e)[key] = Entries(d)[key]
  BY <1>1
<1> QED BY <1>2 DEF Entry, e

LEMMA NoEntry ==
  ASSUME NEW d, ~IsMap(d) PROVE DOMAIN Entries(d) = {}
  BY DEF Entries, NoEntries

\* The datum after some of the keys is that after those keys.
LEMMA AlongAgree ==
  ASSUME NEW d, NEW p, NEW q, IsSequence(p), IsSequence(q),
         NEW j \in Nat, j <= Len(p), j <= Len(q), \A i \in 1 .. j : p[i] = q[i]
  PROVE  \A i \in 0 .. j : Along(d, p)[i] = Along(d, q)[i]
<1> DEFINE Bad == {i \in 0 .. j : Along(d, p)[i] # Along(d, q)[i]}
<1> SUFFICES ASSUME Bad # {} PROVE FALSE
  OBVIOUS
<1>1. PICK i \in Bad : \A m \in Bad : i <= m
  BY LeastNumber, Bad \in SUBSET Nat
<1>2. Len(p) \in Nat /\ Len(q) \in Nat
  BY SequenceDomain
<1>3. CASE i = 0
  BY <1>1, <1>3, AlongIs
<1>4. CASE i # 0
  <2>1. i \in 1 .. Len(p) /\ i \in 1 .. Len(q) /\ i \in 1 .. j /\ i - 1 \in 0 .. j /\ ~(i <= i - 1)
    BY <1>2, <1>4
  <2>2. i - 1 \notin Bad
    BY <1>1, <2>1
  <2>3. Along(d, p)[i - 1] = Along(d, q)[i - 1] /\ p[i] = q[i]
    BY <2>1, <2>2
  <2>4. Along(d, p)[i] = Entry(Along(d, p)[i - 1], p[i]) /\ Along(d, q)[i] = Entry(Along(d, q)[i - 1], q[i])
    BY <2>1, AlongIs
  <2> QED BY <2>3, <2>4
<1> QED BY <1>3, <1>4

\* What is put is found on the same path.
LEMMA PutAlong ==
  ASSUME NEW d, NEW keys, NEW value, IsSequence(keys)
  PROVE  \A i \in 0 .. Len(keys) : Along(Put(d, keys, value), keys)[i] = PutFrom(d, keys, value)[i]
<1> DEFINE b == PutFrom(d, keys, value)
           e == Put(d, keys, value)
           Bad == {i \in 0 .. Len(keys) : Along(e, keys)[i] # b[i]}
<1> SUFFICES ASSUME Bad # {} PROVE FALSE
  OBVIOUS
<1>1. PICK i \in Bad : \A m \in Bad : i <= m
  BY LeastNumber, Bad \in SUBSET Nat
<1>2. Len(keys) \in Nat
  BY SequenceDomain
<1>3. e = b[0] /\ \A m \in 0 .. Len(keys) - 1 : b[m] = WithEntry(Along(d, keys)[m], keys[m + 1], b[m + 1])
  BY PutIs
<1> HIDE DEF b, e
<1>4. CASE i = 0
  BY <1>1, <1>3, <1>4, AlongIs
<1>5. CASE i # 0
  <2>1. i \in 1 .. Len(keys) /\ i - 1 \in 0 .. Len(keys) - 1 /\ i - 1 \in 0 .. Len(keys) /\ ~(i <= i - 1) /\ (i - 1) + 1 = i
    BY <1>2, <1>5
  <2>2. Along(e, keys)[i - 1] = b[i - 1]
    BY <1>1, <2>1
  <2>3. b[i - 1] = WithEntry(Along(d, keys)[i - 1], keys[i], b[i])
    BY <1>3, <2>1
  <2>4. Entry(b[i - 1], keys[i]) = b[i]
    BY <2>3, EntriesWith
  <2>5. Along(e, keys)[i] = Entry(Along(e, keys)[i - 1], keys[i])
    BY <2>1, AlongIs
  <2> QED BY <2>2, <2>4, <2>5
<1> QED BY <1>4, <1>5

LEMMA PutHas ==
  ASSUME NEW d, NEW keys, NEW value, IsSequence(keys)
  PROVE  Has(Put(d, keys, value), keys)
<1> DEFINE b == PutFrom(d, keys, value)
           n == Len(keys)
<1> SUFFICES ASSUME keys # <<>>
             PROVE  keys[n] \in DOMAIN Entries(Along(Put(d, keys, value), keys)[n - 1])
  BY DEF Has, Last
<1>1. n \in Nat /\ n # 0
  BY SequenceDomain, EmptySeq DEF IsSequence
<1>2. n - 1 \in 0 .. n /\ n - 1 \in 0 .. n - 1 /\ (n - 1) + 1 = n
  BY <1>1
<1>3. b[n - 1] = WithEntry(Along(d, keys)[n - 1], keys[n], b[n])
  BY <1>2, PutIs
<1>4. Along(Put(d, keys, value), keys)[n - 1] = b[n - 1]
  BY <1>2, PutAlong
<1> QED BY <1>3, <1>4, EntriesWith

\* A path that is there is there at each of its keys.
LEMMA HasEach ==
  ASSUME NEW d, NEW keys, IsSequence(keys), Has(d, keys)
  PROVE  \A i \in 0 .. Len(keys) - 1 : keys[i + 1] \in DOMAIN Entries(Along(d, keys)[i])
<1> DEFINE a == Along(d, keys)
           n == Len(keys)
<1> SUFFICES ASSUME NEW i \in 0 .. n - 1, keys[i + 1] \notin DOMAIN Entries(a[i]) PROVE FALSE
  OBVIOUS
<1>1. n \in Nat /\ i \in Nat /\ i < n
  BY SequenceDomain
<1>2. keys # <<>>
  BY <1>1
<1>3. keys[n] \in DOMAIN Entries(a[n - 1])
  BY <1>2 DEF Has, Last
<1>4. \A m \in 1 .. n : a[m] = Entry(a[m - 1], keys[m])
  BY AlongIs
<1> DEFINE Bad == {m \in i + 1 .. n : a[m] # Empty}
<1>5. CASE Bad = {}
  <2>1. i # n - 1
    BY <1>3, <1>1
  <2>2. n - 1 \in i + 1 .. n
    BY <1>1, <2>1
  <2>3. a[n - 1] = Empty
    BY <1>5, <2>2
  <2>4. ~IsMap(Empty)
    BY DEF IsMap, Empty
  <2> QED BY <1>3, <2>3, <2>4, NoEntry
<1>6. CASE Bad # {}
  <2>1. PICK m \in Bad : \A k \in Bad : m <= k
    BY <1>1, <1>6, LeastNumber, Bad \in SUBSET Nat
  <2>2. m \in 1 .. n /\ m - 1 \in Int /\ ~(m <= m - 1) /\ (m = i + 1 \/ m - 1 \in i + 1 .. n) /\ i + 1 - 1 = i
    BY <1>1
  <2>3. a[m] = Entry(a[m - 1], keys[m])
    BY <1>4, <2>2
  <2>4. CASE m = i + 1
    <3>1. a[m] = Empty
      BY <2>2, <2>3, <2>4 DEF Entry
    <3> QED BY <3>1
  <2>5. CASE m # i + 1
    <3>1. m - 1 \in i + 1 .. n /\ m - 1 \notin Bad
      BY <2>1, <2>2, <2>5
    <3>2. a[m - 1] = Empty /\ ~IsMap(Empty)
      BY <3>1 DEF IsMap, Empty
    <3>3. a[m] = Empty
      BY <2>3, <3>2, NoEntry DEF Entry
    <3> QED BY <3>3
  <2> QED BY <2>4, <2>5
<1> QED BY <1>5, <1>6

\* What is the same from one of the keys on is there as it was.
LEMMA BelowSame ==
  ASSUME NEW d, NEW e, NEW keys, IsSequence(keys), Has(d, keys), NEW j \in 0 .. Len(keys) - 1,
         keys[j + 1] \in DOMAIN Entries(Along(e, keys)[j]),
         Entry(Along(e, keys)[j], keys[j + 1]) = Entry(Along(d, keys)[j], keys[j + 1])
  PROVE  Has(e, keys)
<1> DEFINE n == Len(keys)
           Bad == {i \in j + 1 .. n : Along(e, keys)[i] # Along(d, keys)[i]}
<1>1. n \in Nat /\ j \in Nat /\ j < n
  BY SequenceDomain
<1>2. Bad = {}
  <2> SUFFICES ASSUME Bad # {} PROVE FALSE
    OBVIOUS
  <2>1. PICK i \in Bad : \A m \in Bad : i <= m
    BY <1>1, LeastNumber, Bad \in SUBSET Nat
  <2>2. i \in 1 .. n /\ i - 1 \in Int /\ ~(i <= i - 1) /\ (i = j + 1 \/ i - 1 \in j + 1 .. n) /\ j + 1 - 1 = j
    BY <1>1
  <2>3. Along(e, keys)[i] = Entry(Along(e, keys)[i - 1], keys[i]) /\ Along(d, keys)[i] = Entry(Along(d, keys)[i - 1], keys[i])
    BY <2>2, AlongIs
  <2>4. CASE i = j + 1
    BY <2>2, <2>3, <2>4
  <2>5. CASE i # j + 1
    <3>1. i - 1 \in j + 1 .. n /\ i - 1 \notin Bad
      BY <2>1, <2>2, <2>5
    <3> QED BY <2>3, <3>1
  <2> QED BY <2>4, <2>5
<1>3. keys[n] \in DOMAIN Entries(Along(e, keys)[n - 1])
  <2>1. CASE j = n - 1
    <3>1. j + 1 = n
      BY <1>1, <2>1
    <3> QED BY <2>1, <3>1
  <2>2. CASE j # n - 1
    <3>1. n - 1 \in j + 1 .. n /\ n - 1 \in 0 .. n - 1 /\ (n - 1) + 1 = n
      BY <1>1, <2>2
    <3>2. Along(e, keys)[n - 1] = Along(d, keys)[n - 1]
      BY <1>2, <3>1
    <3>3. keys[n] \in DOMAIN Entries(Along(d, keys)[n - 1])
      BY <3>1, HasEach
    <3> QED BY <3>2, <3>3
  <2> QED BY <2>1, <2>2
<1> QED BY <1>3 DEF Has, Last

Begins(ks, kp) == Len(ks) <= Len(kp) /\ \A i \in 1 .. Len(ks) : ks[i] = kp[i]

LEMMA FirstDifference ==
  ASSUME NEW p, NEW q, IsSequence(p), IsSequence(q)
  PROVE  \E j \in Nat : /\ j <= Len(p) /\ j <= Len(q) /\ \A i \in 1 .. j : p[i] = q[i]
                        /\ (j = Len(p)) \/ (j = Len(q)) \/ (p[j + 1] # q[j + 1])
<1> DEFINE Ends == {j \in Nat : (j = Len(p)) \/ (j = Len(q)) \/ (p[j + 1] # q[j + 1])}
<1>1. Len(p) \in Nat /\ Len(q) \in Nat
  BY SequenceDomain
<1>2. PICK j \in Ends : \A m \in Ends : j <= m
  <2>1. Len(p) \in Ends
    BY <1>1
  <2> QED BY <2>1, LeastNumber, Ends \in SUBSET Nat
<1>3. j <= Len(p) /\ j <= Len(q)
  BY <1>1, <1>2
<1>4. ASSUME NEW i \in 1 .. j PROVE p[i] = q[i]
  <2>1. i - 1 \in Nat /\ ~(j <= i - 1) /\ (i - 1) + 1 = i
    OBVIOUS
  <2>2. i - 1 \notin Ends
    BY <1>2, <2>1
  <2> QED BY <2>1, <2>2
<1> QED BY <1>2, <1>3, <1>4

\* An entry of old that new has too.
Keeps(old, new, key) ==
  key \in DOMAIN Entries(old) => key \in DOMAIN Entries(new) /\ Entry(new, key) = Entry(old, key)

(* A write to one path takes nothing from another, unless that goes on     *)
(* where the first one ends.                                               *)
LEMMA PutKeeps ==
  ASSUME NEW d, NEW ks, NEW kp, NEW value, IsSequence(ks), IsSequence(kp), Has(d, kp),
         Begins(ks, kp) /\ Len(ks) < Len(kp) => Keeps(At(d, ks), value, kp[Len(ks) + 1])
  PROVE  Has(Put(d, ks, value), kp)
<1> DEFINE e == Put(d, ks, value)
           b == PutFrom(d, ks, value)
<1>1. Len(ks) \in Nat /\ Len(kp) \in Nat
  BY SequenceDomain
<1>2. PICK j \in Nat : /\ j <= Len(ks) /\ j <= Len(kp) /\ \A i \in 1 .. j : ks[i] = kp[i]
                       /\ (j = Len(ks)) \/ (j = Len(kp)) \/ (ks[j + 1] # kp[j + 1])
  BY FirstDifference
<1>3. \A i \in 0 .. j : Along(d, ks)[i] = Along(d, kp)[i] /\ Along(e, ks)[i] = Along(e, kp)[i]
  BY <1>2, AlongAgree
<1>4. \A i \in 0 .. Len(ks) : Along(e, ks)[i] = b[i]
  BY PutAlong
<1>5. b[Len(ks)] = value /\ \A i \in 0 .. Len(ks) - 1 : b[i] = WithEntry(Along(d, ks)[i], ks[i + 1], b[i + 1])
  BY PutIs
<1>6. \A i \in 0 .. Len(kp) - 1 : kp[i + 1] \in DOMAIN Entries(Along(d, kp)[i])
  BY HasEach
<1> HIDE DEF e, b
<1>7. CASE j = Len(kp)
  <2> SUFFICES ASSUME kp # <<>> PROVE kp[j] \in DOMAIN Entries(Along(e, kp)[j - 1])
    BY <1>7 DEF Has, Last, e
  <2>1. j # 0
    BY <1>7, EmptySeq DEF IsSequence
  <2>2. j - 1 \in 0 .. j /\ j - 1 \in 0 .. Len(ks) - 1 /\ j - 1 \in 0 .. Len(ks) /\ (j - 1) + 1 = j /\ j \in 1 .. j
    BY <1>1, <1>2, <2>1
  <2>3. Along(e, kp)[j - 1] = WithEntry(Along(d, ks)[j - 1], ks[j], b[j])
    BY <1>3, <1>4, <1>5, <2>2
  <2>4. ks[j] = kp[j]
    BY <1>2, <2>2
  <2> QED BY <2>3, <2>4, EntriesWith
<1>8. CASE j # Len(kp) /\ j = Len(ks)
  <2>1. Begins(ks, kp) /\ Len(ks) < Len(kp) /\ j \in 0 .. Len(kp) - 1 /\ j \in 0 .. j /\ j \in 0 .. Len(ks)
    BY <1>1, <1>2, <1>8 DEF Begins
  <2>2. At(d, ks) = Along(d, kp)[j] /\ Along(e, kp)[j] = value
    BY <1>3, <1>4, <1>5, <1>8, <2>1 DEF At
  <2>3. Keeps(Along(d, kp)[j], Along(e, kp)[j], kp[j + 1])
    BY <1>8, <2>1, <2>2
  <2>4. kp[j + 1] \in DOMAIN Entries(Along(d, kp)[j])
    BY <1>6, <2>1
  <2> QED BY <2>1, <2>3, <2>4, BelowSame DEF Keeps, e
<1>9. CASE j # Len(kp) /\ j # Len(ks)
  <2>1. ks[j + 1] # kp[j + 1] /\ j \in 0 .. Len(kp) - 1 /\ j \in 0 .. Len(ks) - 1 /\ j \in 0 .. j /\ j \in 0 .. Len(ks)
    BY <1>1, <1>2, <1>9
  <2>2. Along(e, kp)[j] = WithEntry(Along(d, kp)[j], ks[j + 1], b[j + 1])
    BY <1>3, <1>4, <1>5, <2>1
  <2>3. kp[j + 1] \in DOMAIN Entries(Along(d, kp)[j])
    BY <1>6, <2>1
  <2>4. /\ kp[j + 1] \in DOMAIN Entries(Along(e, kp)[j])
        /\ Entry(Along(e, kp)[j], kp[j + 1]) = Entry(Along(d, kp)[j], kp[j + 1])
    BY <2>1, <2>2, <2>3, EntriesWith
  <2> QED BY <2>1, <2>4, BelowSame DEF e
<1> QED BY <1>7, <1>8, <1>9

LEMMA FrontIs ==
  ASSUME NEW s, IsSequence(s), s # <<>>
  PROVE  /\ IsSequence(Front(s)) /\ Len(Front(s)) = Len(s) - 1 /\ Len(s) \in Nat /\ Len(s) >= 1
         /\ \A i \in 1 .. Len(s) - 1 : Front(s)[i] = s[i]
<1>1. Len(s) \in Nat /\ DOMAIN s = 1 .. Len(s)
  BY SequenceDomain
<1>2. Len(s) # 0
  BY EmptySeq DEF IsSequence
<1>3. Front(s) = [i \in 1 .. Len(s) - 1 |-> s[i]]
  <2>1. SubSeq(s, 1, Len(s) - 1) = [i \in 1 .. (1 + (Len(s) - 1) - 1) |-> s[i + 1 - 1]]
    BY <1>1, <1>2
  <2> QED BY <1>1, <2>1 DEF Front
<1>4. DOMAIN Front(s) = 1 .. Len(s) - 1 /\ Front(s) = [i \in 1 .. Len(s) - 1 |-> Front(s)[i]] /\ Len(s) - 1 \in Nat
  BY <1>1, <1>2, <1>3
<1> QED BY <1>1, <1>2, <1>3, <1>4, SequenceRange

(* What is erased takes nothing with it but what is within it.             *)
LEMMA EraseKeeps ==
  ASSUME NEW d, NEW ks, NEW kp, IsSequence(ks), IsSequence(kp), ks # <<>>, Has(d, kp), ~Begins(ks, kp)
  PROVE  Has(Erase(d, ks), kp)
<1> DEFINE f == Front(ks)
           value == WithoutEntry(At(d, f), Last(ks))
<1>1. /\ IsSequence(f) /\ Len(f) = Len(ks) - 1 /\ Len(ks) \in Nat /\ Len(ks) >= 1
      /\ \A i \in 1 .. Len(ks) - 1 : f[i] = ks[i]
  BY FrontIs
<1>2. Len(kp) \in Nat
  BY SequenceDomain
<1> HIDE DEF f
<1>3. ASSUME Begins(f, kp), Len(f) < Len(kp) PROVE Keeps(At(d, f), value, kp[Len(f) + 1])
  <2>1. Len(f) + 1 = Len(ks) /\ Len(ks) <= Len(kp)
    BY <1>1, <1>2, <1>3
  <2>2. ASSUME kp[Len(ks)] = ks[Len(ks)] PROVE FALSE
    <3>1. ASSUME NEW i \in 1 .. Len(ks) PROVE ks[i] = kp[i]
      <4>1. CASE i = Len(ks)
        BY <2>2, <4>1
      <4>2. CASE i # Len(ks)
        <5>1. i \in 1 .. Len(ks) - 1 /\ i \in 1 .. Len(f)
          BY <1>1, <4>2
        <5> QED BY <1>1, <1>3, <5>1 DEF Begins
      <4> QED BY <4>1, <4>2
    <3> QED BY <2>1, <3>1 DEF Begins
  <2>3. kp[Len(f) + 1] # Last(ks)
    BY <2>1, <2>2 DEF Last
  <2> QED BY <2>3, EntriesWithout DEF Keeps
<1>4. Erase(d, ks) = Put(d, f, value)
  BY DEF Erase, f
<1> HIDE DEF value
<1> QED BY <1>1, <1>3, <1>4, PutKeeps

-----------------------------------------------------------------------------
(* The same for fields, which a map may have as a whole key.               *)

There(d, field, metadata) == Has(d, Keys(d, field, metadata))

Path(field) == [i \in DOMAIN field |-> <<field[i]>>]

\* Whether a field is looked for as one key.
AsOne(d, field, metadata) ==
  metadata /\ (field \in DOMAIN Entries(d) \/ (Head(field) = "sag" /\ Len(field) > 1))

LEMMA KeysAre ==
  ASSUME NEW d, NEW field, NEW metadata
  PROVE  /\ AsOne(d, field, metadata) => Keys(d, field, metadata) = <<field>>
         /\ ~AsOne(d, field, metadata) => Keys(d, field, metadata) = Path(field)
  BY DEF Keys, AsOne, Path

LEMMA OneKey ==
  ASSUME NEW key
  PROVE  /\ IsSequence(<<key>>) /\ <<key>> # <<>> /\ Len(<<key>>) = 1 /\ <<key>>[1] = key
         /\ \A d : Has(d, <<key>>) <=> key \in DOMAIN Entries(d)
<1>1. <<key>> \in Seq({key}) /\ <<key>> # <<>> /\ Len(<<key>>) = 1 /\ <<key>>[1] = key
  OBVIOUS
<1>2. IsSequence(<<key>>)
  BY <1>1, SeqOfRange DEF IsSequence
<1>3. ASSUME NEW d PROVE Has(d, <<key>>) <=> key \in DOMAIN Entries(d)
  <2>1. Along(d, <<key>>)[0] = d
    BY <1>2, AlongIs
  <2> QED BY <1>1, <2>1 DEF Has, Last
<1> QED BY <1>1, <1>2, <1>3

LEMMA PathIs ==
  ASSUME NEW field, IsSequence(field)
  PROVE  /\ IsSequence(Path(field)) /\ Len(Path(field)) = Len(field) /\ Len(field) \in Nat
         /\ \A i \in 1 .. Len(field) : Path(field)[i] = <<field[i]>>
<1>1. Len(field) \in Nat /\ DOMAIN field = 1 .. Len(field)
  BY SequenceDomain
<1> DEFINE p == Path(field)
<1>2. p = [i \in 1 .. Len(field) |-> <<field[i]>>]
  BY <1>1 DEF Path
<1> HIDE DEF p
<1>3. DOMAIN p = 1 .. Len(field) /\ p = [i \in 1 .. Len(field) |-> p[i]] /\ \A i \in 1 .. Len(field) : p[i] = <<field[i]>>
  BY <1>2
<1> QED BY <1>1, <1>3, SequenceRange DEF p

LEMMA KeysSequence ==
  ASSUME NEW d, NEW field, NEW metadata, IsSequence(field)
  PROVE  IsSequence(Keys(d, field, metadata))
  BY KeysAre, OneKey, PathIs

LEMMA PrefixIs ==
  ASSUME NEW p, NEW q, IsSequence(p), IsSequence(q)
  PROVE  IsPrefix(p, q) <=> Begins(p, q)
<1>1. Len(p) \in Nat /\ DOMAIN p = 1 .. Len(p) /\ Len(q) \in Nat /\ DOMAIN q = 1 .. Len(q)
  BY SequenceDomain
<1> SUFFICES ASSUME Len(p) <= Len(q)
             PROVE  SubSeq(p, 1, Len(p)) = SubSeq(q, 1, Len(p)) <=> \A i \in 1 .. Len(p) : p[i] = q[i]
  BY DEF IsPrefix, Begins
<1> DEFINE n == Len(p)
           a == SubSeq(p, 1, n)
           b == SubSeq(q, 1, n)
<1>2. a = [i \in 1 .. n |-> p[i]] /\ b = [i \in 1 .. n |-> q[i]]
  <2>1. a = [i \in 1 .. (1 + n - 1) |-> p[i + 1 - 1]] /\ b = [i \in 1 .. (1 + n - 1) |-> q[i + 1 - 1]]
    BY <1>1
  <2> QED BY <1>1, <2>1
<1> HIDE DEF a, b
<1>3. a = b => \A i \in 1 .. n : p[i] = q[i]
  <2> SUFFICES ASSUME a = b, NEW i \in 1 .. n PROVE p[i] = q[i]
    OBVIOUS
  <2>1. a[i] = p[i] /\ b[i] = q[i]
    BY <1>2
  <2> QED BY <2>1
<1>4. (\A i \in 1 .. n : p[i] = q[i]) => a = b
  BY <1>2
<1> QED BY <1>3, <1>4 DEF a, b

\* Paths that go on from one another are those of fields that do.
LEMMA KeysBegin ==
  ASSUME NEW d, NEW q, NEW p, NEW metadata, IsSequence(p), IsSequence(q), metadata => p # <<>>,
         NEW kp, kp = Path(p) \/ (kp = <<p>> /\ metadata),
         Begins(Keys(d, q, metadata), kp)
  PROVE  IsPrefix(q, p) /\ (Len(Keys(d, q, metadata)) < Len(kp) => IsStrictPrefix(q, p))
<1> DEFINE ks == Keys(d, q, metadata)
<1>1. ks = <<q>> \/ ks = Path(q)
  BY KeysAre
<1>2. /\ Len(p) \in Nat /\ Len(q) \in Nat /\ Len(Path(p)) = Len(p) /\ Len(Path(q)) = Len(q)
      /\ \A i \in 1 .. Len(p) : Path(p)[i] = <<p[i]>>
      /\ \A i \in 1 .. Len(q) : Path(q)[i] = <<q[i]>>
  BY PathIs
<1>3. Len(<<q>>) = 1 /\ <<q>>[1] = q /\ Len(<<p>>) = 1 /\ <<p>>[1] = p
  OBVIOUS
<1>4. \A x, y : <<x>> = <<y>> => x = y
  OBVIOUS
<1> SUFFICES Begins(q, p) /\ (Len(ks) < Len(kp) => q # p)
  BY PrefixIs DEF IsStrictPrefix
<1>5. Len(ks) <= Len(kp) /\ \A i \in 1 .. Len(ks) : ks[i] = kp[i]
  BY DEF Begins
<1> HIDE DEF ks
<1>6. CASE ks = <<q>> /\ kp = <<p>>
  <2>1. q = p
    BY <1>3, <1>5, <1>6
  <2> QED BY <1>2, <1>6, <2>1 DEF Begins
<1>7. CASE ks = <<q>> /\ kp = Path(p)
  <2>1. Len(p) >= 1 /\ 1 \in 1 .. Len(ks) /\ 1 \in 1 .. Len(p)
    BY <1>2, <1>3, <1>5, <1>7
  <2>2. q = <<p[1]>>
    BY <1>2, <1>3, <1>5, <1>7, <2>1
  <2>3. Len(q) = 1 /\ q[1] = p[1]
    BY <2>2
  <2>4. \A i \in 1 .. Len(q) : i = 1
    BY <2>3
  <2>5. Len(ks) < Len(kp) => Len(q) # Len(p)
    BY <1>2, <1>3, <1>7, <2>3
  <2> QED BY <2>1, <2>3, <2>4, <2>5 DEF Begins
<1>8. CASE ks = Path(q) /\ kp = Path(p)
  <2>1. Len(q) <= Len(p)
    BY <1>2, <1>5, <1>8
  <2>2. ASSUME NEW i \in 1 .. Len(q) PROVE q[i] = p[i]
    <3>1. i \in 1 .. Len(p) /\ i \in 1 .. Len(ks)
      BY <1>2, <1>8, <2>1
    <3>2. <<q[i]>> = <<p[i]>>
      BY <1>2, <1>5, <1>8, <3>1
    <3> QED BY <1>4, <3>2
  <2>3. Len(ks) < Len(kp) => Len(q) # Len(p)
    BY <1>2, <1>8
  <2> QED BY <2>1, <2>2, <2>3 DEF Begins
<1>9. CASE ks = Path(q) /\ kp = <<p>> /\ metadata
  <2>1. Len(q) <= 1 /\ Len(q) \in Nat /\ Len(p) # 0
    BY <1>2, <1>3, <1>5, <1>9, EmptySeq DEF IsSequence
  <2>2. CASE Len(q) = 0
    BY <1>2, <2>1, <2>2 DEF Begins
  <2>3. CASE Len(q) = 1
    <3>1. 1 \in 1 .. Len(ks) /\ 1 \in 1 .. Len(q)
      BY <1>2, <1>9, <2>3
    <3>2. p = <<q[1]>>
      BY <1>2, <1>3, <1>5, <1>9, <3>1
    <3>3. Len(p) = 1 /\ p[1] = q[1]
      BY <3>2
    <3>4. Len(ks) = 1 /\ Len(kp) = 1
      BY <1>2, <1>3, <1>9, <2>3
    <3>5. \A i \in 1 .. Len(q) : i = 1
      BY <2>3
    <3> QED BY <2>3, <3>3, <3>4, <3>5 DEF Begins
  <2>4. \A n \in Nat : n <= 1 => n = 0 \/ n = 1
    OBVIOUS
  <2>5. Len(q) = 0 \/ Len(q) = 1
    BY <2>1, <2>4, Zenon
  <2> QED BY <2>2, <2>3, <2>5
<1> QED BY <1>1, <1>6, <1>7, <1>8, <1>9

\* A field that is there is there by its path or as a whole key.
LEMMA ThereBy ==
  ASSUME NEW d, NEW p, NEW metadata
  PROVE  /\ metadata /\ p \in DOMAIN Entries(d) => There(d, p, metadata)
         /\ ~AsOne(d, p, metadata) => (There(d, p, metadata) <=> Has(d, Path(p)))
         /\ There(d, p, metadata) /\ AsOne(d, p, metadata) => metadata /\ p \in DOMAIN Entries(d)
  BY KeysAre, OneKey DEF There, AsOne

\* Whatever keeps the way to a field keeps it there.
LEMMA ThereKept ==
  ASSUME NEW d, NEW e, NEW p, NEW metadata, There(d, p, metadata),
         \A kp : /\ kp = Path(p) \/ (kp = <<p>> /\ metadata)
                 /\ Has(d, kp)
                 => Has(e, kp)
  PROVE  There(e, p, metadata)
<1>1. CASE AsOne(d, p, metadata)
  <2>1. metadata /\ p \in DOMAIN Entries(d)
    BY <1>1, ThereBy
  <2>2. Has(e, <<p>>)
    BY <2>1, OneKey
  <2> QED BY <2>1, <2>2, OneKey, ThereBy
<1>2. CASE ~AsOne(d, p, metadata)
  <2>1. Has(e, Path(p))
    BY <1>2, ThereBy
  <2>2. CASE AsOne(e, p, metadata)
    <3>1. metadata /\ p \in DOMAIN Entries(e)
      BY <1>2, <2>2 DEF AsOne
    <3> QED BY <3>1, ThereBy
  <2>3. CASE ~AsOne(e, p, metadata)
    BY <2>1, <2>3, ThereBy
  <2> QED BY <2>2, <2>3
<1> QED BY <1>1, <1>2

LEMMA PutThere ==
  ASSUME NEW d, NEW p, NEW metadata, NEW value, IsSequence(p)
  PROVE  There(Put(d, Keys(d, p, metadata), value), p, metadata)
<1> DEFINE e == Put(d, Keys(d, p, metadata), value)
<1>1. Has(e, Keys(d, p, metadata))
  BY KeysSequence, PutHas
<1> HIDE DEF e
<1>2. CASE AsOne(d, p, metadata)
  <2>1. metadata /\ Has(e, <<p>>)
    BY <1>1, <1>2, KeysAre DEF AsOne
  <2> QED BY <2>1, OneKey, ThereBy DEF e
<1>3. CASE ~AsOne(d, p, metadata)
  <2>1. Has(e, Path(p))
    BY <1>1, <1>3, KeysAre
  <2>2. CASE AsOne(e, p, metadata)
    <3>1. metadata /\ p \in DOMAIN Entries(e)
      BY <1>3, <2>2 DEF AsOne
    <3> QED BY <3>1, ThereBy DEF e
  <2>3. CASE ~AsOne(e, p, metadata)
    BY <2>1, <2>3, ThereBy DEF e
  <2> QED BY <2>2, <2>3
<1> QED BY <1>2, <1>3

\* A write to a field takes away what is within it, and nothing is within
\* what is not a map.
LEMMA PutKeepsThere ==
  ASSUME NEW d, NEW q, NEW p, NEW metadata, NEW value, IsSequence(q), IsSequence(p),
         metadata => p # <<>>, There(d, p, metadata),
         ~IsStrictPrefix(q, p) \/ ~IsMap(At(d, Keys(d, q, metadata)))
  PROVE  There(Put(d, Keys(d, q, metadata), value), p, metadata)
<1> DEFINE ks == Keys(d, q, metadata)
<1>1. IsSequence(ks)
  BY KeysSequence
<1> SUFFICES ASSUME NEW kp, kp = Path(p) \/ (kp = <<p>> /\ metadata), Has(d, kp)
             PROVE  Has(Put(d, ks, value), kp)
  BY ThereKept
<1>2. IsSequence(kp)
  BY PathIs, OneKey
<1>3. Begins(ks, kp) /\ Len(ks) < Len(kp) => ~IsMap(At(d, ks))
  BY KeysBegin
<1> HIDE DEF ks
<1>4. Begins(ks, kp) /\ Len(ks) < Len(kp) => Keeps(At(d, ks), value, kp[Len(ks) + 1])
  BY <1>3, NoEntry DEF Keeps
<1> QED BY <1>1, <1>2, <1>4, PutKeeps

LEMMA EraseKeepsThere ==
  ASSUME NEW d, NEW q, NEW p, NEW metadata, IsSequence(q), IsSequence(p),
         metadata => p # <<>>, There(d, p, metadata), ~IsPrefix(q, p)
  PROVE  There(Erase(d, Keys(d, q, metadata)), p, metadata)
<1> DEFINE ks == Keys(d, q, metadata)
<1>1. IsSequence(ks)
  BY KeysSequence
<1> SUFFICES ASSUME NEW kp, kp = Path(p) \/ (kp = <<p>> /\ metadata), Has(d, kp)
             PROVE  Has(Erase(d, ks), kp)
  BY ThereKept
<1>2. IsSequence(kp)
  BY PathIs, OneKey
<1>3. ~Begins(ks, kp)
  BY KeysBegin
<1>4. ks # <<>>
  <2>1. ks = <<>> => Begins(ks, kp)
    <3>1. Len(kp) \in Nat /\ Len(<<>>) = 0
      BY <1>2, SequenceDomain
    <3> HIDE DEF ks
    <3> QED BY <3>1 DEF Begins
  <2> QED BY <1>3, <2>1
<1> HIDE DEF ks
<1> QED BY <1>1, <1>2, <1>3, <1>4, EraseKeeps

-----------------------------------------------------------------------------
(* The same for the places of a message, and what a rule leaves alone.     *)

IsPlace(place) ==
  /\ IsSequence(place.field) /\ place.metadata \in BOOLEAN
  /\ place.metadata => place.field # <<>>

LEMMA ReplaceIs ==
  ASSUME NEW m, NEW a \in BOOLEAN, NEW b \in BOOLEAN, NEW data
  PROVE  Within(Replace(m, a, data), b) = IF a = b THEN data ELSE Within(m, b)
<1>1. CASE a = TRUE /\ b = TRUE
  BY <1>1 DEF Within, Replace
<1>2. CASE a = TRUE /\ b = FALSE
  BY <1>2 DEF Within, Replace
<1>3. CASE a = FALSE /\ b = TRUE
  BY <1>3 DEF Within, Replace
<1>4. CASE a = FALSE /\ b = FALSE
  BY <1>4 DEF Within, Replace
<1> QED BY <1>1, <1>2, <1>3, <1>4

LEMMA IsThereBy ==
  ASSUME NEW m, NEW p PROVE IsThere(m, p) <=> There(Within(m, p.metadata), p.field, p.metadata)
  BY DEF IsThere, KeysTo, There

LEMMA WriteThere ==
  ASSUME NEW m, NEW p, NEW value, IsPlace(p) PROVE IsThere(Write(m, p, value), p)
<1> DEFINE d == Within(m, p.metadata)
<1>1. Within(Write(m, p, value), p.metadata) = Put(d, Keys(d, p.field, p.metadata), value)
  BY ReplaceIs DEF Write, KeysTo, IsPlace
<1>2. There(Put(d, Keys(d, p.field, p.metadata), value), p.field, p.metadata)
  BY PutThere DEF IsPlace
<1> QED BY <1>1, <1>2, IsThereBy

LEMMA WriteKeeps ==
  ASSUME NEW m, NEW q, NEW p, NEW value, IsPlace(q), IsPlace(p), IsThere(m, p),
         (q.metadata = p.metadata /\ IsStrictPrefix(q.field, p.field)) => ~IsMap(Read(m, q))
  PROVE  IsThere(Write(m, q, value), p)
<1> DEFINE d == Within(m, q.metadata)
           e == Put(d, Keys(d, q.field, q.metadata), value)
<1>1. Write(m, q, value) = Replace(m, q.metadata, e)
  BY DEF Write, KeysTo
<1>2. There(Within(m, p.metadata), p.field, p.metadata)
  BY IsThereBy
<1>3. CASE q.metadata = p.metadata
  <2>1. Within(Write(m, q, value), p.metadata) = e
    BY <1>1, <1>3, ReplaceIs DEF IsPlace
  <2>2. There(e, p.field, p.metadata)
    <3>1. ~IsStrictPrefix(q.field, p.field) \/ ~IsMap(At(d, Keys(d, q.field, q.metadata)))
      BY <1>3 DEF Read, KeysTo
    <3> QED BY <1>2, <1>3, <3>1, PutKeepsThere DEF IsPlace
  <2> QED BY <2>1, <2>2, IsThereBy
<1>4. CASE q.metadata # p.metadata
  <2>1. Within(Write(m, q, value), p.metadata) = Within(m, p.metadata)
    BY <1>1, <1>4, ReplaceIs DEF IsPlace
  <2> QED BY <1>2, <2>1, IsThereBy
<1> QED BY <1>3, <1>4

LEMMA WithoutKeeps ==
  ASSUME NEW m, NEW q, NEW p, IsSequence(q.field), q.metadata \in BOOLEAN, IsPlace(p), IsThere(m, p),
         ~(q.metadata = p.metadata /\ IsPrefix(q.field, p.field))
  PROVE  IsThere(Without(m, q), p)
<1> DEFINE d == Within(m, q.metadata)
           e == Erase(d, Keys(d, q.field, q.metadata))
<1>1. There(Within(m, p.metadata), p.field, p.metadata)
  BY IsThereBy
<1>2. CASE q.metadata # p.metadata
  <2>1. Within(Without(m, q), p.metadata) = Within(m, p.metadata)
    <3>1. CASE ~q.metadata /\ q.field = <<>>
      BY <1>2, <3>1, ReplaceIs DEF IsPlace, Without
    <3>2. CASE ~(~q.metadata /\ q.field = <<>>)
      <4>1. Without(m, q) = Replace(m, q.metadata, e)
        BY <3>2 DEF Without, KeysTo
      <4> QED BY <1>2, <4>1, ReplaceIs DEF IsPlace
    <3> QED BY <3>1, <3>2
  <2> QED BY <1>1, <2>1, IsThereBy
<1>3. CASE q.metadata = p.metadata
  <2>1. ~IsPrefix(q.field, p.field)
    BY <1>3
  <2>2. q.field # <<>>
    <3>1. q.field = <<>> => Begins(q.field, p.field)
      <4>1. Len(p.field) \in Nat /\ Len(<<>>) = 0
        BY SequenceDomain DEF IsPlace
      <4> QED BY <4>1 DEF Begins
    <3> QED BY <2>1, <3>1, PrefixIs DEF IsPlace
  <2>3. Without(m, q) = Replace(m, q.metadata, e)
    BY <2>2 DEF Without, KeysTo
  <2>4. Within(Without(m, q), p.metadata) = e
    BY <1>3, <2>3, ReplaceIs DEF IsPlace
  <2>5. There(e, p.field, p.metadata)
    BY <1>1, <1>3, <2>1, EraseKeepsThere DEF IsPlace
  <2> QED BY <2>4, <2>5, IsThereBy
<1> QED BY <1>2, <1>3

\* What is not empty is there.
LEMMA ReadThere ==
  ASSUME NEW m, NEW p, IsPlace(p), Read(m, p) # Empty PROVE IsThere(m, p)
<1> DEFINE d == Within(m, p.metadata)
           ks == Keys(d, p.field, p.metadata)
<1>1. IsSequence(ks) /\ Len(ks) \in Nat
  BY KeysSequence, SequenceDomain DEF IsPlace
<1>2. At(d, ks) # Empty
  BY DEF Read, KeysTo
<1>3. IsThere(m, p) = Has(d, ks)
  BY DEF IsThere, KeysTo
<1> HIDE DEF ks, d
<1> SUFFICES ASSUME ks # <<>> PROVE Last(ks) \in DOMAIN Entries(Along(d, ks)[Len(ks) - 1])
  BY <1>3 DEF Has
<1>4. Len(ks) \in 1 .. Len(ks)
  BY <1>1, EmptySeq DEF IsSequence
<1>5. At(d, ks) = Entry(Along(d, ks)[Len(ks) - 1], ks[Len(ks)])
  BY <1>1, <1>4, AlongIs DEF At
<1> QED BY <1>2, <1>5 DEF Entry, Last

-----------------------------------------------------------------------------
(* The places that the rules of a configuration name.                      *)

LEMMA SourceOfAction ==
  ASSUME NEW parent, NEW name, IsSequence(parent), IsName(name)
  PROVE  IsSequence(Place(parent, name).field)
<1> DEFINE full == parent \o name
           first == SubSeq(Head(full), 9, Len(Head(full)))
           S == (Range(parent) \cup Range(name)) \cup {first}
           rest == IF Glued(full) THEN <<first>> \o Tail(full) ELSE Tail(full)
<1>1. parent \in Seq(S) /\ name \in Seq(S) /\ name # <<>> /\ first \in S
  <2>1. parent \in Seq(Range(parent)) /\ name \in Seq(Range(name)) /\ name # <<>>
    BY DEF IsSequence, IsName
  <2> HIDE DEF full, rest, first
  <2>2. Range(parent) \subseteq S /\ Range(name) \subseteq S /\ first \in S
    OBVIOUS
  <2>3. parent \in Seq(S)
    BY <2>1, <2>2, SeqMonotonic
  <2>4. name \in Seq(S)
    BY <2>1, <2>2, SeqMonotonic
  <2> QED BY <2>1, <2>2, <2>3, <2>4
<1> HIDE DEF S, first
<1>2. /\ full \in Seq(S) /\ Len(full) = Len(parent) + Len(name)
      /\ Len(parent) \in Nat /\ Len(name) \in Nat \ {0} /\ full # <<>>
  BY <1>1
<1>3. Tail(full) \in Seq(S) /\ Len(Tail(full)) = Len(full) - 1
  BY <1>2, HeadTailProperties
<1>4. <<first>> \in Seq(S) /\ Len(<<first>>) = 1
  BY <1>1
<1>5. rest \in Seq(S) /\ Len(rest) >= Len(full) - 1 /\ Len(rest) \in Nat
  <2> HIDE DEF full
  <2>1. <<first>> \o Tail(full) \in Seq(S) /\ Len(<<first>> \o Tail(full)) = 1 + Len(Tail(full))
    BY <1>3, <1>4, ConcatProperties
  <2>2. Len(full) \in Nat /\ Len(Tail(full)) \in Nat
    BY <1>2, <1>3, LenProperties
  <2>3. CASE Glued(full)
    <3>1. rest = <<first>> \o Tail(full)
      BY <2>3
    <3> QED BY <1>3, <2>1, <2>2, <3>1
  <2>4. CASE ~Glued(full)
    <3>1. rest = Tail(full)
      BY <2>4
    <3>2. Len(Tail(full)) >= Len(full) - 1
      BY <1>3, <2>2
    <3> HIDE DEF rest
    <3> QED BY <1>3, <2>2, <3>1, <3>2
  <2> QED BY <2>3, <2>4
<1> DEFINE place == Place(parent, name)
<1>6. place.field = IF parent = <<>> THEN rest ELSE SubSeq(rest, Len(parent), Len(rest))
  BY DEF Place, first
<1> HIDE DEF full, rest, place
<1>7. CASE parent = <<>>
  BY <1>5, <1>6, <1>7, SeqOfRange DEF IsSequence, place
<1>8. CASE parent # <<>>
  <2>1. Len(parent) # 0
    BY <1>1, <1>8, EmptySeq
  <2>2. Len(parent) \in Int /\ Len(rest) \in Int /\ Len(parent) <= Len(rest) /\ Len(parent) >= 1
    BY <1>2, <1>5, <2>1
  <2>3. \A i \in Len(parent) .. Len(rest) : rest[i] \in S
    BY <1>5, <2>2
  <2>4. SubSeq(rest, Len(parent), Len(rest)) \in Seq(S)
    BY <2>2, <2>3, SubSeqProperties
  <2> QED BY <1>6, <1>8, <2>4, SeqOfRange DEF IsSequence, place
<1> QED BY <1>7, <1>8

LEMMA PlaceIsBoolean ==
  ASSUME NEW parent, NEW name
  PROVE  Place(parent, name).metadata \in BOOLEAN /\ ListPlace(parent, name).metadata \in BOOLEAN
<1> DEFINE place == Place(parent, name)
<1>1. place.metadata \in BOOLEAN /\ place = [metadata |-> place.metadata, field |-> place.field]
  BY DEF Place
<1>2. ListPlace(parent, name) = IF place.field = <<>> THEN [place EXCEPT !.field = <<"">>] ELSE place
  BY DEF ListPlace
<1> HIDE DEF place
<1>3. [place EXCEPT !.field = <<"">>].metadata = place.metadata
  <2>1. PICK a, b : place = [metadata |-> a, field |-> b]
    BY <1>1
  <2>2. \A x : [place EXCEPT !.field = x] = [metadata |-> a, field |-> x]
    BY ONLY <2>1
  <2>3. \A x : [place EXCEPT !.field = x].metadata = a
    BY <2>2
  <2>4. place.metadata = a
    BY ONLY <2>1
  <2> QED BY <2>3, <2>4
<1> QED BY <1>1, <1>2, <1>3 DEF place

\* The places of a rule.
RulePlaces(rule) ==
  /\ IsPlace(rule.target)
  /\ rule.mode \in Moves => IsSequence(rule.source.field) /\ rule.source.metadata \in BOOLEAN

LEMMA StepPlaces ==
  ASSUME TablesRead, NEW step, IsStep(step)
  PROVE  RulePlaces(step.rule)
<1>1. PICK mode \in Modes : \E i \in DOMAIN codec.tables[step.level][mode] :
        step.rule = codec.tables[step.level][mode][i]
  BY StepRead
<1>2. PICK i \in DOMAIN codec.tables[step.level][mode] : step.rule = codec.tables[step.level][mode][i]
  BY <1>1
<1>3. TableRead(step.level)
  BY StepRead
<1> DEFINE call == CallAt(step.level)
           action == Actions(call.commands, mode)[i]
           rule == step.rule
<1>4. /\ rule = RuleOf(mode, call.parent, action, Child(step.level, i)) /\ rule.mode = mode
      /\ i \in DOMAIN Actions(call.commands, mode)
      /\ IsSequence(rule.target.field) /\ (rule.target.metadata => rule.target.field # <<>>)
  BY <1>2, <1>3, RuleRead
<1>5. IsSequence(call.parent) /\ IsRules(call.commands, call.parent)
  BY <1>3 DEF TableRead
<1>6. IsAction(mode, call.parent, action)
  BY <1>4, <1>5, ActionsRead
<1> HIDE DEF call, action
<1>7. rule.target.metadata \in BOOLEAN
  BY <1>4, RuleOfAction, PlaceIsBoolean
<1>8. ASSUME mode \in Moves PROVE IsSequence(rule.source.field) /\ rule.source.metadata \in BOOLEAN
  <2>1. rule.source = Place(call.parent, ContentOf(action).value)
    BY <1>4, <1>8, RuleOfAction
  <2>2. IsName(ContentOf(action).value)
    BY <1>6, <1>8 DEF IsAction, IsRule, Moves, IsString
  <2> QED BY <1>5, <2>1, <2>2, SourceOfAction, PlaceIsBoolean
<1> QED BY <1>4, <1>7, <1>8 DEF RulePlaces, IsPlace

\* A rule leaves there what it does not disturb.
LEMMA MoveKeeps ==
  ASSUME NEW rule, RulePlaces(rule), rule.mode \in Moves, NEW m, NEW p, IsPlace(p), IsThere(m, p),
         ~Disturbs(rule, p), NEW value
  PROVE  IsThere(Write(Rest(m, rule), rule.target, value), p)
<1>1. IsThere(Rest(m, rule), p)
  BY WithoutKeeps DEF Rest, RulePlaces, Disturbs
<1>2. ~(rule.target.metadata = p.metadata /\ IsStrictPrefix(rule.target.field, p.field))
  BY DEF Disturbs, Moves
<1> QED BY <1>1, <1>2, WriteKeeps DEF RulePlaces

LEMMA AssignKeeps ==
  ASSUME NEW rule, RulePlaces(rule), rule.mode \in {"set", "defaultValue"}, NEW m, NEW p, IsPlace(p),
         IsThere(m, p), ~Disturbs(rule, p), NEW inItem
  PROVE  IsThere(Assigned(m, rule, inItem), p)
<1>1. ~(rule.target.metadata = p.metadata /\ IsStrictPrefix(rule.target.field, p.field))
  BY DEF Disturbs
<1> QED BY <1>1, WriteKeeps DEF RulePlaces, Assigned

LEMMA AssignThere ==
  ASSUME NEW rule, RulePlaces(rule), NEW m, NEW inItem
  PROVE  IsThere(Assigned(m, rule, inItem), rule.target)
<1>1. CASE rule.mode = "set" \/ Unset(m, rule.target, inItem)
  BY <1>1, WriteThere DEF Assigned, RulePlaces
<1>2. CASE ~(rule.mode = "set" \/ Unset(m, rule.target, inItem))
  <2>1. Read(m, rule.target) # Empty
    BY <1>2 DEF Unset
  <2> QED BY <1>2, <2>1, ReadThere DEF Assigned, RulePlaces
<1> QED BY <1>1, <1>2

-----------------------------------------------------------------------------
(* Targets, and what the counts of a frame say of them.                    *)

\* A missing source is held against no more than the steps for its target.
LEMMA TotalAtMost ==
  ASSUME TablesRead, TotalsRead, NEW f, OfMessage(f) \/ OfItem(f), NEW i \in DOMAIN f.steps, NEW place
  PROVE  /\ TotalFor(f.steps[i], place) <= AllFills(f.steps, place)
         /\ TotalFor(f.steps[i], place) \in Nat /\ AllFills(f.steps, place) \in Nat
<1>1. AllFills(f.steps, place) \in Nat
  BY FrameSteps, AllFillsNat
<1>2. CASE OfItem(f)
  BY <1>1, <1>2, ItemTotal
<1>3. CASE OfMessage(f)
  <2> DEFINE level == Top(TypeOf(received), direction)
             star == Top(Star, direction)
             s == TypeSteps(received, direction)
             t == StepsOf(star)
             steps == f.steps
  <2>1. ~Ignored(received)
    BY <1>3 DEF OfMessage, RulesFor
  <2>2. steps = s \o t
    BY <1>3, <2>1 DEF OfMessage, RulesFor
  <2>3. IsSequence(s) /\ IsSequence(t) /\ s = IF HasEntry(received, SagType) THEN StepsOf(level) ELSE <<>>
    BY TypeStepsIs, StepsOfIs
  <2>4. AllFills(t, place) = FillsOf(star, place) /\ FillsOf(star, place) \in Nat
    BY LevelFills
  <2>5. AllFills(steps, place) = AllFills(s, place) + AllFills(t, place)
    BY <2>2, <2>3, AllFillsConcat
  <2>6. AllFills(s, place) \in Nat
    BY <2>3, AllFillsNat
  <2>7. TotalFor(steps[i], place) = AllFillsOf(steps[i].level, place)
    BY FrameSteps, TotalForIs
  <2>8. star.path = <<>> /\ star.type = Star /\ level.path = <<>> /\ level.direction = direction
    BY DEF Top
  <2>9. ASSUME steps[i].level = star
        PROVE  TotalFor(steps[i], place) = FillsOf(star, place)
    BY <2>4, <2>7, <2>8, <2>9 DEF AllFillsOf
  <2>10. (HasEntry(received, SagType) /\ steps[i].level = level) \/ steps[i].level = star
    <3>1. /\ DOMAIN (s \o t) = 1 .. Len(s) + Len(t) /\ Len(s) \in Nat /\ Len(t) \in Nat
          /\ \A j \in 1 .. Len(s) : (s \o t)[j] = s[j]
          /\ \A j \in 1 .. Len(t) : (s \o t)[Len(s) + j] = t[j]
      BY <2>3, ConcatSequences
    <3>2. DOMAIN s = 1 .. Len(s) /\ DOMAIN t = 1 .. Len(t)
      BY <2>3, SequenceDomain
    <3>3. /\ HasEntry(received, SagType) => \A j \in DOMAIN s : s[j].level = level
          /\ ~HasEntry(received, SagType) => Len(s) = 0
          /\ \A j \in DOMAIN t : t[j].level = star
      BY <2>3, StepsOfIs
    <3> HIDE DEF s, t, level, star
    <3>4. CASE i <= Len(s)
      <4>1. i \in 1 .. Len(s) /\ i \in DOMAIN s /\ Len(s) # 0
        BY <2>2, <3>1, <3>2, <3>4
      <4> QED BY <2>2, <3>1, <3>3, <4>1
    <3>5. CASE ~(i <= Len(s))
      <4>1. i - Len(s) \in 1 .. Len(t) /\ i - Len(s) \in DOMAIN t /\ Len(s) + (i - Len(s)) = i
        BY <2>2, <3>1, <3>2, <3>5
      <4>2. steps[i] = t[i - Len(s)]
        BY <2>2, <3>1, <4>1
      <4> QED BY <3>3, <4>1, <4>2
    <3> QED BY <3>4, <3>5
  <2>11. CASE steps[i].level = star
    <3>1. TotalFor(steps[i], place) = FillsOf(star, place)
      BY <2>9, <2>11
    <3> QED BY <1>1, <2>4, <2>5, <2>6, <3>1
  <2>12. CASE HasEntry(received, SagType) /\ steps[i].level = level
    <3>1. s = StepsOf(level)
      BY <2>3, <2>12
    <3>2. AllFills(s, place) = FillsOf(level, place) /\ FillsOf(level, place) \in Nat
      BY <3>1, LevelFills
    <3>3. \/ TotalFor(steps[i], place) = FillsOf(level, place) + FillsOf(star, place)
          \/ TotalFor(steps[i], place) = FillsOf(level, place) + 0
      BY <2>7, <2>8, <2>12 DEF AllFillsOf
    <3> QED BY <1>1, <2>4, <2>5, <3>2, <3>3
  <2> QED BY <2>10, <2>11, <2>12
<1> QED BY <1>2, <1>3

Disturbed(f, step) ==
  \E other \in Range(f.steps) \ {step} : Disturbs(other.rule, step.rule.target)

TargetThere(f, step) ==
  step.rule.mode # "forEach" => IsThere(f.message, step.rule.target) \/ Disturbed(f, step)

\* A target that is counted as set is there, or was.
SetThere(f) ==
  \A step \in Range(f.steps) :
    Count(f.current, step.rule.target) = Filled => TargetThere(f, step)

\* The steps for a target that was not set have all been counted, and at
\* none were there as many as could fail.
Even(f, place) ==
  Count(f.current, place) = Filled \/ Count(f.current, place) = FillSteps(f.steps, f.next - 1, place)

Short(f, place) ==
  \/ Count(f.current, place) \in {0, Filled}
  \/ \E i \in DOMAIN f.steps : Count(f.current, place) < TotalFor(f.steps[i], place)

Kept(f) == SetThere(f) /\ \A place : Even(f, place) /\ Short(f, place)

\* So at the end each target has been set.
LEMMA FilledAtEnd ==
  ASSUME TablesRead, TotalsRead, NEW f, IsFrame(f), OfMessage(f) \/ OfItem(f), Kept(f),
         f.next > Len(f.steps), NEW step \in Range(f.steps)
  PROVE  TargetThere(f, step)
<1> SUFFICES ASSUME step.rule.mode # "forEach" PROVE TargetThere(f, step)
  BY DEF TargetThere
<1> DEFINE p == step.rule.target
           steps == f.steps
<1>1. PICK j \in DOMAIN steps : steps[j] = step
  BY DEF Range
<1>2. IsSequence(steps) /\ Len(steps) \in Nat /\ DOMAIN steps = 1 .. Len(steps)
  BY FrameSteps
<1>3. f.next - 1 = Len(steps)
  BY <1>2 DEF IsFrame
<1>4. Fills(steps[j].rule, p)
  BY <1>1 DEF Fills
<1> HIDE DEF p
<1>5. FillSteps(steps, j, p) = FillSteps(steps, j - 1, p) + 1 /\ FillSteps(steps, j - 1, p) \in Nat /\ j \in Nat
  BY <1>2, <1>4, FillStep
<1>6. FillSteps(steps, j, p) <= AllFills(steps, p)
  BY <1>2, <1>5, FillsUpToMonotone DEF FillSteps, AllFills
<1>7. Even(f, p) /\ Short(f, p)
  BY DEF Kept
<1>8. CASE Count(f.current, p) = Filled
  BY <1>8 DEF Kept, SetThere, p
<1>9. CASE Count(f.current, p) # Filled
  <2>1. Count(f.current, p) = AllFills(steps, p)
    BY <1>3, <1>7, <1>9 DEF Even, AllFills
  <2>2. AllFills(steps, p) \in Nat
    BY <1>2, AllFillsNat
  <2>3. Count(f.current, p) # 0
    <3> HIDE DEF steps
    <3> QED BY ONLY <1>5, <1>6, <2>1, <2>2
  <2>4. PICK i \in DOMAIN steps : Count(f.current, p) < TotalFor(steps[i], p)
    BY <1>7, <1>9, <2>3 DEF Short
  <2>5. TotalFor(steps[i], p) <= AllFills(steps, p) /\ TotalFor(steps[i], p) \in Nat
    BY TotalAtMost
  <2> HIDE DEF steps
  <2> QED BY ONLY <2>1, <2>2, <2>4, <2>5
<1> QED BY <1>8, <1>9

\* A step of the message, or of an item, sets its target or is counted.
GoesOn(f, current, place) ==
  \/ Count(current, place) = Filled
  \/ /\ Fills(StepAt(f).rule, place) /\ Count(f.current, place) # Filled
     /\ Count(current, place) = Count(f.current, place) + 1
     /\ Count(current, place) < TotalFor(StepAt(f), place)
  \/ ~Fills(StepAt(f).rule, place) /\ Count(current, place) = Count(f.current, place)

SetIn(f, m, current) ==
  \A step \in Range(f.steps) :
    Count(current, step.rule.target) = Filled /\ step.rule.mode # "forEach" =>
      IsThere(m, step.rule.target) \/ Disturbed(f, step)

LEMMA KeptAfter ==
  ASSUME TablesRead, NEW f, IsFrame(f), OfMessage(f) \/ OfItem(f), f.next <= Len(f.steps), Kept(f),
         NEW m, NEW current, SetIn(f, m, current), \A place : GoesOn(f, current, place)
  PROVE  Kept(After(f, m, current))
<1> DEFINE g == After(f, m, current)
           i == f.next
<1>1. g.steps = f.steps /\ g.current = current /\ g.next = f.next + 1 /\ g.message = m
  BY DEF After, IsFrame
<1>2. IsSequence(f.steps) /\ Len(f.steps) \in Nat /\ DOMAIN f.steps = 1 .. Len(f.steps)
  BY FrameSteps
<1>3. i \in DOMAIN f.steps /\ i \in Nat /\ i - 1 \in Nat /\ (i - 1) + 1 = i /\ g.next - 1 = i
  BY <1>1, <1>2 DEF IsFrame
<1>4. StepAt(f) = f.steps[i]
  BY DEF StepAt
<1> HIDE DEF g, i
<1>5. SetThere(g)
  BY <1>1 DEF SetThere, SetIn, TargetThere, Disturbed
<1>6. ASSUME NEW place PROVE Even(g, place) /\ Short(g, place)
  <2>1. GoesOn(f, current, place) /\ Even(f, place) /\ Short(f, place)
    BY DEF Kept
  <2>2. CASE Count(current, place) = Filled
    BY <1>1, <2>2 DEF Even, Short
  <2>3. CASE Fills(StepAt(f).rule, place) /\ Count(current, place) # Filled
    <3>1. /\ Count(f.current, place) # Filled /\ Count(current, place) = Count(f.current, place) + 1
          /\ Count(current, place) < TotalFor(StepAt(f), place)
      BY <2>1, <2>3 DEF GoesOn
    <3>2. FillSteps(f.steps, i, place) = FillSteps(f.steps, i - 1, place) + 1
      BY <1>2, <1>3, <1>4, <2>3, FillStep
    <3>3. Count(f.current, place) = FillSteps(f.steps, i - 1, place)
      BY <2>1, <3>1 DEF Even, i
    <3>4. Even(g, place)
      BY <1>1, <1>3, <3>1, <3>2, <3>3 DEF Even
    <3>5. Short(g, place)
      BY <1>1, <1>3, <1>4, <3>1 DEF Short
    <3> QED BY <3>4, <3>5
  <2>4. CASE ~Fills(StepAt(f).rule, place) /\ Count(current, place) # Filled
    <3>1. Count(current, place) = Count(f.current, place)
      BY <2>1, <2>4 DEF GoesOn
    <3>2. FillSteps(f.steps, i, place) = FillSteps(f.steps, i - 1, place)
      <4>1. ~Fills(RulesIn(f.steps)[i], place)
        BY <1>3, <1>4, <2>4 DEF RulesIn
      <4>2. FillSteps(f.steps, (i - 1) + 1, place) =
              FillSteps(f.steps, i - 1, place) + (IF Fills(RulesIn(f.steps)[(i - 1) + 1], place) THEN 1 ELSE 0)
        BY <1>3, FillsUpToStep DEF FillSteps
      <4>3. FillSteps(f.steps, i - 1, place) \in Nat
        BY <1>3, FillsUpToType DEF FillSteps
      <4> QED BY <1>3, <4>1, <4>2, <4>3
    <3>3. Count(f.current, place) = FillSteps(f.steps, i - 1, place)
      BY <2>1, <2>4, <3>1 DEF Even, i
    <3>4. Even(g, place)
      BY <1>1, <1>3, <3>1, <3>2, <3>3 DEF Even
    <3>5. Short(g, place)
      BY <1>1, <2>1, <3>1 DEF Short
    <3> QED BY <3>4, <3>5
  <2> QED BY <2>2, <2>3, <2>4
<1> QED BY <1>5, <1>6 DEF Kept, g

\* A frame that begins has set nothing.
LEMMA KeptAtFirst ==
  ASSUME NEW f, f.next = 1, f.current = NoCounts
  PROVE  Kept(f)
<1>1. \A place : Count(f.current, place) = 0
  BY DEF NoCounts, Count
<1>2. ASSUME NEW place PROVE FillSteps(f.steps, f.next - 1, place) = 0
  <2>1. f.next - 1 = 0
    OBVIOUS
  <2> QED BY <2>1, FillsUpToNone DEF FillSteps
<1> QED BY <1>1, <1>2 DEF Kept, SetThere, Even, Short, Filled

\* The frames keep their targets; and what waits for the items of a list
\* is at one.
InList(f) == ~IsMap(Read(f.message, StepAt(f).rule.target))

KeepsTargets(f) == ~codec.allowMissing => Kept(f)

Filling(fs) ==
  /\ \A k \in 1 .. Len(fs) : KeepsTargets(fs[k])
  /\ \A k \in 2 .. Len(fs) : InList(fs[k])

FillInv == outcome \in {"mapping", "mapped"} => Filling(frames)

LEMMA FillingReplaced ==
  ASSUME NEW s, Stack(s), Filling(s), NEW f, KeepsTargets(f)
  PROVE  Filling(<<f>> \o Tail(s))
<1> DEFINE r == <<f>> \o Tail(s)
<1>1. IsSequence(s) /\ Len(s) >= 1 /\ Len(s) \in Nat
  BY SequenceDomain DEF Stack
<1>2. Len(r) = Len(s) /\ r[1] = f /\ \A k \in 2 .. Len(s) : r[k] = s[k]
  BY <1>1, ReplaceHead
<1> HIDE DEF r
<1>3. ASSUME NEW k \in 1 .. Len(s) PROVE k = 1 \/ k \in 2 .. Len(s)
  BY <1>1
<1>4. Filling(r)
  BY <1>2, <1>3 DEF Filling
<1> QED BY <1>4 DEF r

LEMMA FillingPushed ==
  ASSUME NEW s, Stack(s), Filling(s), InList(s[1]), NEW f, KeepsTargets(f)
  PROVE  Filling(<<f>> \o s)
<1> DEFINE r == <<f>> \o s
<1>1. IsSequence(s) /\ Len(s) >= 1
  BY DEF Stack
<1>2. Len(r) = Len(s) + 1 /\ Len(s) \in Nat /\ r[1] = f /\ \A k \in 2 .. Len(s) + 1 : r[k] = s[k - 1]
  BY <1>1, PushHead
<1> HIDE DEF r
<1>3. ASSUME NEW k \in 2 .. Len(s) + 1 PROVE r[k] = s[k - 1] /\ KeepsTargets(r[k]) /\ InList(r[k])
  <2>1. k - 1 \in 1 .. Len(s) /\ r[k] = s[k - 1] /\ (k - 1 = 1 \/ k - 1 \in 2 .. Len(s))
    BY <1>2
  <2> QED BY <2>1 DEF Filling
<1>4. ASSUME NEW k \in 1 .. Len(r) PROVE k = 1 \/ k \in 2 .. Len(s) + 1
  BY <1>2
<1>5. Filling(r)
  BY <1>2, <1>3, <1>4 DEF Filling
<1> QED BY <1>5 DEF r

LEMMA FillingPopped ==
  ASSUME NEW s, Stack(s), Len(s) > 1, Filling(s), NEW f, KeepsTargets(f)
  PROVE  Filling(<<f>> \o Tail(Tail(s)))
<1> DEFINE r == <<f>> \o Tail(Tail(s))
<1>1. IsSequence(s) /\ Len(s) \in Nat
  BY SequenceDomain DEF Stack
<1>2. Len(s) >= 2
  BY <1>1
<1>3. Len(r) = Len(s) - 1 /\ r[1] = f /\ \A k \in 2 .. Len(s) - 1 : r[k] = s[k + 1]
  BY <1>1, <1>2, ReplaceTwo
<1> HIDE DEF r
<1>4. ASSUME NEW k \in 2 .. Len(s) - 1 PROVE KeepsTargets(r[k]) /\ InList(r[k])
  <2>1. k + 1 \in 1 .. Len(s) /\ k + 1 \in 2 .. Len(s) /\ r[k] = s[k + 1]
    BY <1>1, <1>3
  <2> QED BY <2>1 DEF Filling
<1>5. ASSUME NEW k \in 1 .. Len(r) PROVE k = 1 \/ k \in 2 .. Len(s) - 1
  BY <1>1, <1>3
<1>6. Filling(r)
  BY <1>3, <1>4, <1>5 DEF Filling
<1> QED BY <1>6 DEF r

LEMMA FillingSame ==
  ASSUME NEW fs, Filling(fs), codec' = codec PROVE Filling(fs)'
<1>1. \A f : Kept(f) => Kept(f)'
  BY DEF Kept, SetThere, Even, Short, TargetThere, Disturbed, TotalFor
<1>2. \A f : KeepsTargets(f) => KeepsTargets(f)'
  BY <1>1 DEF KeepsTargets
<1> QED BY <1>2 DEF Filling, InList

\* The targets of the next state, from what is known of them now.
LEMMA FillInvNext ==
  ASSUME codec' = codec, NEW h, h = frames', Filling(h) PROVE FillInv'
<1>1. Filling(h)'
  BY FillingSame
<1> QED BY <1>1 DEF FillInv

\* The frame on top, and its next step.
LEMMA TopStep ==
  ASSUME TablesRead, NEW s, Stack(s), Filling(s)
  PROVE  /\ Head(s) = s[1] /\ IsFrame(s[1]) /\ (OfMessage(s[1]) \/ OfItem(s[1])) /\ KeepsTargets(s[1])
         /\ \A i \in DOMAIN s[1].steps : IsStep(s[1].steps[i]) /\ RulePlaces(s[1].steps[i].rule)
         /\ s[1].next <= Len(s[1].steps) => s[1].next \in DOMAIN s[1].steps
<1>1. /\ Head(s) = s[1] /\ IsFrame(s[1]) /\ (OfMessage(s[1]) \/ OfItem(s[1]))
      /\ Len(s) \in Nat /\ Len(s) >= 1
  BY TopOf
<1>2. 1 \in 1 .. Len(s)
  BY <1>1
<1>3. KeepsTargets(s[1])
  BY <1>2 DEF Filling
<1>4. /\ \A i \in DOMAIN s[1].steps : IsStep(s[1].steps[i])
      /\ Len(s[1].steps) \in Nat /\ DOMAIN s[1].steps = 1 .. Len(s[1].steps)
  BY <1>1, FrameSteps
<1>5. \A i \in DOMAIN s[1].steps : RulePlaces(s[1].steps[i].rule)
  BY <1>4, StepPlaces
<1>6. s[1].next <= Len(s[1].steps) => s[1].next \in DOMAIN s[1].steps
  BY <1>1, <1>4 DEF IsFrame
<1> QED BY <1>1, <1>3, <1>4, <1>5, <1>6

LEMMA ContinueFills ==
  ASSUME Stack(frames), Filling(frames), codec' = codec, NEW m, NEW current,
         KeepsTargets(After(Head(frames), m, current)), Continue(m, current)
  PROVE  FillInv'
<1>1. PICK h : h = frames'
  OBVIOUS
<1>2. Filling(<<After(Head(frames), m, current)>> \o Tail(frames))
  BY FillingReplaced
<1>3. Filling(h)
  BY <1>1, <1>2 DEF Continue
<1> QED BY <1>1, <1>3, FillInvNext

-----------------------------------------------------------------------------
(* The steps of a frame, and its targets.                                  *)

\* What was there still is, unless the rule disturbs it.
Leaves(f, rule, m) ==
  \A p : IsPlace(p) /\ IsThere(f.message, p) /\ ~Disturbs(rule, p) => IsThere(m, p)

LEMMA KeptBySet ==
  ASSUME TablesRead, NEW f, IsFrame(f), OfMessage(f) \/ OfItem(f), f.next \in DOMAIN f.steps, Kept(f),
         NEW rule, rule = StepAt(f).rule, rule.mode # "forEach",
         NEW m, IsThere(m, rule.target), Leaves(f, rule, m)
  PROVE  Kept(After(f, m, With(f.current, rule.target, Filled)))
<1> DEFINE current == With(f.current, rule.target, Filled)
<1>1. \A p : Count(current, p) = IF p = rule.target THEN Filled ELSE Count(f.current, p)
  BY CountWith
<1>2. StepAt(f) \in Range(f.steps)
  BY DEF StepAt, Range
<1>3. f.next <= Len(f.steps)
  BY FrameSteps
<1> HIDE DEF current
<1>4. ASSUME NEW step \in Range(f.steps), Count(current, step.rule.target) = Filled, step.rule.mode # "forEach"
      PROVE  IsThere(m, step.rule.target) \/ Disturbed(f, step)
  <2> DEFINE p == step.rule.target
  <2>1. IsPlace(p)
    <3>1. PICK i \in DOMAIN f.steps : f.steps[i] = step
      BY DEF Range
    <3>2. IsStep(step)
      BY <3>1, FrameSteps
    <3> QED BY <3>2, StepPlaces DEF RulePlaces
  <2>2. CASE p = rule.target
    BY <2>2
  <2>3. CASE p # rule.target /\ Disturbs(rule, p)
    <3>1. StepAt(f) \in Range(f.steps) \ {step}
      BY <1>2, <2>3
    <3> QED BY <2>3, <3>1 DEF Disturbed
  <2>4. CASE p # rule.target /\ ~Disturbs(rule, p)
    <3>1. Count(f.current, p) = Filled
      BY <1>1, <1>4, <2>4
    <3>2. IsThere(f.message, p) \/ Disturbed(f, step)
      BY <1>4, <3>1 DEF Kept, SetThere, TargetThere
    <3> QED BY <2>1, <2>4, <3>2 DEF Leaves
  <2> QED BY <2>2, <2>3, <2>4
<1>5. SetIn(f, m, current)
  BY <1>4 DEF SetIn
<1>6. ASSUME NEW place PROVE GoesOn(f, current, place)
  <2>1. CASE place = rule.target
    BY <1>1, <2>1 DEF GoesOn
  <2>2. CASE place # rule.target
    BY <1>1, <2>2 DEF GoesOn, Fills
  <2> QED BY <2>1, <2>2
<1>7. Kept(After(f, m, current))
  BY <1>3, <1>5, <1>6, KeptAfter
<1> QED BY <1>7 DEF current

\* A rule that is gone by, where its target has been set or is a list.
LEMMA KeptByPassing ==
  ASSUME TablesRead, NEW f, IsFrame(f), OfMessage(f) \/ OfItem(f), f.next \in DOMAIN f.steps, Kept(f),
         NEW rule, rule = StepAt(f).rule,
         rule.mode # "forEach" => Count(f.current, rule.target) = Filled,
         NEW m, \A p : IsPlace(p) /\ IsThere(f.message, p) => IsThere(m, p)
  PROVE  Kept(After(f, m, f.current))
<1>1. f.next <= Len(f.steps)
  BY FrameSteps
<1>2. ASSUME NEW step \in Range(f.steps), Count(f.current, step.rule.target) = Filled, step.rule.mode # "forEach"
      PROVE  IsThere(m, step.rule.target) \/ Disturbed(f, step)
  <2>1. PICK i \in DOMAIN f.steps : f.steps[i] = step
    BY DEF Range
  <2>2. IsPlace(step.rule.target)
    <3>1. IsStep(step)
      BY <2>1, FrameSteps
    <3> QED BY <3>1, StepPlaces DEF RulePlaces
  <2>3. IsThere(f.message, step.rule.target) \/ Disturbed(f, step)
    BY <1>2 DEF Kept, SetThere, TargetThere
  <2> QED BY <2>2, <2>3
<1>3. SetIn(f, m, f.current)
  BY <1>2 DEF SetIn
<1>4. \A place : GoesOn(f, f.current, place)
  BY DEF GoesOn, Fills
<1> QED BY <1>1, <1>3, <1>4, KeptAfter

\* A rule without a source, of more that may still come.
LEMMA KeptByMiss ==
  ASSUME TablesRead, TotalsRead, NEW f, IsFrame(f), OfMessage(f) \/ OfItem(f), f.next \in DOMAIN f.steps, Kept(f),
         NEW target, target = StepAt(f).rule.target, StepAt(f).rule.mode # "forEach",
         Count(f.current, target) # Filled,
         ~LastMiss(Count(f.current, target) + 1, TotalFor(StepAt(f), target))
  PROVE  Kept(After(f, f.message, With(f.current, target, Count(f.current, target) + 1)))
<1> DEFINE n == Count(f.current, target) + 1
           current == With(f.current, target, n)
<1>1. \A p : Count(current, p) = IF p = target THEN n ELSE Count(f.current, p)
  BY CountWith
<1>2. f.next <= Len(f.steps)
  BY FrameSteps
<1>3. Count(f.current, target) \in Nat
  <2>1. f.next - 1 \in Nat
    BY DEF IsFrame
  <2>2. FillSteps(f.steps, f.next - 1, target) \in Nat
    BY <2>1, FillsUpToType DEF FillSteps
  <2> QED BY <2>2 DEF Kept, Even
<1>4. n # Filled
  BY <1>3 DEF Filled
<1>5. TotalFor(StepAt(f), target) \in Nat
  BY TotalAtMost DEF StepAt
<1>6. n < TotalFor(StepAt(f), target)
  BY <1>3, <1>5 DEF LastMiss
<1>7. Fills(StepAt(f).rule, target)
  BY DEF Fills
<1>8. n = Count(f.current, target) + 1
  OBVIOUS
<1> HIDE DEF current, n
<1>9. SetIn(f, f.message, current)
  <2>1. \A p : Count(current, p) = Filled => Count(f.current, p) = Filled
    BY <1>1, <1>4
  <2> QED BY <2>1 DEF SetIn, Kept, SetThere, TargetThere
<1>10. ASSUME NEW place PROVE GoesOn(f, current, place)
  <2>1. CASE place = target
    <3>1. Count(current, place) = n
      BY <1>1, <2>1
    <3> QED BY <1>6, <1>7, <1>8, <2>1, <3>1 DEF GoesOn
  <2>2. CASE place # target
    BY <1>1, <2>2 DEF GoesOn, Fills
  <2> QED BY <2>1, <2>2
<1>11. Kept(After(f, f.message, current))
  BY <1>2, <1>9, <1>10, KeptAfter
<1> QED BY <1>11 DEF current, n

LEMMA MoveFills ==
  TablesRead /\ Stack(frames) /\ Filling(frames) /\ Move => FillInv'
<1> SUFFICES ASSUME TablesRead, Stack(frames), Filling(frames), Move PROVE FillInv'
  OBVIOUS
<1> DEFINE f == Head(frames)
           rule == StepAt(f).rule
           m == Write(Rest(f.message, rule), rule.target, Read(f.message, rule.source))
           current == With(f.current, rule.target, Filled)
<1>1. codec' = codec /\ f.next <= Len(f.steps) /\ rule.mode \in Moves /\ Continue(m, current)
  BY DEF Move, Moved, Applying
<1>2. /\ IsFrame(f) /\ (OfMessage(f) \/ OfItem(f)) /\ KeepsTargets(f)
      /\ f.next \in DOMAIN f.steps /\ RulePlaces(rule)
  BY <1>1, TopStep DEF StepAt
<1>3. IsThere(m, rule.target)
  BY <1>2, WriteThere DEF RulePlaces
<1>4. Leaves(f, rule, m)
  BY <1>1, <1>2, MoveKeeps DEF Leaves
<1>5. rule.mode # "forEach"
  BY <1>1 DEF Moves
<1> HIDE DEF f, m
<1>6. KeepsTargets(After(f, m, current))
  <2> SUFFICES ASSUME ~codec.allowMissing PROVE Kept(After(f, m, current))
    BY DEF KeepsTargets
  <2>1. Kept(f)
    BY <1>2 DEF KeepsTargets
  <2> QED BY <1>2, <1>3, <1>4, <1>5, <2>1, KeptBySet
<1> HIDE DEF current
<1> QED BY <1>1, <1>6, ContinueFills DEF f

LEMMA AssignFills ==
  TablesRead /\ Stack(frames) /\ Filling(frames) /\ Assign => FillInv'
<1> SUFFICES ASSUME TablesRead, Stack(frames), Filling(frames), Assign PROVE FillInv'
  OBVIOUS
<1> DEFINE f == Head(frames)
           rule == StepAt(f).rule
           inItem == Len(frames) > 1
           m == Assigned(f.message, rule, inItem)
           current == With(f.current, rule.target, Filled)
<1>1. /\ codec' = codec /\ f.next <= Len(f.steps) /\ rule.mode \in {"set", "defaultValue"}
      /\ Continue(m, current)
  BY DEF Assign, Applying
<1> HIDE DEF inItem
<1>2. /\ IsFrame(f) /\ (OfMessage(f) \/ OfItem(f)) /\ KeepsTargets(f)
      /\ f.next \in DOMAIN f.steps /\ RulePlaces(rule)
  BY <1>1, TopStep DEF StepAt
<1>3. IsThere(m, rule.target)
  BY <1>2, AssignThere
<1>4. Leaves(f, rule, m)
  BY <1>1, <1>2, AssignKeeps DEF Leaves
<1>5. rule.mode # "forEach"
  BY <1>1
<1> HIDE DEF f, m
<1>6. KeepsTargets(After(f, m, current))
  <2> SUFFICES ASSUME ~codec.allowMissing PROVE Kept(After(f, m, current))
    BY DEF KeepsTargets
  <2>1. Kept(f)
    BY <1>2 DEF KeepsTargets
  <2> QED BY <1>2, <1>3, <1>4, <1>5, <2>1, KeptBySet
<1> HIDE DEF current
<1> QED BY <1>1, <1>6, ContinueFills DEF f

LEMMA PassingFills ==
  TablesRead /\ Stack(frames) /\ Filling(frames) /\ (MoveNothing \/ SkipList) => FillInv'
<1> SUFFICES ASSUME TablesRead, Stack(frames), Filling(frames), MoveNothing \/ SkipList PROVE FillInv'
  OBVIOUS
<1> DEFINE f == Head(frames)
           rule == StepAt(f).rule
<1>1. /\ codec' = codec /\ f.next <= Len(f.steps) /\ Continue(f.message, f.current)
      /\ codec.allowMissing \/ rule.mode = "forEach" \/ Count(f.current, rule.target) = Filled
  BY DEF MoveNothing, SkipList, Applying
<1>2. IsFrame(f) /\ (OfMessage(f) \/ OfItem(f)) /\ KeepsTargets(f) /\ f.next \in DOMAIN f.steps
  BY <1>1, TopStep
<1> HIDE DEF f
<1>3. KeepsTargets(After(f, f.message, f.current))
  <2> SUFFICES ASSUME ~codec.allowMissing PROVE Kept(After(f, f.message, f.current))
    BY DEF KeepsTargets
  <2>1. Kept(f)
    BY <1>2 DEF KeepsTargets
  <2>2. rule.mode # "forEach" => Count(f.current, rule.target) = Filled
    BY <1>1
  <2> QED BY <1>2, <2>1, <2>2, KeptByPassing
<1> QED BY <1>1, <1>3, ContinueFills DEF f

LEMMA MissFills ==
  TablesRead /\ TotalsRead /\ Stack(frames) /\ Filling(frames) /\ MissSource => FillInv'
<1> SUFFICES ASSUME TablesRead, TotalsRead, Stack(frames), Filling(frames), MissSource PROVE FillInv'
  OBVIOUS
<1> DEFINE f == Head(frames)
           target == StepAt(f).rule.target
           n == Count(f.current, target) + 1
           current == With(f.current, target, n)
<1>1. /\ codec' = codec /\ f.next <= Len(f.steps) /\ ~codec.allowMissing /\ StepAt(f).rule.mode \in Moves
      /\ Count(f.current, target) # Filled
  BY DEF MissSource, Applying
<1>2. IsFrame(f) /\ (OfMessage(f) \/ OfItem(f)) /\ KeepsTargets(f) /\ f.next \in DOMAIN f.steps
  BY <1>1, TopStep
<1>3. CASE LastMiss(n, TotalFor(StepAt(f), target))
  <2>1. outcome' = "failed"
    BY <1>3 DEF MissSource, TotalFor
  <2> QED BY <2>1 DEF FillInv
<1>4. CASE ~LastMiss(n, TotalFor(StepAt(f), target))
  <2>1. Continue(f.message, current)
    BY <1>4 DEF MissSource, TotalFor
  <2> HIDE DEF f
  <2>2. StepAt(f).rule.mode # "forEach"
    BY <1>1 DEF Moves
  <2>3. Kept(f)
    BY <1>1, <1>2 DEF KeepsTargets
  <2>4. Kept(After(f, f.message, current))
    BY <1>1, <1>2, <1>4, <2>2, <2>3, KeptByMiss
  <2> HIDE DEF current
  <2>5. KeepsTargets(After(f, f.message, current))
    BY <2>4 DEF KeepsTargets
  <2> QED BY <1>1, <2>1, <2>5, ContinueFills DEF f
<1> QED BY <1>3, <1>4

LEMMA FrameAtFirst ==
  ASSUME NEW rule, NEW items, NEW at PROVE KeepsTargets(ItemFrame(rule, items, at, NoCounts))
<1> DEFINE f == ItemFrame(rule, items, at, NoCounts)
<1>1. f.next = 1 /\ f.current = NoCounts
  BY DEF ItemFrame, Frame
<1> HIDE DEF f
<1>2. Kept(f)
  BY <1>1, KeptAtFirst
<1> QED BY <1>2 DEF KeepsTargets, f

LEMMA EnterFills ==
  TablesRead /\ Stack(frames) /\ Filling(frames) /\ EnterList => FillInv'
<1> SUFFICES ASSUME TablesRead, Stack(frames), Filling(frames), EnterList PROVE FillInv'
  OBVIOUS
<1> DEFINE f == Head(frames)
           rule == StepAt(f).rule
           list == Read(f.message, rule.target)
           g == ItemFrame(rule, list.items, 1, NoCounts)
<1>1. /\ codec' = codec /\ frames' = <<g>> \o frames
      /\ ~NoList(f.message, rule.target) /\ IsThere(f.message, rule.target)
  BY DEF EnterList
<1>2. f = frames[1]
  BY TopOf
<1>3. InList(f)
  BY <1>1 DEF NoList, IsList, IsMap, InList
<1>4. KeepsTargets(g)
  BY FrameAtFirst
<1> HIDE DEF f, g
<1>5. Filling(<<g>> \o frames)
  BY <1>2, <1>3, <1>4, FillingPushed
<1>6. PICK h : h = frames'
  OBVIOUS
<1> QED BY <1>1, <1>5, <1>6, FillInvNext

LEMMA NextItemFills ==
  TablesRead /\ Stack(frames) /\ Filling(frames) /\ NextItem => FillInv'
<1> SUFFICES ASSUME TablesRead, Stack(frames), Filling(frames), NextItem PROVE FillInv'
  OBVIOUS
<1> DEFINE f == frames[1]
           rule == StepAt(frames[2]).rule
           g == ItemFrame(rule, ItemsWith(f, rule.target.metadata), f.at + 1, NoCounts)
<1>1. codec' = codec /\ frames' = <<g>> \o Tail(frames)
  BY DEF NextItem, CountsForNext
<1>2. KeepsTargets(g)
  BY FrameAtFirst
<1> HIDE DEF g
<1>3. Filling(<<g>> \o Tail(frames))
  BY <1>2, FillingReplaced
<1>4. PICK h : h = frames'
  OBVIOUS
<1> QED BY <1>1, <1>3, <1>4, FillInvNext

\* The list that is written back takes the place of one.
LEMMA LeaveFills ==
  TablesRead /\ Stack(frames) /\ Filling(frames) /\ LeaveList => FillInv'
<1> SUFFICES ASSUME TablesRead, Stack(frames), Filling(frames), LeaveList PROVE FillInv'
  OBVIOUS
<1> DEFINE f == frames[2]
           rule == StepAt(f).rule
           list == List(ItemsWith(frames[1], rule.target.metadata))
           m == MessageWith(f, frames[1])
           g == After(f, m, f.current)
<1>1. codec' = codec /\ Len(frames) > 1 /\ frames' = <<g>> \o Tail(Tail(frames))
  BY DEF LeaveList, ItemDone
<1>2. /\ IsFrame(f) /\ Waiting(f) /\ (OfMessage(f) \/ OfItem(f))
      /\ Len(f.steps) \in Nat /\ 2 \in 1 .. Len(frames) /\ 2 \in 2 .. Len(frames)
  BY <1>1, SecondFrame
<1>3. KeepsTargets(f) /\ InList(f)
  BY <1>2 DEF Filling
<1>4. f.next \in DOMAIN f.steps /\ rule.mode = "forEach"
  BY <1>2, FrameSteps DEF IsFrame, Waiting
<1>5. RulePlaces(rule)
  <2>1. IsStep(StepAt(f))
    BY <1>2, <1>4, FrameSteps DEF StepAt
  <2> QED BY <2>1, StepPlaces
<1>6. m = Write(f.message, rule.target, list)
  BY DEF MessageWith
<1> HIDE DEF list, m, f
<1>7. \A p : IsPlace(p) /\ IsThere(f.message, p) => IsThere(m, p)
  BY <1>3, <1>5, <1>6, WriteKeeps DEF InList, RulePlaces
<1>8. KeepsTargets(g)
  <2> SUFFICES ASSUME ~codec.allowMissing PROVE Kept(g)
    BY DEF KeepsTargets
  <2>1. Kept(f)
    BY <1>3 DEF KeepsTargets
  <2> QED BY <1>2, <1>4, <1>7, <2>1, KeptByPassing
<1> HIDE DEF g
<1>9. Filling(<<g>> \o Tail(Tail(frames)))
  BY <1>1, <1>8, FillingPopped
<1>10. PICK h : h = frames'
  OBVIOUS
<1> QED BY <1>1, <1>9, <1>10, FillInvNext

LEMMA ReceiveFills == Receive => FillInv'
<1> SUFFICES ASSUME Receive PROVE FillInv'
  OBVIOUS
<1>1. PICK m : frames' = <<Frame(m, RulesFor(m, direction), NoCounts, <<>>, 0)>>
  BY DEF Receive
<1>2. codec' = codec
  BY DEF Receive
<1> PICK f : f = Frame(m, RulesFor(m, direction), NoCounts, <<>>, 0)
  OBVIOUS
<1>3. f.next = 1 /\ f.current = NoCounts
  BY DEF Frame
<1>4. KeepsTargets(f)
  BY <1>3, KeptAtFirst DEF KeepsTargets
<1>5. Len(<<f>>) = 1 /\ <<f>>[1] = f /\ (\A k \in 1 .. 1 : k = 1) /\ 2 .. 1 = {}
  OBVIOUS
<1>6. Filling(<<f>>)
  BY <1>4, <1>5 DEF Filling
<1>7. PICK h : h = frames'
  OBVIOUS
<1> QED BY <1>1, <1>2, <1>6, <1>7, FillInvNext

LEMMA FillAlways == Spec => []FillInv
<1>1. Init => FillInv
  BY DEF Init, Start, FillInv
<1>2. ReadInv /\ StackInv /\ FillInv /\ [Next]_vars => FillInv'
  <2> SUFFICES ASSUME ReadInv, StackInv, FillInv, [Next]_vars PROVE FillInv'
    OBVIOUS
  <2>1. outcome \notin {"new", "refused", "reading"} => TablesRead /\ TotalsRead
    BY DEF ReadInv, Read1
  <2>2. outcome \in {"mapping", "mapped"} => Stack(frames) /\ Filling(frames)
    BY DEF StackInv, FillInv
  <2>3. CASE Construct \/ PopulateRules \/ ComputeTotals
    <3>1. outcome' \in {"refused", "reading", "ready"}
      BY <2>3 DEF Construct, PopulateRules, ComputeTotals
    <3> QED BY <3>1 DEF FillInv
  <2>4. CASE Receive
    BY <2>4, ReceiveFills
  <2>5. CASE MissPayload \/ FailList \/ FailItem \/ Unwind
    <3>1. outcome' = "failed"
      BY <2>5 DEF MissPayload, FailList, FailItem, Unwind
    <3> QED BY <3>1 DEF FillInv
  <2>6. CASE Move \/ MoveNothing \/ MissSource \/ Assign \/ EnterList \/ SkipList \/ NextItem \/ LeaveList
    <3>1. outcome = "mapping"
      BY <2>6 DEF Move, MoveNothing, MissSource, Assign, EnterList, SkipList, NextItem, LeaveList,
                  ItemDone, Applying
    <3>2. TablesRead /\ TotalsRead /\ Stack(frames) /\ Filling(frames)
      BY <2>1, <2>2, <3>1
    <3> QED BY <2>6, <3>2, MoveFills, PassingFills, MissFills, AssignFills, EnterFills, NextItemFills, LeaveFills
  <2>7. CASE Finish \/ UNCHANGED vars
    <3>1. codec' = codec /\ frames' = frames /\ (outcome' = outcome \/ outcome = "mapping")
      BY <2>7 DEF Finish, vars
    <3>2. PICK h : h = frames'
      OBVIOUS
    <3>3. CASE outcome \in {"mapping", "mapped"}
      BY <2>2, <3>1, <3>2, <3>3, FillInvNext
    <3>4. CASE outcome \notin {"mapping", "mapped"}
      BY <3>1, <3>4 DEF FillInv
    <3> QED BY <3>3, <3>4
  <2> QED BY <2>3, <2>4, <2>5, <2>6, <2>7 DEF Next, Apply, ForEach
<1> QED BY <1>1, <1>2, ReadAlways, StackAlways, PTL DEF Spec

(* Nothing is passed on that lacks a target: one that has been counted as  *)
(* set stays there unless another rule takes it away, and the steps for    *)
(* one that has not are never fewer than the misses that fail a message.   *)
THEOREM LacksNoTarget == Spec => []TargetsFilled
<1>1. ReadInv /\ StackInv /\ FillInv => TargetsFilled
  <2> SUFFICES ASSUME ReadInv, StackInv, FillInv, outcome \in {"mapping", "mapped"}, ~codec.allowMissing,
                      Head(frames).next > Len(Head(frames).steps), NEW step \in Range(Head(frames).steps)
               PROVE  \/ step.rule.mode = "forEach"
                      \/ IsThere(Head(frames).message, step.rule.target)
                      \/ \E other \in Range(Head(frames).steps) \ {step} : Disturbs(other.rule, step.rule.target)
    BY DEF TargetsFilled
  <2> DEFINE f == Head(frames)
  <2>1. TablesRead /\ TotalsRead /\ Stack(frames) /\ Filling(frames)
    BY DEF ReadInv, Read1, StackInv, FillInv
  <2>2. IsFrame(f) /\ (OfMessage(f) \/ OfItem(f)) /\ Kept(f)
    BY <2>1, TopStep DEF KeepsTargets
  <2> HIDE DEF f
  <2>3. TargetThere(f, step)
    BY <2>1, <2>2, FilledAtEnd DEF f
  <2> QED BY <2>3 DEF TargetThere, Disturbed, f
<1> QED BY <1>1, ReadAlways, StackAlways, FillAlways, PTL
=============================================================================
