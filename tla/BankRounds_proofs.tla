-------------------------- MODULE BankRounds_proofs --------------------------
(***************************************************************************)
(* What the proofs about BankRace and BankDeadlock have in common: each    *)
(* request of a transfer is somewhere exactly once, it or its response, as *)
(* long as the transfer waits for it, whatever the order of events.        *)
(***************************************************************************)
EXTENDS BankRounds, SequenceTheorems, TLAPS

-----------------------------------------------------------------------------
(* The rounds.                                                             *)

LEMMA Between ==
  ASSUME NEW S, NEW a \in S, NEW z \in S, NEW r \in Seq(S), NEW n \in Nat, Len(r) = n
  PROVE  LET all == <<a>> \o r \o <<z>>
         IN  /\ Len(all) = n + 2 /\ all[1] = a /\ all[n + 2] = z
             /\ \A i \in 1 .. n : all[i + 1] = r[i]
<1> DEFINE b == <<a>> \o r
           all == b \o <<z>>
<1>1. <<a>> \in Seq(S) /\ Len(<<a>>) = 1 /\ <<a>>[1] = a
  OBVIOUS
<1>2. <<z>> \in Seq(S) /\ Len(<<z>>) = 1 /\ <<z>>[1] = z
  OBVIOUS
<1>3. b \in Seq(S) /\ Len(b) = n + 1 /\ b[1] = a /\ \A i \in 1 .. n : b[i + 1] = r[i]
  <2>1. b \in Seq(S) /\ Len(b) = 1 + n /\ \A i \in 1 .. 1 + n : b[i] = IF i <= 1 THEN a ELSE r[i - 1]
    BY <1>1, ConcatProperties
  <2> HIDE DEF b
  <2> QED BY <2>1
<1> HIDE DEF b
<1>4. Len(all) = n + 2 /\ all[n + 2] = z /\ \A i \in 1 .. n + 1 : all[i] = b[i]
  <2>1. Len(all) = (n + 1) + 1 /\ \A i \in 1 .. (n + 1) + 1 : all[i] = IF i <= n + 1 THEN b[i] ELSE <<z>>[i - (n + 1)]
    BY <1>2, <1>3, ConcatProperties
  <2> HIDE DEF all
  <2> QED BY <1>2, <2>1
<1> HIDE DEF all
<1>5. /\ Len(all) = n + 2 /\ all[1] = a /\ all[n + 2] = z
      /\ \A i \in 1 .. n : all[i + 1] = r[i]
  BY <1>3, <1>4
<1> QED BY <1>5 DEF all, b

LEMMA AfterIs ==
  ASSUME NEW n \in Nat, Rounds \in Seq(Awaits), Len(Rounds) = n, NEW k \in 0 .. n,
         \A i, j \in 1 .. n : Rounds[i] = Rounds[j] => i = j,
         \A i \in 1 .. n : Rounds[i] \notin {"TransferMoney", "complete"}
  PROVE  After(IF k = 0 THEN "TransferMoney" ELSE Rounds[k])
           = IF k = n THEN "complete" ELSE Rounds[k + 1]
<1> DEFINE all == <<"TransferMoney">> \o Rounds \o <<"complete">>
           r == IF k = 0 THEN "TransferMoney" ELSE Rounds[k]
<1>1. /\ Len(all) = n + 2 /\ all[1] = "TransferMoney" /\ all[n + 2] = "complete"
      /\ \A i \in 1 .. n : all[i + 1] = Rounds[i]
  <2>1. "TransferMoney" \in Awaits /\ "complete" \in Awaits
    BY DEF Awaits
  <2> QED BY <2>1, Between
<1>2. After(r) = all[(CHOOSE j \in 1 .. Len(all) : all[j] = r) + 1]
  BY DEF After
<1> HIDE DEF all
<1>3. all[k + 1] = r
  BY <1>1
<1>4. ASSUME NEW j \in 1 .. n + 2, all[j] = r PROVE j = k + 1
  <2>1. j = 1 \/ j = n + 2 \/ (j - 1 \in 1 .. n /\ all[j] = Rounds[j - 1])
    <3>1. j - 1 \in 1 .. n => all[(j - 1) + 1] = Rounds[j - 1]
      BY <1>1
    <3> QED BY <3>1
  <2> QED BY <1>1, <1>4, <2>1
<1>5. (CHOOSE j \in 1 .. Len(all) : all[j] = r) = k + 1
  BY <1>1, <1>3, <1>4
<1>6. all[(k + 1) + 1] = IF k = n THEN "complete" ELSE Rounds[k + 1]
  <2>1. k # n => k + 1 \in 1 .. n
    OBVIOUS
  <2> QED BY <1>1, <2>1
<1> QED BY <1>2, <1>5, <1>6 DEF r

LEMMA LockRounds ==
  ASSUME Rounds = <<"Lock", "Get", "Set", "Unlock">>
  PROVE  /\ Range(Rounds) = {"Lock", "Get", "Set", "Unlock"}
         /\ After("TransferMoney") = "Lock" /\ After("Lock") = "Get" /\ After("Get") = "Set"
         /\ After("Set") = "Unlock" /\ After("Unlock") = "complete"
<1>1. PICK n \in Nat : n = 4
  OBVIOUS
<1>2. Len(Rounds) = n /\ DOMAIN Rounds = 1 .. n
  BY <1>1
<1>3. Rounds[1] = "Lock" /\ Rounds[2] = "Get" /\ Rounds[3] = "Set" /\ Rounds[4] = "Unlock"
  OBVIOUS
<1>4. Range(Rounds) = {"Lock", "Get", "Set", "Unlock"}
  BY <1>1, <1>2, <1>3 DEF Range
<1>5. Rounds \in Seq(Awaits)
  BY <1>4 DEF Awaits
<1>6. /\ \A i, j \in 1 .. n : Rounds[i] = Rounds[j] => i = j
      /\ \A i \in 1 .. n : Rounds[i] \notin {"TransferMoney", "complete"}
  BY <1>1, <1>3
<1>7. ASSUME NEW k \in 0 .. n
      PROVE  After(IF k = 0 THEN "TransferMoney" ELSE Rounds[k])
               = IF k = n THEN "complete" ELSE Rounds[k + 1]
  BY <1>2, <1>5, <1>6, AfterIs
<1> QED BY <1>1, <1>3, <1>4, <1>7

LEMMA NoLockRounds ==
  ASSUME Rounds = <<"Get", "Set">>
  PROVE  /\ Range(Rounds) = {"Get", "Set"}
         /\ After("TransferMoney") = "Get" /\ After("Get") = "Set" /\ After("Set") = "complete"
<1>1. PICK n \in Nat : n = 2
  OBVIOUS
<1>2. Len(Rounds) = n /\ DOMAIN Rounds = 1 .. n
  BY <1>1
<1>3. Rounds[1] = "Get" /\ Rounds[2] = "Set"
  OBVIOUS
<1>4. Range(Rounds) = {"Get", "Set"}
  BY <1>1, <1>2, <1>3 DEF Range
<1>5. Rounds \in Seq(Awaits)
  BY <1>4 DEF Awaits
<1>6. /\ \A i, j \in 1 .. n : Rounds[i] = Rounds[j] => i = j
      /\ \A i \in 1 .. n : Rounds[i] \notin {"TransferMoney", "complete"}
  BY <1>1, <1>3
<1>7. ASSUME NEW k \in 0 .. n
      PROVE  After(IF k = 0 THEN "TransferMoney" ELSE Rounds[k])
               = IF k = n THEN "complete" ELSE Rounds[k + 1]
  BY <1>2, <1>5, <1>6, AfterIs
<1> QED BY <1>1, <1>3, <1>4, <1>7

LEMMA RoundKinds ==
  /\ Range(Rounds) \subseteq {"Lock", "Get", "Set", "Unlock"}
  /\ "Get" \in Range(Rounds) /\ "Set" \in Range(Rounds)
  /\ \A r \in Range(Rounds) \cup {"TransferMoney"} : After(r) \in Range(Rounds) \cup {"complete"}
  /\ After("Get") = "Set"
<1>1. CASE Rounds = <<"Get", "Set">>
  BY <1>1, NoLockRounds
<1>2. CASE Rounds = <<"Lock", "Get", "Set", "Unlock">>
  BY <1>2, LockRounds
<1> QED BY <1>1, <1>2, RoundsAssumption

Requested == {"Lock", "Get", "Set", "Unlock"}

LEMMA ResponseKinds ==
  /\ DOMAIN Response = Requested
  /\ Range(Response) = {"LockResponse", "GetResponse", "SetResponse", "UnlockResponse"}
  /\ \A r \in Requested : Response[r] \in Range(Response)
  /\ \A r, s \in Requested : Response[r] = Response[s] => r = s
  /\ Response["Lock"] = "LockResponse" /\ Response["Get"] = "GetResponse"
  /\ Response["Set"] = "SetResponse" /\ Response["Unlock"] = "UnlockResponse"
  BY DEF Response, Requested, Range

-----------------------------------------------------------------------------
(* Events and where they are.  All but SetupAccount belong to a transfer,  *)
(* TransferMoney to both its legs.                                         *)

Keyed(e) == e.type # "SetupAccount"
Key(e) == IF e.type = "TransferMoney" THEN <<e.id, "both">> ELSE <<e.id, e.leg>>

LEMMA EventKinds ==
  ASSUME NEW e \in Events, Keyed(e)
  PROVE  /\ e.id \in Transfer
         /\ \/ e.type = "TransferMoney"
            \/ e.type \in Range(Rounds) /\ e.leg \in Legs /\ e.amt \in Int
            \/ e.type \in Range(Response) /\ e.leg \in Legs /\ e.amt \in Int
  BY DEF Events, Keyed

LEMMA TypesDiffer ==
  /\ Range(Rounds) \cap Range(Response) = {}
  /\ "TransferMoney" \notin Range(Rounds) /\ "TransferMoney" \notin Range(Response)
  /\ "SetupAccount" \notin Range(Rounds) /\ "SetupAccount" \notin Range(Response)
  /\ "unsent" \notin Range(Rounds) /\ "complete" \notin Range(Rounds)
  BY RoundKinds, ResponseKinds

Post(kind, c, e) == [kind |-> kind, at |-> c, event |-> e]

Queued(q) ==
  {p \in [kind : {"queue"}, at : Context, event : Events] :
     Keyed(p.event) /\ p.event \in Range(q[p.at])}

ToSend(s) ==
  {p \in [kind : {"sending"}, at : Context, event : Events] :
     Keyed(p.event) /\ \E m \in Range(s[p.at]) : p.event = m.event}

Posts == Queued(queue) \cup ToSend(sending)

(* A queue holds one event of a key, and of two Set requests of a transfer *)
(* the debit first.                                                        *)
NoRepeat(q) ==
  \A i, j \in DOMAIN q : Keyed(q[i]) /\ Keyed(q[j]) /\ Key(q[i]) = Key(q[j]) => i = j

Precedes(e, f) ==
  /\ e.type = "Set" /\ f.type = "Set" /\ e.id = f.id
  /\ e.leg = "debit" /\ f.leg = "credit"

InOrder(q) == \A i, j \in DOMAIN q : Precedes(q[i], q[j]) => i < j

Tidy(q) ==
  /\ q \in [Context -> Seq(Events)]
  /\ \A c \in Context : NoRepeat(q[c]) /\ InOrder(q[c])

Without(q, c) == [q EXCEPT ![c] = Tail(@)]
With(q, d, e) == [q EXCEPT ![d] = Append(@, e)]

LEMMA SeqFacts ==
  ASSUME NEW S, NEW q \in Seq(S)
  PROVE  /\ Len(q) \in Nat /\ DOMAIN q = 1 .. Len(q)
         /\ Range(q) \subseteq S
<1>1. Len(q) \in Nat /\ DOMAIN q = 1 .. Len(q)
  BY LenProperties
<1>2. \A i \in DOMAIN q : q[i] \in S
  BY <1>1, ElementOfSeq
<1>3. Range(q) \subseteq S
  BY <1>2 DEF Range
<1> QED BY <1>1, <1>3, Zenon

LEMMA AppendFacts ==
  ASSUME NEW S, NEW q \in Seq(S), NEW e \in S
  PROVE  /\ Append(q, e) \in Seq(S)
         /\ DOMAIN Append(q, e) = DOMAIN q \cup {Len(q) + 1}
         /\ \A i \in DOMAIN q : Append(q, e)[i] = q[i]
         /\ Append(q, e)[Len(q) + 1] = e
         /\ Range(Append(q, e)) = Range(q) \cup {e}
<1> DEFINE r == Append(q, e)
<1>1. /\ r \in Seq(S) /\ Len(r) = Len(q) + 1
      /\ \A i \in 1 .. Len(q) : r[i] = q[i]
      /\ r[Len(q) + 1] = e
  BY AppendProperties
<1> HIDE DEF r
<1>2. DOMAIN r = DOMAIN q \cup {Len(q) + 1}
  BY <1>1, SeqFacts
<1>3. \A i \in DOMAIN q : r[i] = q[i]
  BY <1>1, SeqFacts
<1>4. \A f \in Range(r) : f \in Range(q) \cup {e}
  BY <1>1, <1>2, <1>3 DEF Range
<1>5. \A f \in Range(q) \cup {e} : f \in Range(r)
  BY <1>1, <1>2, <1>3 DEF Range
<1> QED BY <1>1, <1>2, <1>3, <1>4, <1>5 DEF r

LEMMA TailFacts ==
  ASSUME NEW S, NEW q \in Seq(S), q # <<>>
  PROVE  /\ 1 \in DOMAIN q /\ Head(q) = q[1] /\ Head(q) \in S /\ Tail(q) \in Seq(S)
         /\ \A i \in DOMAIN Tail(q) : i + 1 \in DOMAIN q /\ Tail(q)[i] = q[i + 1] /\ i \in Nat \ {0}
         /\ \A i \in DOMAIN q : i # 1 => i - 1 \in DOMAIN Tail(q) /\ Tail(q)[i - 1] = q[i]
         /\ DOMAIN q \subseteq Nat
  OBVIOUS

LEMMA AppendTidy ==
  ASSUME NEW q \in Seq(Events), NEW e \in Events, NoRepeat(q), InOrder(q),
         \A f \in Range(q) : /\ Keyed(e) /\ Keyed(f) => Key(f) # Key(e)
                             /\ ~Precedes(e, f)
  PROVE  NoRepeat(Append(q, e)) /\ InOrder(Append(q, e))
<1> DEFINE r == Append(q, e)
           n == Len(q) + 1
<1>1. /\ Len(q) \in Nat /\ DOMAIN q = 1 .. Len(q) /\ DOMAIN r = DOMAIN q \cup {n}
      /\ \A i \in DOMAIN q : r[i] = q[i] /\ q[i] \in Range(q)
      /\ r[n] = e
  BY SeqFacts, AppendFacts DEF Range
<1> HIDE DEF r
<1>2. NoRepeat(r)
  BY <1>1 DEF NoRepeat
<1>3. InOrder(r)
  <2> SUFFICES ASSUME NEW i \in DOMAIN r, NEW j \in DOMAIN r, Precedes(r[i], r[j]) PROVE i < j
    BY DEF InOrder
  <2>1. j = n /\ i = n => FALSE
    BY <1>1 DEF Precedes
  <2>2. i \in DOMAIN q
    BY <1>1, <2>1
  <2>3. CASE j = n
    BY <1>1, <2>2, <2>3
  <2>4. CASE j # n
    BY <1>1, <2>2, <2>4 DEF InOrder
  <2> QED BY <2>3, <2>4
<1> QED BY <1>2, <1>3 DEF r

LEMMA TailTidy ==
  ASSUME NEW q \in Seq(Events), q # <<>>, NoRepeat(q), InOrder(q)
  PROVE  /\ NoRepeat(Tail(q)) /\ InOrder(Tail(q))
         /\ Head(q) \in Range(q) /\ Range(Tail(q)) \subseteq Range(q)
         /\ \A f \in Range(q) : f = Head(q) \/ f \in Range(Tail(q))
         /\ \A f \in Range(Tail(q)) :
              /\ Keyed(f) /\ Keyed(Head(q)) => Key(f) # Key(Head(q))
              /\ ~Precedes(f, Head(q))
<1> DEFINE r == Tail(q)
<1>1. /\ 1 \in DOMAIN q /\ Head(q) = q[1] /\ DOMAIN q \subseteq Nat
      /\ \A i \in DOMAIN r : i + 1 \in DOMAIN q /\ r[i] = q[i + 1] /\ i \in Nat \ {0}
      /\ \A i \in DOMAIN q : i # 1 => i - 1 \in DOMAIN r /\ r[i - 1] = q[i]
  BY TailFacts
<1> HIDE DEF r
<1>2. NoRepeat(r)
  <2> SUFFICES ASSUME NEW i \in DOMAIN r, NEW j \in DOMAIN r,
                      Keyed(r[i]), Keyed(r[j]), Key(r[i]) = Key(r[j])
               PROVE  i = j
    BY DEF NoRepeat
  <2>1. i + 1 = j + 1
    BY <1>1 DEF NoRepeat
  <2> QED BY <1>1, <2>1
<1>3. InOrder(r)
  <2> SUFFICES ASSUME NEW i \in DOMAIN r, NEW j \in DOMAIN r, Precedes(r[i], r[j]) PROVE i < j
    BY DEF InOrder
  <2>1. i + 1 < j + 1
    BY <1>1 DEF InOrder
  <2> QED BY <1>1, <2>1
<1>4. Head(q) \in Range(q) /\ Range(r) \subseteq Range(q)
  BY <1>1 DEF Range
<1>5. ASSUME NEW f \in Range(q), f # Head(q) PROVE f \in Range(r)
  <2>1. PICK i \in DOMAIN q : f = q[i]
    BY DEF Range
  <2>2. i - 1 \in DOMAIN r /\ f = r[i - 1]
    BY <1>1, <1>5, <2>1
  <2> QED BY <2>2 DEF Range
<1>6. ASSUME NEW f \in Range(r)
      PROVE  /\ Keyed(f) /\ Keyed(Head(q)) => Key(f) # Key(Head(q))
             /\ ~Precedes(f, Head(q))
  <2>1. PICK i \in DOMAIN r : f = r[i]
    BY DEF Range
  <2>2. i + 1 \in DOMAIN q /\ f = q[i + 1] /\ i + 1 # 1 /\ ~(i + 1 < 1)
    BY <1>1, <2>1
  <2> QED BY <1>1, <2>2 DEF NoRepeat, InOrder
<1> QED BY <1>2, <1>3, <1>4, <1>5, <1>6 DEF r

LEMMA Consumed ==
  ASSUME NEW q, Tidy(q), NEW c \in Context, q[c] # <<>>
  PROVE  /\ Tidy(Without(q, c))
         /\ Head(q[c]) \in Events
         /\ Keyed(Head(q[c])) => Post("queue", c, Head(q[c])) \in Queued(q)
         /\ Queued(Without(q, c)) = Queued(q) \ {Post("queue", c, Head(q[c]))}
         /\ \A f \in Range(Without(q, c)[c]) : ~Precedes(f, Head(q[c]))
<1> DEFINE r == Without(q, c)
           h == Head(q[c])
<1>1. /\ r \in [Context -> Seq(Events)] /\ h \in Events
      /\ r[c] = Tail(q[c]) /\ \A d \in Context : d # c => r[d] = q[d]
  BY TailFacts DEF Tidy, Without
<1>2. /\ NoRepeat(r[c]) /\ InOrder(r[c])
      /\ h \in Range(q[c]) /\ Range(r[c]) \subseteq Range(q[c])
      /\ \A f \in Range(q[c]) : f = h \/ f \in Range(r[c])
      /\ \A f \in Range(r[c]) : /\ Keyed(f) /\ Keyed(h) => Key(f) # Key(h)
                                /\ ~Precedes(f, h)
  <2>1. q[c] \in Seq(Events) /\ NoRepeat(q[c]) /\ InOrder(q[c])
    BY DEF Tidy
  <2> HIDE DEF r
  <2> QED BY <1>1, <2>1, TailTidy
<1> HIDE DEF r, h
<1>3. Tidy(r)
  BY <1>1, <1>2 DEF Tidy
<1>4. Keyed(h) => Post("queue", c, h) \in Queued(q)
  BY <1>1, <1>2 DEF Queued, Post
<1>5. Queued(r) = Queued(q) \ {Post("queue", c, h)}
  <2>1. ASSUME NEW p \in Queued(r) PROVE p \in Queued(q) /\ p # Post("queue", c, h)
    <3>1. /\ p \in [kind : {"queue"}, at : Context, event : Events]
          /\ Keyed(p.event) /\ p.event \in Range(r[p.at])
      BY DEF Queued
    <3>2. p.event \in Range(q[p.at])
      BY <1>1, <1>2, <3>1
    <3>3. p # Post("queue", c, h)
      BY <1>2, <3>1 DEF Post
    <3> QED BY <3>1, <3>2, <3>3 DEF Queued
  <2>2. ASSUME NEW p \in Queued(q), p # Post("queue", c, h) PROVE p \in Queued(r)
    <3>1. /\ p \in [kind : {"queue"}, at : Context, event : Events]
          /\ Keyed(p.event) /\ p.event \in Range(q[p.at])
      BY DEF Queued
    <3>2. p = Post("queue", p.at, p.event)
      BY <3>1 DEF Post
    <3>3. p.event \in Range(r[p.at])
      BY <1>1, <1>2, <2>2, <3>1, <3>2
    <3> QED BY <3>1, <3>3 DEF Queued
  <2> QED BY <2>1, <2>2
<1> QED BY <1>1, <1>2, <1>3, <1>4, <1>5 DEF r, h

LEMMA Arrived ==
  ASSUME NEW q, Tidy(q), NEW d \in Context, NEW e \in Events,
         \A f \in Range(q[d]) : /\ Keyed(e) /\ Keyed(f) => Key(f) # Key(e)
                                /\ ~Precedes(e, f)
  PROVE  /\ Tidy(With(q, d, e))
         /\ Queued(With(q, d, e)) = Queued(q) \cup (IF Keyed(e) THEN {Post("queue", d, e)} ELSE {})
<1> DEFINE r == With(q, d, e)
<1>1. /\ r \in [Context -> Seq(Events)] /\ r[d] = Append(q[d], e)
      /\ \A c \in Context : c # d => r[c] = q[c]
      /\ Range(r[d]) = Range(q[d]) \cup {e}
  <2>1. q \in [Context -> Seq(Events)] /\ q[d] \in Seq(Events)
    BY DEF Tidy
  <2>2. Append(q[d], e) \in Seq(Events) /\ Range(Append(q[d], e)) = Range(q[d]) \cup {e}
    BY <2>1, AppendFacts
  <2>3. r[d] = Append(q[d], e) /\ \A c \in Context : c # d => r[c] = q[c]
    BY <2>1 DEF With
  <2> QED BY <2>1, <2>2, <2>3 DEF With
<1>2. NoRepeat(r[d]) /\ InOrder(r[d])
  <2>1. q[d] \in Seq(Events) /\ NoRepeat(q[d]) /\ InOrder(q[d])
    BY DEF Tidy
  <2> HIDE DEF r
  <2> QED BY <1>1, <2>1, AppendTidy
<1> HIDE DEF r
<1>3. Tidy(r)
  BY <1>1, <1>2 DEF Tidy
<1>4. ASSUME NEW p
      PROVE  p \in Queued(r) <=> p \in Queued(q) \cup (IF Keyed(e) THEN {Post("queue", d, e)} ELSE {})
  <2>1. CASE p \in [kind : {"queue"}, at : Context, event : Events]
    <3>1. p = Post("queue", p.at, p.event)
      BY <2>1 DEF Post
    <3>2. p.event \in Range(r[p.at]) <=> p.event \in Range(q[p.at]) \/ (p.at = d /\ p.event = e)
      BY <1>1, <2>1
    <3>3. p = Post("queue", d, e) <=> p.at = d /\ p.event = e
      BY <3>1 DEF Post
    <3> QED BY <2>1, <3>2, <3>3 DEF Queued
  <2>2. CASE p \notin [kind : {"queue"}, at : Context, event : Events]
    BY <2>2 DEF Queued, Post
  <2> QED BY <2>1, <2>2
<1>5. Queued(r) = Queued(q) \cup (IF Keyed(e) THEN {Post("queue", d, e)} ELSE {})
  BY <1>4
<1> QED BY <1>3, <1>5 DEF r

(* A handler has at most one event left to send.                           *)
Message == {m \in [to : Context, event : Events] : Keyed(m.event)}

Outs(s) ==
  /\ DOMAIN s = Context /\ s = [c \in Context |-> s[c]]
  /\ \A c \in Context : s[c] = <<>> \/ \E m \in Message : s[c] = <<m>>

LEMMA OneMessage ==
  ASSUME NEW m
  PROVE  <<m>> # <<>> /\ Head(<<m>>) = m /\ Tail(<<m>>) = <<>> /\ Range(<<m>>) = {m}
<1>1. <<m>> # <<>> /\ Head(<<m>>) = m /\ Tail(<<m>>) = <<>>
  OBVIOUS
<1>2. DOMAIN <<m>> = {1} /\ <<m>>[1] = m
  OBVIOUS
<1> QED BY <1>1, <1>2 DEF Range

LEMMA NoMessage == Range(<<>>) = {}
  BY DEF Range

LEMMA TwoMessages ==
  ASSUME NEW m, NEW n
  PROVE  <<m, n>> # <<>> /\ Head(<<m, n>>) = m /\ Tail(<<m, n>>) = <<n>>
  OBVIOUS

Filled(s, c, m) == [s EXCEPT ![c] = <<m>>]
Emptied(s, c) == [s EXCEPT ![c] = <<>>]

LEMMA Fills ==
  ASSUME NEW s, Outs(s), NEW c \in Context, s[c] = <<>>, NEW m \in Message
  PROVE  /\ Outs(Filled(s, c, m))
         /\ ToSend(Filled(s, c, m)) = ToSend(s) \cup {Post("sending", c, m.event)}
<1> DEFINE r == Filled(s, c, m)
<1>1. /\ DOMAIN r = Context /\ r = [d \in Context |-> r[d]]
      /\ r[c] = <<m>> /\ \A d \in Context : d # c => r[d] = s[d]
  BY DEF Filled, Outs
<1> HIDE DEF r
<1>2. Outs(r)
  BY <1>1 DEF Outs
<1>3. Range(r[c]) = {m} /\ Range(s[c]) = {}
  BY <1>1, OneMessage, NoMessage
<1>4. Keyed(m.event) /\ m.event \in Events
  BY DEF Message
<1>5. ASSUME NEW p PROVE p \in ToSend(r) <=> p \in ToSend(s) \/ p = Post("sending", c, m.event)
  <2>1. CASE p \in [kind : {"sending"}, at : Context, event : Events]
    <3>1. p = Post("sending", c, m.event) <=> p.at = c /\ p.event = m.event
      BY <2>1 DEF Post
    <3> QED BY <1>1, <1>3, <1>4, <2>1, <3>1 DEF ToSend
  <2>2. CASE p \notin [kind : {"sending"}, at : Context, event : Events]
    BY <1>4, <2>2 DEF ToSend, Post
  <2> QED BY <2>1, <2>2
<1>6. ToSend(r) = ToSend(s) \cup {Post("sending", c, m.event)}
  BY <1>5
<1> QED BY <1>2, <1>6 DEF r

LEMMA Empties ==
  ASSUME NEW s, Outs(s), NEW c \in Context, NEW m \in Message, s[c] = <<m>>
  PROVE  /\ Outs(Emptied(s, c))
         /\ ToSend(Emptied(s, c)) = ToSend(s) \ {Post("sending", c, m.event)}
         /\ Post("sending", c, m.event) \in ToSend(s)
<1> DEFINE r == Emptied(s, c)
<1>1. /\ DOMAIN r = Context /\ r = [d \in Context |-> r[d]]
      /\ r[c] = <<>> /\ \A d \in Context : d # c => r[d] = s[d]
  BY DEF Emptied, Outs
<1> HIDE DEF r
<1>2. Outs(r)
  BY <1>1 DEF Outs
<1>3. Range(s[c]) = {m} /\ Range(r[c]) = {}
  BY <1>1, OneMessage, NoMessage
<1>4. Keyed(m.event) /\ m.event \in Events
  BY DEF Message
<1>5. ASSUME NEW p PROVE p \in ToSend(r) <=> p \in ToSend(s) /\ p # Post("sending", c, m.event)
  <2>1. CASE p \in [kind : {"sending"}, at : Context, event : Events]
    <3>1. p = Post("sending", c, m.event) <=> p.at = c /\ p.event = m.event
      BY <2>1 DEF Post
    <3> QED BY <1>1, <1>3, <1>4, <2>1, <3>1 DEF ToSend
  <2>2. CASE p \notin [kind : {"sending"}, at : Context, event : Events]
    BY <2>2 DEF ToSend
  <2> QED BY <2>1, <2>2
<1>6. ToSend(r) = ToSend(s) \ {Post("sending", c, m.event)}
  BY <1>5
<1>7. Post("sending", c, m.event) \in ToSend(s)
  BY <1>3, <1>4 DEF ToSend, Post
<1> QED BY <1>2, <1>6, <1>7 DEF r

-----------------------------------------------------------------------------
(* What the steps do to the posts.                                         *)

Mailed == Tidy(queue) /\ Outs(sending)

HeadPost(c) == Post("queue", c, Head(queue[c]))

\* Nothing in P is of e's key, or a Set request that e should precede.
NewTo(P, e) == \A p \in P : Key(p.event) # Key(e) /\ ~Precedes(e, p.event)

LEMMA KindsDiffer ==
  ASSUME NEW q, NEW s, NEW c, NEW e
  PROVE  Post("queue", c, e) \notin ToSend(s) /\ Post("sending", c, e) \notin Queued(q)
  BY DEF Post, ToSend, Queued

LEMMA ConsumeEffect ==
  ASSUME Mailed, NEW c \in Context, queue[c] # <<>>, H!Handle(c, <<>>)
  PROVE  Mailed' /\ Posts' = Posts \ {HeadPost(c)} /\ sending' = sending
<1>1. queue' = Without(queue, c) /\ sending' = sending
  BY DEF H!Handle, H!Consume, Without
<1>2. Tidy(queue') /\ Queued(queue') = Queued(queue) \ {HeadPost(c)}
  BY <1>1, Consumed DEF Mailed, HeadPost
<1> QED BY <1>1, <1>2, KindsDiffer DEF Mailed, Posts, HeadPost

(* The queue of c loses its head, and then that of d gets an event.        *)
LEMMA PassedOn ==
  ASSUME NEW q, Tidy(q), NEW c \in Context, q[c] # <<>>, NEW d \in Context, c # d,
         NEW e \in Events, Keyed(e), NewTo(Queued(q) \ {Post("queue", c, Head(q[c]))}, e)
  PROVE  LET r == With(Without(q, c), d, e)
         IN  /\ Tidy(r) /\ Post("queue", d, e) \in Queued(r)
             /\ Queued(r) = (Queued(q) \ {Post("queue", c, Head(q[c]))}) \cup {Post("queue", d, e)}
<1> DEFINE p == Without(q, c)
<1>1. Tidy(p) /\ Queued(p) = Queued(q) \ {Post("queue", c, Head(q[c]))}
  BY Consumed
<1> HIDE DEF p
<1>2. ASSUME NEW f \in Range(p[d]) PROVE (Keyed(f) => Key(f) # Key(e)) /\ ~Precedes(e, f)
  <2>1. f \in Events
    BY <1>1, SeqFacts DEF Tidy
  <2>2. CASE Keyed(f)
    <3>1. Post("queue", d, f) \in Queued(p) /\ Post("queue", d, f).event = f
      BY <2>1, <2>2 DEF Queued, Post
    <3> QED BY <1>1, <3>1 DEF NewTo
  <2>3. CASE ~Keyed(f)
    BY <2>3 DEF Keyed, Precedes
  <2> QED BY <2>2, <2>3
<1>3. /\ Tidy(With(p, d, e))
      /\ Queued(With(p, d, e)) = Queued(p) \cup {Post("queue", d, e)}
  BY <1>1, <1>2, Arrived
<1> QED BY <1>1, <1>3 DEF p

LEMMA AnswerEffect ==
  ASSUME Mailed, NEW c \in Context, queue[c] # <<>>, sending[c] = <<>>,
         NEW m \in Message, m.to # c, H!Handle(c, <<m>>),
         NewTo(Posts \ {HeadPost(c)}, m.event)
  PROVE  /\ Mailed' /\ sending' = sending
         /\ Posts' = (Posts \ {HeadPost(c)}) \cup {Post("queue", m.to, m.event)}
<1>1. /\ queue' = [queue EXCEPT ![c] = Tail(@), ![m.to] = Append(@, m.event)]
      /\ sending' = [sending EXCEPT ![c] = <<>>]
  BY OneMessage DEF H!Handle, H!ConsumeAndSend
<1>2. sending' = sending
  BY <1>1 DEF Mailed, Outs
<1>3. m.to \in Context /\ m.event \in Events /\ Keyed(m.event)
  BY DEF Message
<1>4. queue' = With(Without(queue, c), m.to, m.event)
  BY <1>1, <1>3 DEF With, Without, Mailed, Tidy
<1>5. /\ Tidy(queue')
      /\ Queued(queue') = (Queued(queue) \ {HeadPost(c)}) \cup {Post("queue", m.to, m.event)}
  <2>1. NewTo(Queued(queue) \ {HeadPost(c)}, m.event)
    BY DEF NewTo, Posts
  <2> QED BY <1>3, <1>4, <2>1, PassedOn DEF Mailed, HeadPost
<1> QED BY <1>2, <1>5, KindsDiffer DEF Mailed, Posts, HeadPost

LEMMA AnswersEffect ==
  ASSUME Mailed, NEW c \in Context, queue[c] # <<>>, sending[c] = <<>>,
         NEW m \in Message, NEW n \in Message, m.to # c, H!Handle(c, <<m, n>>),
         NewTo(Posts \ {HeadPost(c)}, m.event)
  PROVE  /\ Mailed' /\ sending' = Filled(sending, c, n)
         /\ Posts' = (Posts \ {HeadPost(c)}) \cup {Post("queue", m.to, m.event),
                                                   Post("sending", c, n.event)}
<1>1. /\ queue' = [queue EXCEPT ![c] = Tail(@), ![m.to] = Append(@, m.event)]
      /\ sending' = [sending EXCEPT ![c] = <<n>>]
  BY TwoMessages DEF H!Handle, H!ConsumeAndSend
<1>3. m.to \in Context /\ m.event \in Events /\ Keyed(m.event)
  BY DEF Message
<1>4. queue' = With(Without(queue, c), m.to, m.event)
  BY <1>1, <1>3 DEF With, Without, Mailed, Tidy
<1>5. /\ Tidy(queue')
      /\ Queued(queue') = (Queued(queue) \ {HeadPost(c)}) \cup {Post("queue", m.to, m.event)}
  <2>1. NewTo(Queued(queue) \ {HeadPost(c)}, m.event)
    BY DEF NewTo, Posts
  <2> QED BY <1>3, <1>4, <2>1, PassedOn DEF Mailed, HeadPost
<1>6. sending' = Filled(sending, c, n)
  BY <1>1 DEF Filled
<1>7. Outs(sending') /\ ToSend(sending') = ToSend(sending) \cup {Post("sending", c, n.event)}
  BY <1>6, Fills DEF Mailed
<1> QED BY <1>5, <1>6, <1>7, KindsDiffer DEF Mailed, Posts, HeadPost

LEMMA SendNextEffect ==
  ASSUME Mailed, NEW c \in Context, NEW m \in Message, sending[c] = <<m>>, H!SendNext(c),
         NewTo(Posts \ {Post("sending", c, m.event)}, m.event)
  PROVE  /\ Mailed' /\ sending' = Emptied(sending, c)
         /\ Post("sending", c, m.event) \in Posts
         /\ Posts' = (Posts \ {Post("sending", c, m.event)}) \cup {Post("queue", m.to, m.event)}
<1>1. queue' = With(queue, m.to, m.event) /\ sending' = Emptied(sending, c)
  BY OneMessage DEF H!SendNext, H!Send, With, Emptied
<1>2. m.to \in Context /\ m.event \in Events /\ Keyed(m.event)
  BY DEF Message
<1>3. ASSUME NEW f \in Range(queue[m.to])
      PROVE  (Keyed(f) => Key(f) # Key(m.event)) /\ ~Precedes(m.event, f)
  <2>1. f \in Events
    BY <1>2, SeqFacts DEF Mailed, Tidy
  <2>2. CASE Keyed(f)
    <3>1. Post("queue", m.to, f) \in Queued(queue) /\ Post("queue", m.to, f).event = f
      BY <1>2, <2>1, <2>2 DEF Queued, Post
    <3> QED BY <3>1, KindsDiffer DEF NewTo, Posts
  <2>3. CASE ~Keyed(f)
    BY <2>3 DEF Keyed, Precedes
  <2> QED BY <2>2, <2>3
<1>4. Tidy(queue') /\ Queued(queue') = Queued(queue) \cup {Post("queue", m.to, m.event)}
  BY <1>1, <1>2, <1>3, Arrived DEF Mailed
<1>5. /\ Outs(sending') /\ ToSend(sending') = ToSend(sending) \ {Post("sending", c, m.event)}
      /\ Post("sending", c, m.event) \in ToSend(sending)
  BY <1>1, Empties DEF Mailed
<1> QED BY <1>1, <1>4, <1>5, KindsDiffer DEF Mailed, Posts

LEMMA ArrivalEffect ==
  ASSUME Mailed, NEW d \in Context, NEW e \in Events, H!Send(d, e), sending' = sending,
         Keyed(e) => NewTo(Posts, e)
  PROVE  Mailed' /\ Posts' = Posts \cup (IF Keyed(e) THEN {Post("queue", d, e)} ELSE {})
<1>1. queue' = With(queue, d, e)
  BY DEF H!Send, With
<1>2. ASSUME NEW f \in Range(queue[d])
      PROVE  (Keyed(e) /\ Keyed(f) => Key(f) # Key(e)) /\ ~Precedes(e, f)
  <2>1. f \in Events
    BY SeqFacts DEF Mailed, Tidy
  <2>2. CASE Keyed(f) /\ Keyed(e)
    <3>1. Post("queue", d, f) \in Queued(queue) /\ Post("queue", d, f).event = f
      BY <2>1, <2>2 DEF Queued, Post
    <3> QED BY <2>2, <3>1 DEF NewTo, Posts
  <2>3. CASE ~(Keyed(f) /\ Keyed(e))
    BY <2>3 DEF Keyed, Precedes
  <2> QED BY <2>2, <2>3
<1>3. /\ Tidy(queue')
      /\ Queued(queue') = Queued(queue) \cup (IF Keyed(e) THEN {Post("queue", d, e)} ELSE {})
  BY <1>1, <1>2, Arrived DEF Mailed
<1> QED BY <1>3 DEF Mailed, Posts

-----------------------------------------------------------------------------
(* What a transfer waits for is somewhere, once, and nothing else is.      *)

Waiting == {p \in [kind : {"waiting"}, at : Account, event : Events] : Keyed(p.event)}

\* Where p may be, and what its transfer waits for then.
Fits(p, rd, hd) ==
  /\ p.event \in Events /\ Keyed(p.event) /\ p.kind \in {"queue", "sending", "waiting"}
  /\ p.event.type = "TransferMoney" =>
       /\ rd[p.event.id] = "TransferMoney"
       /\ p.kind = "queue" /\ p.at = TellerOf[p.event.id]
  /\ p.event.type # "TransferMoney" =>
       rd[p.event.id] \in Range(Rounds) /\ p.event.leg \notin DOMAIN hd[p.event.id]
  /\ p.event.type \in Range(Rounds) =>
       /\ rd[p.event.id] = p.event.type
       /\ p.kind = "queue" => p.at = BankDB
       /\ p.kind = "sending" => p.at = TellerOf[p.event.id] /\ p.event.leg = "credit"
  /\ p.event.type \in Range(Response) =>
       /\ p.event.type = Response[rd[p.event.id]]
       /\ p.kind = "queue" => p.at = TellerOf[p.event.id]
       /\ p.kind = "sending" => p.at = BankDB
       /\ p.kind # "waiting"

OneEach(P) == \A p, q \in P : Key(p.event) = Key(q.event) => p = q

\* A Get may stay unanswered.
Owed(x, l, rd, hd) ==
  \/ l = "both" /\ rd[x] = "TransferMoney"
  \/ l \in Legs /\ rd[x] \in Range(Rounds) \ {"Get"} /\ l \notin DOMAIN hd[x]

Present(P, rd, hd) ==
  \A x \in Transfer : \A l \in Legs \cup {"both"} :
    Owed(x, l, rd, hd) => \E p \in P : Key(p.event) = <<x, l>>

HeardOf(x, rd, hd) ==
  /\ DOMAIN hd[x] \subseteq Legs /\ DOMAIN hd[x] # Legs
  /\ DOMAIN hd[x] # {} => rd[x] \in Range(Rounds)
  /\ hd[x] \in [DOMAIN hd[x] -> Int]

Settled(P, rd, hd) ==
  /\ OneEach(P)
  /\ \A p \in P : Fits(p, rd, hd)
  /\ Present(P, rd, hd)
  /\ \A x \in Transfer : HeardOf(x, rd, hd)

Elsewhere(x, f, g) == \A y \in Transfer : y # x => g[y] = f[y]

LEMMA IdOfKey ==
  ASSUME NEW e \in Events, Keyed(e)
  PROVE  /\ e.id \in Transfer
         /\ Key(e)[1] = e.id /\ Key(e)[2] \in Legs \cup {"both"}
         /\ Key(e) = <<Key(e)[1], Key(e)[2]>>
         /\ Key(e)[2] = "both" <=> e.type = "TransferMoney"
  BY EventKinds DEF Key, Legs

LEMMA Replaces ==
  ASSUME NEW P, NEW rd, NEW hd, Settled(P, rd, hd), NEW p \in P, NEW q,
         Fits(q, rd, hd), Key(q.event) = Key(p.event)
  PROVE  Settled((P \ {p}) \cup {q}, rd, hd)
<1> DEFINE R == (P \ {p}) \cup {q}
<1>1. OneEach(R)
  BY DEF Settled, OneEach
<1>2. \A r \in R : Fits(r, rd, hd)
  BY DEF Settled
<1>3. Present(R, rd, hd)
  BY DEF Settled, Present
<1> QED BY <1>1, <1>2, <1>3 DEF Settled

LEMMA Begins ==
  ASSUME NEW P, NEW rd, NEW hd, Settled(P, rd, hd),
         NEW x \in Transfer, rd[x] = "unsent",
         NEW rd2, Elsewhere(x, rd, rd2), rd2[x] = "TransferMoney",
         NEW q, Fits(q, rd2, hd), Key(q.event) = <<x, "both">>
  PROVE  /\ Settled(P \cup {q}, rd2, hd)
         /\ \A p \in P : p.event.id # x
<1>1. ASSUME NEW p \in P PROVE p.event.id \in Transfer /\ p.event.id # x /\ Key(p.event)[1] # x
  <2>1. Fits(p, rd, hd)
    BY DEF Settled
  <2>2. p.event.id # x
    BY <2>1, EventKinds, TypesDiffer DEF Fits
  <2> QED BY <2>1, <2>2, IdOfKey DEF Fits
<1>2. OneEach(P \cup {q})
  BY <1>1 DEF Settled, OneEach
<1>3. \A p \in P : Fits(p, rd2, hd)
  BY <1>1 DEF Settled, Fits, Elsewhere
<1>4. Present(P \cup {q}, rd2, hd)
  <2> SUFFICES ASSUME NEW y \in Transfer, NEW l \in Legs \cup {"both"}, Owed(y, l, rd2, hd)
               PROVE  \E p \in P \cup {q} : Key(p.event) = <<y, l>>
    BY DEF Present
  <2>1. CASE y = x
    BY <2>1, TypesDiffer DEF Owed
  <2>2. CASE y # x
    BY <2>2 DEF Owed, Settled, Present, Elsewhere
  <2> QED BY <2>1, <2>2
<1>5. \A y \in Transfer : HeardOf(y, rd2, hd)
  <2> SUFFICES ASSUME NEW y \in Transfer PROVE HeardOf(y, rd2, hd)
    OBVIOUS
  <2>1. HeardOf(y, rd, hd)
    BY DEF Settled
  <2> QED BY <2>1, TypesDiffer DEF HeardOf, Elsewhere
<1> QED BY <1>1, <1>2, <1>3, <1>4, <1>5 DEF Settled

LEMMA StaysUnanswered ==
  ASSUME NEW P, NEW rd, NEW hd, Settled(P, rd, hd), NEW p \in P, p.event.type = "Get"
  PROVE  Settled(P \ {p}, rd, hd)
<1>1. Fits(p, rd, hd)
  BY DEF Settled
<1>2. rd[p.event.id] = "Get" /\ Key(p.event) = <<p.event.id, p.event.leg>>
  BY <1>1, RoundKinds DEF Fits, Key
<1>3. Present(P \ {p}, rd, hd)
  <2> SUFFICES ASSUME NEW y \in Transfer, NEW l \in Legs \cup {"both"}, Owed(y, l, rd, hd)
               PROVE  \E r \in P \ {p} : Key(r.event) = <<y, l>>
    BY DEF Present
  <2>1. PICK r \in P : Key(r.event) = <<y, l>>
    BY DEF Settled, Present
  <2>2. y # p.event.id
    BY <1>2 DEF Owed
  <2> QED BY <1>2, <2>1, <2>2
<1> QED BY <1>3 DEF Settled, OneEach

\* A response is heard, and the other is awaited.
LEMMA Hears ==
  ASSUME NEW P, NEW rd, NEW hd, Settled(P, rd, hd),
         NEW p \in P, p.event.type \in Range(Response),
         NEW hd2, Elsewhere(p.event.id, hd, hd2), HeardOf(p.event.id, rd, hd2),
         DOMAIN hd2[p.event.id] = DOMAIN hd[p.event.id] \cup {p.event.leg}
  PROVE  Settled(P \ {p}, rd, hd2)
<1> DEFINE x == p.event.id
           k == p.event.leg
<1>1. Fits(p, rd, hd) /\ p.event \in Events /\ Keyed(p.event)
  BY DEF Settled, Fits
<1>2. Key(p.event) = <<x, k>> /\ x \in Transfer
  BY <1>1, IdOfKey, TypesDiffer DEF Key
<1>3. ASSUME NEW r \in P \ {p} PROVE Fits(r, rd, hd2)
  <2>1. Fits(r, rd, hd) /\ r.event \in Events /\ Keyed(r.event) /\ r.event.id \in Transfer
    BY IdOfKey DEF Settled, Fits
  <2>2. CASE r.event.id # x
    BY <2>1, <2>2 DEF Fits, Elsewhere
  <2>3. CASE r.event.id = x
    <3>1. Key(r.event) # Key(p.event)
      BY DEF Settled, OneEach
    <3>2. r.event.type # "TransferMoney" => r.event.leg # k
      BY <1>2, <2>3, <3>1 DEF Key
    <3> QED BY <2>1, <2>3, <3>2 DEF Fits
  <2> QED BY <2>2, <2>3
<1>4. Present(P \ {p}, rd, hd2)
  <2> SUFFICES ASSUME NEW y \in Transfer, NEW l \in Legs \cup {"both"}, Owed(y, l, rd, hd2)
               PROVE  \E r \in P \ {p} : Key(r.event) = <<y, l>>
    BY DEF Present
  <2>1. Owed(y, l, rd, hd)
    BY DEF Owed, Elsewhere
  <2>2. PICK r \in P : Key(r.event) = <<y, l>>
    BY <2>1 DEF Settled, Present
  <2>3. <<y, l>> # <<x, k>>
    <3>1. CASE y = x /\ l = k
      <4>1. k \in Legs /\ k # "both"
        BY <1>1, EventKinds, TypesDiffer DEF Legs
      <4> QED BY <3>1, <4>1 DEF Owed
    <3> QED BY <3>1
  <2> QED BY <1>2, <2>2, <2>3
<1>5. \A y \in Transfer : HeardOf(y, rd, hd2)
  <2> SUFFICES ASSUME NEW y \in Transfer, y # x PROVE HeardOf(y, rd, hd2)
    OBVIOUS
  <2>1. HeardOf(y, rd, hd)
    BY DEF Settled
  <2> QED BY <2>1 DEF HeardOf, Elsewhere
<1> QED BY <1>3, <1>4, <1>5 DEF Settled, OneEach

\* The last post of a transfer in a round, and the next round.
NoOther(P, p) == \A q \in P : q # p => q.event.id # p.event.id

LEMMA Proceeds ==
  ASSUME NEW P, NEW rd, NEW hd, Settled(P, rd, hd), NEW p \in P, NoOther(P, p),
         NEW rd2, NEW hd2, Elsewhere(p.event.id, rd, rd2), Elsewhere(p.event.id, hd, hd2),
         rd2[p.event.id] \in Range(Rounds), hd2[p.event.id] = Nothing,
         NEW q1, NEW q2, Fits(q1, rd2, hd2), Fits(q2, rd2, hd2),
         Key(q1.event) = <<p.event.id, "debit">>, Key(q2.event) = <<p.event.id, "credit">>
  PROVE  Settled((P \ {p}) \cup {q1, q2}, rd2, hd2)
<1> DEFINE x == p.event.id
           R == (P \ {p}) \cup {q1, q2}
<1>1. ASSUME NEW r \in P \ {p}
      PROVE  r.event.id \in Transfer /\ r.event.id # x /\ Key(r.event)[1] # x /\ Fits(r, rd, hd)
  <2>1. Fits(r, rd, hd)
    BY DEF Settled
  <2>2. r.event.id # x
    BY DEF NoOther
  <2> QED BY <2>1, <2>2, IdOfKey DEF Fits
<1>2. Key(q1.event)[1] = x /\ Key(q2.event)[1] = x /\ Key(q1.event) # Key(q2.event)
  OBVIOUS
<1>3. OneEach(R)
  BY <1>1, <1>2 DEF Settled, OneEach
<1>4. \A r \in P \ {p} : Fits(r, rd2, hd2)
  BY <1>1 DEF Fits, Elsewhere
<1>5. Present(R, rd2, hd2)
  <2> SUFFICES ASSUME NEW y \in Transfer, NEW l \in Legs \cup {"both"}, Owed(y, l, rd2, hd2)
               PROVE  \E r \in R : Key(r.event) = <<y, l>>
    BY DEF Present
  <2>1. CASE y = x
    <3>1. l \in Legs
      BY <2>1, TypesDiffer DEF Owed
    <3> QED BY <2>1, <3>1 DEF Legs
  <2>2. CASE y # x
    <3>1. Owed(y, l, rd, hd)
      BY <2>2 DEF Owed, Elsewhere
    <3>2. PICK r \in P : Key(r.event) = <<y, l>>
      BY <3>1 DEF Settled, Present
    <3>3. Key(p.event)[1] = x
      BY IdOfKey DEF Settled, Fits
    <3>4. r # p
      BY <2>2, <3>2, <3>3
    <3> QED BY <3>2, <3>4
  <2> QED BY <2>1, <2>2
<1>6. \A y \in Transfer : HeardOf(y, rd2, hd2)
  <2> SUFFICES ASSUME NEW y \in Transfer PROVE HeardOf(y, rd2, hd2)
    OBVIOUS
  <2>1. HeardOf(y, rd, hd)
    BY DEF Settled
  <2>2. CASE y = x
    BY <2>2 DEF HeardOf, Nothing, Legs
  <2>3. CASE y # x
    BY <2>1, <2>3 DEF HeardOf, Elsewhere
  <2> QED BY <2>2, <2>3
<1> QED BY <1>3, <1>4, <1>5, <1>6 DEF Settled

LEMMA Ends ==
  ASSUME NEW P, NEW rd, NEW hd, Settled(P, rd, hd), NEW p \in P, NoOther(P, p),
         NEW rd2, NEW hd2, Elsewhere(p.event.id, rd, rd2), Elsewhere(p.event.id, hd, hd2),
         rd2[p.event.id] = "complete", hd2[p.event.id] = Nothing
  PROVE  Settled(P \ {p}, rd2, hd2)
<1> DEFINE x == p.event.id
<1>1. ASSUME NEW r \in P \ {p} PROVE r.event.id \in Transfer /\ r.event.id # x /\ Fits(r, rd, hd)
  <2>1. Fits(r, rd, hd)
    BY DEF Settled
  <2>2. r.event.id # x
    BY DEF NoOther
  <2> QED BY <2>1, <2>2, IdOfKey DEF Fits
<1>2. \A r \in P \ {p} : Fits(r, rd2, hd2)
  BY <1>1 DEF Fits, Elsewhere
<1>3. Present(P \ {p}, rd2, hd2)
  <2> SUFFICES ASSUME NEW y \in Transfer, NEW l \in Legs \cup {"both"}, Owed(y, l, rd2, hd2)
               PROVE  \E r \in P \ {p} : Key(r.event) = <<y, l>>
    BY DEF Present
  <2>1. y # x
    BY TypesDiffer DEF Owed
  <2>2. Owed(y, l, rd, hd)
    BY <2>1 DEF Owed, Elsewhere
  <2>3. PICK r \in P : Key(r.event) = <<y, l>>
    BY <2>2 DEF Settled, Present
  <2>4. Key(p.event)[1] = x
    BY IdOfKey DEF Settled, Fits
  <2> QED BY <2>1, <2>3, <2>4
<1>4. \A y \in Transfer : HeardOf(y, rd2, hd2)
  <2> SUFFICES ASSUME NEW y \in Transfer PROVE HeardOf(y, rd2, hd2)
    OBVIOUS
  <2>1. HeardOf(y, rd, hd)
    BY DEF Settled
  <2>2. CASE y = x
    BY <2>2 DEF HeardOf, Nothing, Legs
  <2>3. CASE y # x
    BY <2>1, <2>3 DEF HeardOf, Elsewhere
  <2> QED BY <2>2, <2>3
<1> QED BY <1>2, <1>3, <1>4 DEF Settled, OneEach

-----------------------------------------------------------------------------
(* Which requests have been answered.                                      *)

Earlier(q, r) == \E i, j \in DOMAIN Rounds : i < j /\ Rounds[i] = q /\ Rounds[j] = r

LEMMA NextRound ==
  /\ \A q : ~Earlier(q, "unsent") /\ ~Earlier(q, "TransferMoney") /\ ~Earlier(q, "complete")
  /\ \A q \in Range(Rounds) : ~Earlier(q, q)
  /\ \A r \in Range(Rounds) \cup {"TransferMoney"}, q \in Range(Rounds) :
       /\ After(r) # "complete" => (Earlier(q, After(r)) <=> Earlier(q, r) \/ q = r)
       /\ After(r) = "complete" => Earlier(q, r) \/ q = r
       /\ After(r) # r
<1>1. CASE Rounds = <<"Get", "Set">>
  <2>1. PICK n \in Nat : n = 2
    OBVIOUS
  <2>2. DOMAIN Rounds = 1 .. n /\ Rounds[1] = "Get" /\ Rounds[2] = "Set"
    BY <1>1, <2>1
  <2>3. \A q, r : Earlier(q, r) <=> q = "Get" /\ r = "Set"
    BY <2>1, <2>2 DEF Earlier
  <2> QED BY <1>1, <2>3, NoLockRounds
<1>2. CASE Rounds = <<"Lock", "Get", "Set", "Unlock">>
  <2>1. PICK n \in Nat : n = 4
    OBVIOUS
  <2>2. /\ DOMAIN Rounds = 1 .. n /\ Rounds[1] = "Lock" /\ Rounds[2] = "Get"
        /\ Rounds[3] = "Set" /\ Rounds[4] = "Unlock"
    BY <1>2, <2>1
  <2>3. \A q, r : Earlier(q, r) <=> \/ q = "Lock" /\ r \in {"Get", "Set", "Unlock"}
                                    \/ q = "Get" /\ r \in {"Set", "Unlock"}
                                    \/ q = "Set" /\ r = "Unlock"
    <3> SUFFICES ASSUME NEW q, NEW r
                 PROVE  Earlier(q, r) <=> \/ q = "Lock" /\ r \in {"Get", "Set", "Unlock"}
                                          \/ q = "Get" /\ r \in {"Set", "Unlock"}
                                          \/ q = "Set" /\ r = "Unlock"
      OBVIOUS
    <3>1. ASSUME Earlier(q, r)
          PROVE  \/ q = "Lock" /\ r \in {"Get", "Set", "Unlock"}
                 \/ q = "Get" /\ r \in {"Set", "Unlock"}
                 \/ q = "Set" /\ r = "Unlock"
      BY <2>1, <2>2, <3>1 DEF Earlier
    <3>2. /\ 1 \in DOMAIN Rounds /\ 2 \in DOMAIN Rounds /\ 3 \in DOMAIN Rounds /\ 4 \in DOMAIN Rounds
      BY <2>1, <2>2
    <3>3. CASE q = "Lock" /\ r \in {"Get", "Set", "Unlock"}
      <4>1. \E j \in DOMAIN Rounds : 1 < j /\ Rounds[j] = r
        BY <2>2, <3>2, <3>3
      <4> QED BY <2>2, <3>2, <3>3, <4>1 DEF Earlier
    <3>4. CASE q = "Get" /\ r \in {"Set", "Unlock"}
      <4>1. \E j \in DOMAIN Rounds : 2 < j /\ Rounds[j] = r
        BY <2>2, <3>2, <3>4
      <4> QED BY <2>2, <3>2, <3>4, <4>1 DEF Earlier
    <3>5. CASE q = "Set" /\ r = "Unlock"
      <4>1. \E j \in DOMAIN Rounds : 3 < j /\ Rounds[j] = r
        BY <2>2, <3>2, <3>5
      <4> QED BY <2>2, <3>2, <3>5, <4>1 DEF Earlier
    <3> QED BY <3>1, <3>3, <3>4, <3>5
  <2> QED BY <1>2, <2>3, LockRounds
<1> QED BY <1>1, <1>2, RoundsAssumption

\* There is an answer to the request of round r for leg l of x.
Answer(P, r, x, l) ==
  \E p \in P : p.event.type = Response[r] /\ p.event.id = x /\ p.event.leg = l

Done(P, rd, hd, r, x, l) ==
  \/ rd[x] = r /\ (l \in DOMAIN hd[x] \/ Answer(P, r, x, l))
  \/ Earlier(r, rd[x])
  \/ rd[x] = "complete"

LEMMA ComingPosts ==
  ASSUME Mailed, NEW e, e.type # "SetupAccount"
  PROVE  e \in Coming <=> \E p \in Posts : p.event = e
<1>1. ASSUME e \in Coming PROVE \E p \in Posts : p.event = e
  <2>1. PICK c \in Context : e \in InFlight(c)
    BY <1>1 DEF Coming
  <2>2. CASE e \in Range(queue[c])
    <3>1. e \in Events
      BY <2>2, SeqFacts DEF Mailed, Tidy
    <3>2. Post("queue", c, e) \in Queued(queue) /\ Post("queue", c, e).event = e
      BY <2>2, <3>1 DEF Queued, Post, Keyed
    <3> QED BY <3>2 DEF Posts
  <2>3. CASE e \in {s.event : s \in Range(sending[c])}
    <3>1. PICK s \in Range(sending[c]) : e = s.event
      BY <2>3
    <3>2. PICK m \in Message : sending[c] = <<m>>
      BY <3>1, NoMessage DEF Mailed, Outs
    <3>3. e = m.event /\ m.event \in Events
      BY <3>1, <3>2, OneMessage DEF Message
    <3>4. Post("sending", c, e) \in ToSend(sending) /\ Post("sending", c, e).event = e
      BY <3>1, <3>3 DEF ToSend, Post, Keyed
    <3> QED BY <3>4 DEF Posts
  <2> QED BY <2>1, <2>2, <2>3 DEF InFlight
<1>2. ASSUME NEW p \in Posts, p.event = e PROVE e \in Coming
  <2>1. CASE p \in Queued(queue)
    BY <1>2, <2>1 DEF Queued, Coming, InFlight
  <2>2. CASE p \in ToSend(sending)
    <3>1. PICK c \in Context : \E m \in Range(sending[c]) : e = m.event
      BY <1>2, <2>2 DEF ToSend
    <3> QED BY <3>1 DEF Coming, InFlight
  <2> QED BY <2>1, <2>2 DEF Posts
<1> QED BY <1>1, <1>2

LEMMA AnsweredIsDone ==
  ASSUME Mailed, NEW r \in Range(Rounds), NEW x \in Transfer, NEW l \in Legs
  PROVE  Answered(r, x, l) <=> Done(Posts, round, heard, r, x, l)
<1>1. Response[r] # "SetupAccount"
  BY RoundKinds, ResponseKinds, TypesDiffer DEF Requested
<1>2. Matching(Response[r], x, l) # {} <=> Answer(Posts, r, x, l)
  <2>1. ASSUME NEW e \in Matching(Response[r], x, l) PROVE Answer(Posts, r, x, l)
    <3>1. e \in Coming /\ e.type = Response[r] /\ e.id = x /\ e.leg = l
      BY DEF Matching
    <3>2. PICK p \in Posts : p.event = e
      BY <1>1, <3>1, ComingPosts
    <3> QED BY <3>1, <3>2 DEF Answer
  <2>2. ASSUME NEW p \in Posts, p.event.type = Response[r], p.event.id = x, p.event.leg = l
        PROVE  p.event \in Matching(Response[r], x, l)
    <3>1. p.event \in Coming
      BY <1>1, <2>2, ComingPosts
    <3> QED BY <2>2, <3>1 DEF Matching
  <2> QED BY <2>1, <2>2 DEF Answer
<1> QED BY <1>2 DEF Answered, Done, Earlier

LEMMA DoneReplied ==
  ASSUME NEW P, NEW rd, NEW hd, NEW p \in P, NEW q, Fits(p, rd, hd),
         p.event.type \in Range(Rounds), q.event.type = Response[p.event.type],
         q.event.id = p.event.id, q.event.leg = p.event.leg,
         NEW s \in Range(Rounds), NEW y \in Transfer, NEW k \in Legs
  PROVE  Done((P \ {p}) \cup {q}, rd, hd, s, y, k)
           <=> \/ Done(P, rd, hd, s, y, k)
               \/ s = p.event.type /\ y = p.event.id /\ k = p.event.leg
<1>1. Response[s] \in Range(Response) /\ p.event.type \notin Range(Response)
  BY RoundKinds, ResponseKinds, TypesDiffer DEF Requested
<1>2. q.event.type = Response[s] <=> s = p.event.type
  BY RoundKinds, ResponseKinds DEF Requested
<1>3. Answer((P \ {p}) \cup {q}, s, y, k)
        <=> \/ Answer(P, s, y, k)
            \/ s = p.event.type /\ y = p.event.id /\ k = p.event.leg
  BY <1>1, <1>2 DEF Answer
<1>4. rd[p.event.id] = p.event.type
  BY TypesDiffer DEF Fits
<1> QED BY <1>3, <1>4 DEF Done

LEMMA NotYetDone ==
  ASSUME NEW P, NEW rd, NEW hd, NEW p \in P, OneEach(P), Fits(p, rd, hd), p.event.type \in Range(Rounds)
  PROVE  ~Done(P, rd, hd, p.event.type, p.event.id, p.event.leg)
<1>1. rd[p.event.id] = p.event.type /\ p.event.leg \notin DOMAIN hd[p.event.id]
  BY TypesDiffer DEF Fits
<1>2. ~Answer(P, p.event.type, p.event.id, p.event.leg)
  <2> SUFFICES ASSUME NEW q \in P, q.event.type = Response[p.event.type],
                      q.event.id = p.event.id, q.event.leg = p.event.leg
               PROVE  FALSE
    BY DEF Answer
  <2>1. q.event.type \in Range(Response)
    BY RoundKinds, ResponseKinds DEF Requested
  <2>2. Key(q.event) = Key(p.event) /\ q # p
    BY <2>1, TypesDiffer DEF Key
  <2> QED BY <2>2 DEF OneEach
<1> QED BY <1>1, <1>2, NextRound, TypesDiffer DEF Done

LEMMA DoneUnanswered ==
  ASSUME NEW P, NEW rd, NEW hd, NEW p, p.event.type \notin Range(Response),
         NEW s \in Range(Rounds), NEW y \in Transfer, NEW k \in Legs
  PROVE  /\ Done(P \ {p}, rd, hd, s, y, k) <=> Done(P, rd, hd, s, y, k)
         /\ Done(P \cup {p}, rd, hd, s, y, k) <=> Done(P, rd, hd, s, y, k)
<1>1. Response[s] \in Range(Response)
  BY RoundKinds, ResponseKinds DEF Requested
<1>2. /\ Answer(P \ {p}, s, y, k) <=> Answer(P, s, y, k)
      /\ Answer(P \cup {p}, s, y, k) <=> Answer(P, s, y, k)
  BY <1>1 DEF Answer
<1> QED BY <1>2 DEF Done

\* A post moves on.
LEMMA DoneMoved ==
  ASSUME NEW P, NEW rd, NEW hd, NEW p \in P, NEW q, q.event = p.event,
         NEW s, NEW y, NEW k
  PROVE  Done((P \ {p}) \cup {q}, rd, hd, s, y, k) <=> Done(P, rd, hd, s, y, k)
  BY DEF Done, Answer

LEMMA DoneHeard ==
  ASSUME NEW P, NEW rd, NEW hd, NEW p \in P, Fits(p, rd, hd),
         p.event.type \in Range(Response),
         NEW hd2, Elsewhere(p.event.id, hd, hd2),
         DOMAIN hd2[p.event.id] = DOMAIN hd[p.event.id] \cup {p.event.leg},
         NEW s \in Range(Rounds), NEW y \in Transfer, NEW k \in Legs
  PROVE  Done(P \ {p}, rd, hd2, s, y, k) <=> Done(P, rd, hd, s, y, k)
<1>1. p.event.type = Response[rd[p.event.id]] /\ rd[p.event.id] \in Range(Rounds)
  BY TypesDiffer DEF Fits
<1>2. CASE y = p.event.id /\ k = p.event.leg
  <2>1. rd[y] = s => Answer(P, s, y, k) /\ k \in DOMAIN hd2[y]
    BY <1>1, <1>2 DEF Answer
  <2> QED BY <2>1 DEF Done
<1>3. CASE y = p.event.id /\ k # p.event.leg
  <2>1. Answer(P \ {p}, s, y, k) <=> Answer(P, s, y, k)
    BY <1>3 DEF Answer
  <2>2. k \in DOMAIN hd2[y] <=> k \in DOMAIN hd[y]
    BY <1>3
  <2> QED BY <2>1, <2>2 DEF Done
<1>4. CASE y # p.event.id
  <2>1. Answer(P \ {p}, s, y, k) <=> Answer(P, s, y, k)
    BY <1>4 DEF Answer
  <2>2. hd2[y] = hd[y]
    BY <1>4 DEF Elsewhere
  <2> QED BY <2>1, <2>2 DEF Done
<1> QED BY <1>2, <1>3, <1>4

LEMMA DoneNext ==
  ASSUME NEW P, NEW rd, NEW hd, NEW p \in P, NoOther(P, p),
         NEW rd2, NEW hd2, Elsewhere(p.event.id, rd, rd2), Elsewhere(p.event.id, hd, hd2),
         rd[p.event.id] \in Range(Rounds) \cup {"TransferMoney"},
         rd2[p.event.id] = After(rd[p.event.id]), hd2[p.event.id] = Nothing,
         NEW Q, \A q \in Q : q.event.type \in Range(Rounds),
         rd[p.event.id] \in Range(Rounds) =>
           \A k \in Legs : k \in DOMAIN hd[p.event.id] \/ Answer(P, rd[p.event.id], p.event.id, k),
         NEW s \in Range(Rounds), NEW y \in Transfer, NEW k \in Legs
  PROVE  Done((P \ {p}) \cup Q, rd2, hd2, s, y, k) <=> Done(P, rd, hd, s, y, k)
<1> DEFINE x == p.event.id
           R == (P \ {p}) \cup Q
<1>1. Response[s] \in Range(Response) /\ \A q \in Q : q.event.type \notin Range(Response)
  BY RoundKinds, ResponseKinds, TypesDiffer DEF Requested
<1>2. CASE y # x
  <2>1. Answer(R, s, y, k) <=> Answer(P, s, y, k)
    BY <1>1, <1>2 DEF Answer
  <2>2. rd2[y] = rd[y] /\ hd2[y] = hd[y]
    BY <1>2 DEF Elsewhere
  <2> QED BY <2>1, <2>2 DEF Done
<1>3. CASE y = x
  <2>1. ~Answer(R, s, y, k)
    BY <1>1, <1>3 DEF Answer, NoOther
  <2>2. k \notin DOMAIN hd2[y]
    BY <1>3 DEF Nothing
  <2>3. Done(R, rd2, hd2, s, y, k) <=> Earlier(s, rd2[y]) \/ rd2[y] = "complete"
    BY <2>1, <2>2 DEF Done
  <2>4. rd[y] # "complete"
    BY <1>3, TypesDiffer
  <2>5. Done(P, rd, hd, s, y, k) <=> Earlier(s, rd[y]) \/ rd[y] = s
    BY <1>3, <2>4 DEF Done
  <2>6. rd2[y] = After(rd[y])
    BY <1>3
  <2>7. CASE After(rd[y]) = "complete"
    BY <1>3, <2>3, <2>5, <2>6, <2>7, NextRound
  <2>8. CASE After(rd[y]) # "complete"
    BY <1>3, <2>3, <2>5, <2>6, <2>8, NextRound
  <2> QED BY <2>7, <2>8
<1> QED BY <1>2, <1>3

LEMMA DoneBegun ==
  ASSUME NEW P, NEW rd, NEW hd, NEW x \in Transfer, rd[x] = "unsent",
         NEW rd2, Elsewhere(x, rd, rd2), rd2[x] = "TransferMoney",
         NEW s \in Range(Rounds), NEW y \in Transfer, NEW k \in Legs
  PROVE  Done(P, rd2, hd, s, y, k) <=> Done(P, rd, hd, s, y, k)
  BY NextRound, TypesDiffer DEF Done, Elsewhere

-----------------------------------------------------------------------------
(* The invariant of the rounds, W being the requests that the database     *)
(* keeps, and what each step does.                                         *)

Destined ==
  \A c \in Context, m \in Message : sending[c] = <<m>> =>
    m.to = IF c = BankDB THEN TellerOf[m.event.id] ELSE BankDB

RoundsInv(W) ==
  /\ Mailed
  /\ Destined
  /\ W \subseteq Waiting
  /\ Settled(Posts \cup W, round, heard)
  /\ round \in [Transfer -> Awaits]
  /\ DOMAIN heard = Transfer /\ heard = [x \in Transfer |-> heard[x]]

IsDone(r, x, l) == Done(Posts, round, heard, r, x, l)

Requesting == Range(Rounds) \X Transfer \X Legs

\* What is answered stays the same, but for the requests in "more".
Answers(more) ==
  \A k \in Requesting : IsDone(k[1], k[2], k[3])' <=> IsDone(k[1], k[2], k[3]) \/ k \in more

LEMMA ContextKinds ==
  /\ BankDB \in Context /\ Teller \subseteq Context
  /\ \A x \in Transfer : TellerOf[x] \in Teller /\ TellerOf[x] # BankDB
  BY TellerAssumption DEF Context

LEMMA PostFacts ==
  ASSUME NEW W, RoundsInv(W)
  PROVE  /\ \A p \in Posts : /\ p.kind \in {"queue", "sending"} /\ p \notin W
                             /\ p.event \in Events /\ Keyed(p.event)
                             /\ Fits(p, round, heard)
         /\ \A p \in W : p.kind = "waiting" /\ p \notin Posts /\ Fits(p, round, heard)
         /\ OneEach(Posts)
         /\ \A c, e : /\ Post("queue", c, e) \notin W /\ Post("sending", c, e) \notin W
<1>1. \A p \in Posts : p.kind \in {"queue", "sending"} /\ p.event \in Events /\ Keyed(p.event)
  BY DEF Posts, Queued, ToSend
<1>2. \A p \in W : p.kind = "waiting"
  BY DEF RoundsInv, Waiting
<1>3. \A p \in Posts \cup W : Fits(p, round, heard)
  BY DEF RoundsInv, Settled
<1>4. OneEach(Posts)
  BY DEF RoundsInv, Settled, OneEach
<1>5. \A c, e : Post("queue", c, e) \notin W /\ Post("sending", c, e) \notin W
  BY <1>2 DEF Post
<1> QED BY <1>1, <1>2, <1>3, <1>4, <1>5

\* The event at the head of a queue.
LEMMA HeadFits ==
  ASSUME NEW W, RoundsInv(W), NEW c \in Context, queue[c] # <<>>, Head(queue[c]).type # "SetupAccount"
  PROVE  /\ HeadPost(c) \in Posts /\ HeadPost(c).event = Head(queue[c])
         /\ HeadPost(c).kind = "queue" /\ HeadPost(c).at = c
         /\ Head(queue[c]) \in Events /\ Keyed(Head(queue[c]))
         /\ Head(queue[c]).id \in Transfer
         /\ Fits(HeadPost(c), round, heard)
<1>1. HeadPost(c) \in Posts /\ Head(queue[c]) \in Events /\ Keyed(Head(queue[c]))
  BY Consumed DEF RoundsInv, Mailed, Keyed, HeadPost, Posts
<1> QED BY <1>1, PostFacts, EventKinds DEF HeadPost, Post

LEMMA SetupSent ==
  ASSUME NEW W, RoundsInv(W), NEW s \in unsent, unsent \subseteq Setup, SendSetupAccount(s)
  PROVE  RoundsInv(W)' /\ Posts' = Posts /\ Answers({})
<1> DEFINE e == [type |-> "SetupAccount", setup |-> s]
<1>1. e \in Events /\ ~Keyed(e)
  BY DEF Events, Keyed
<1>2. H!Send(BankDB, e) /\ sending' = sending /\ round' = round /\ heard' = heard
  BY DEF SendSetupAccount, tellers
<1> HIDE DEF e
<1>3. Mailed' /\ Posts' = Posts
  BY <1>1, <1>2, ArrivalEffect, ContextKinds DEF RoundsInv
<1> QED BY <1>2, <1>3 DEF RoundsInv, Destined, Answers, IsDone

LEMMA TransferSent ==
  ASSUME NEW W, RoundsInv(W), NEW x \in Transfer, SendTransferMoney(x)
  PROVE  /\ RoundsInv(W)' /\ Answers({})
         /\ \E q : /\ Posts' = Posts \cup {q} /\ q.event = [type |-> "TransferMoney", id |-> x]
         /\ \A p \in Posts \cup W : p.event.id # x
<1> DEFINE e == [type |-> "TransferMoney", id |-> x]
           q == Post("queue", TellerOf[x], e)
<1>1. e \in Events /\ Keyed(e) /\ Key(e) = <<x, "both">> /\ e.type = "TransferMoney" /\ e.id = x
  BY DEF Events, Keyed, Key
<1>2. /\ round[x] = "unsent" /\ round' = [round EXCEPT ![x] = "TransferMoney"]
      /\ H!Send(TellerOf[x], e) /\ sending' = sending /\ heard' = heard
  BY DEF SendTransferMoney
<1> HIDE DEF e
<1>3. q.event = e /\ q.kind = "queue" /\ q.at = TellerOf[x]
  BY DEF Post
<1>4. round'[x] = "TransferMoney" /\ Elsewhere(x, round, round') /\ round' \in [Transfer -> Awaits]
  BY <1>2 DEF RoundsInv, Elsewhere, Awaits
<1>5. Fits(q, round', heard)
  BY <1>1, <1>3, <1>4, TypesDiffer DEF Fits
<1> HIDE DEF q
<1>6. /\ Settled((Posts \cup W) \cup {q}, round', heard)
      /\ \A p \in Posts \cup W : p.event.id # x
  <2> DEFINE P == Posts \cup W
  <2>1. Settled(P, round, heard) /\ round[x] = "unsent" /\ Key(q.event) = <<x, "both">>
    BY <1>1, <1>2, <1>3 DEF RoundsInv
  <2> HIDE DEF P
  <2>2. Settled(P \cup {q}, round', heard) /\ \A p \in P : p.event.id # x
    BY <1>4, <1>5, <2>1, Begins
  <2> QED BY <2>2 DEF P
<1>7. NewTo(Posts, e)
  <2> SUFFICES ASSUME NEW p \in Posts PROVE Key(p.event) # Key(e) /\ ~Precedes(e, p.event)
    BY DEF NewTo
  <2>1. Key(p.event)[1] = p.event.id
    BY PostFacts, IdOfKey
  <2> QED BY <1>1, <1>6, <2>1 DEF Precedes
<1>8. Mailed' /\ Posts' = Posts \cup {q}
  BY <1>1, <1>2, <1>7, ArrivalEffect, ContextKinds DEF RoundsInv, q
<1>9. RoundsInv(W)'
  <2>1. (Posts \cup W) \cup {q} = Posts' \cup W
    BY <1>8
  <2> QED BY <1>2, <1>4, <1>6, <1>8, <2>1 DEF RoundsInv, Destined
<1>10. Answers({})
  <2> SUFFICES ASSUME NEW r \in Range(Rounds), NEW y \in Transfer, NEW k \in Legs
               PROVE  Done(Posts', round', heard', r, y, k) <=> Done(Posts, round, heard, r, y, k)
    BY DEF Answers, IsDone, Requesting
  <2>1. q.event.type \notin Range(Response)
    BY <1>1, <1>3, TypesDiffer
  <2>2. Done(Posts', round', heard, r, y, k) <=> Done(Posts, round', heard, r, y, k)
    BY <1>8, <2>1, DoneUnanswered
  <2> QED BY <1>2, <1>4, <2>2, DoneBegun
<1> QED BY <1>3, <1>6, <1>8, <1>9, <1>10 DEF e

\* The response to a request.
Responding(h, amt) == [type |-> Response[h.type], id |-> h.id, leg |-> h.leg, amt |-> amt]

LEMMA RespondingIs ==
  ASSUME NEW h, h.type \in Range(Rounds), h.id \in Transfer, h.leg \in Legs, NEW amt \in Int
  PROVE  LET e == Responding(h, amt)
         IN  /\ e \in Events /\ Keyed(e) /\ Key(e) = <<h.id, h.leg>> /\ Key(h) = <<h.id, h.leg>>
             /\ e.type = Response[h.type] /\ e.id = h.id /\ e.leg = h.leg /\ e.amt = amt
             /\ e.type \in Range(Response)
             /\ Reply(h, amt) = [to |-> TellerOf[h.id], event |-> e]
             /\ Reply(h, amt) \in Message
             /\ Reply(h, amt).to = TellerOf[h.id] /\ Reply(h, amt).event = e
<1> DEFINE e == Responding(h, amt)
<1>1. Response[h.type] \in Range(Response) /\ Response[h.type] \notin {"SetupAccount", "TransferMoney"}
  BY RoundKinds, ResponseKinds, TypesDiffer DEF Requested
<1>2. e.type = Response[h.type] /\ e.id = h.id /\ e.leg = h.leg /\ e.amt = amt
  BY DEF Responding
<1>3. e \in Events
  BY <1>1 DEF Responding, Events
<1>4. Keyed(e) /\ Key(e) = <<h.id, h.leg>> /\ Key(h) = <<h.id, h.leg>>
  BY <1>1, <1>2, TypesDiffer DEF Keyed, Key
<1>5. Reply(h, amt) = [to |-> TellerOf[h.id], event |-> e]
  BY DEF Reply, H!Addressed, Responding
<1>6. Reply(h, amt) \in Message /\ Reply(h, amt).to = TellerOf[h.id] /\ Reply(h, amt).event = e
  <2> HIDE DEF e
  <2> QED BY <1>3, <1>4, <1>5, ContextKinds DEF Message
<1> QED BY <1>1, <1>2, <1>3, <1>4, <1>5, <1>6

\* A request at the head of the database's queue.
LEMMA RequestHead ==
  ASSUME NEW W, RoundsInv(W), NEW r \in Range(Rounds), H!Takes(BankDB, r)
  PROVE  LET h == Head(queue[BankDB])
         IN  /\ queue[BankDB] # <<>> /\ sending[BankDB] = <<>> /\ h \in Events
             /\ h.type = r /\ h.id \in Transfer /\ h.leg \in Legs /\ Keyed(h) /\ h.amt \in Int
             /\ Key(h) = <<h.id, h.leg>>
             /\ HeadPost(BankDB) \in Posts /\ HeadPost(BankDB).event = h
             /\ HeadPost(BankDB).kind = "queue" /\ HeadPost(BankDB).at = BankDB
             /\ Fits(HeadPost(BankDB), round, heard)
             /\ round[h.id] = r /\ h.leg \notin DOMAIN heard[h.id]
             /\ ~IsDone(r, h.id, h.leg)
<1> DEFINE h == Head(queue[BankDB])
<1>1. queue[BankDB] # <<>> /\ sending[BankDB] = <<>> /\ h.type = r
  BY DEF H!Takes, H!Receives
<1>2. /\ HeadPost(BankDB) \in Posts /\ HeadPost(BankDB).event = h /\ h \in Events /\ Keyed(h)
      /\ HeadPost(BankDB).kind = "queue" /\ HeadPost(BankDB).at = BankDB
      /\ h.id \in Transfer /\ Fits(HeadPost(BankDB), round, heard)
  BY <1>1, HeadFits, ContextKinds, TypesDiffer
<1> HIDE DEF h
<1>3. h.leg \in Legs /\ h.amt \in Int
  BY <1>1, <1>2, EventKinds, TypesDiffer
<1>4. round[h.id] = r /\ h.leg \notin DOMAIN heard[h.id]
  BY <1>1, <1>2, TypesDiffer DEF Fits
<1>5. ~IsDone(r, h.id, h.leg)
  BY <1>1, <1>2, PostFacts, NotYetDone DEF IsDone
<1>6. Key(h) = <<h.id, h.leg>>
  BY <1>1, TypesDiffer DEF Key
<1> QED BY <1>1, <1>2, <1>3, <1>4, <1>5, <1>6 DEF h

\* The database answers the request at the head of its queue.
LEMMA Replied ==
  ASSUME NEW W, RoundsInv(W), NEW r \in Range(Rounds), H!Takes(BankDB, r), NEW amt \in Int,
         H!Handle(BankDB, <<Reply(Head(queue[BankDB]), amt)>>), UNCHANGED tellers
  PROVE  LET h == Head(queue[BankDB])
         IN  /\ RoundsInv(W)' /\ Answers({<<r, h.id, h.leg>>})
             /\ \E q : /\ Posts' = (Posts \ {HeadPost(BankDB)}) \cup {q}
                       /\ q.event = Responding(h, amt)
<1> DEFINE h == Head(queue[BankDB])
           e == Responding(h, amt)
           m == Reply(h, amt)
           p == HeadPost(BankDB)
           q == Post("queue", TellerOf[h.id], e)
<1>1. /\ queue[BankDB] # <<>> /\ sending[BankDB] = <<>> /\ h \in Events
      /\ h.type = r /\ h.id \in Transfer /\ h.leg \in Legs /\ Key(h) = <<h.id, h.leg>>
      /\ p \in Posts /\ p.event = h /\ Fits(p, round, heard)
      /\ round[h.id] = r /\ h.leg \notin DOMAIN heard[h.id]
  BY RequestHead
<1>h. H!Handle(BankDB, <<m>>)
  OBVIOUS
<1> HIDE DEF h, p
<1>2. /\ e \in Events /\ Keyed(e) /\ Key(e) = <<h.id, h.leg>>
      /\ e.type = Response[r] /\ e.id = h.id /\ e.leg = h.leg
      /\ e.type \in Range(Response)
      /\ m \in Message /\ m.to = TellerOf[h.id] /\ m.event = e
  BY <1>1, RespondingIs
<1>3. round' = round /\ heard' = heard
  BY DEF tellers
<1> HIDE DEF e, m
<1>4. q.event = e /\ q.kind = "queue" /\ q.at = TellerOf[h.id]
  BY DEF Post
<1>5. Fits(q, round, heard)
  BY <1>1, <1>2, <1>4, TypesDiffer DEF Fits
<1>6. NewTo(Posts \ {p}, e)
  BY <1>1, <1>2, PostFacts, TypesDiffer, RoundKinds DEF NewTo, OneEach, Precedes
<1>7. /\ Mailed' /\ sending' = sending
      /\ Posts' = (Posts \ {p}) \cup {q}
  <2>1. m.to # BankDB /\ NewTo(Posts \ {HeadPost(BankDB)}, m.event)
    BY <1>1, <1>2, <1>6, ContextKinds DEF p
  <2>2. Mailed /\ BankDB \in Context /\ queue[BankDB] # <<>> /\ sending[BankDB] = <<>>
    BY <1>1, ContextKinds DEF RoundsInv
  <2>3. /\ Mailed' /\ sending' = sending
        /\ Posts' = (Posts \ {HeadPost(BankDB)}) \cup {Post("queue", m.to, m.event)}
    BY <1>2, <1>h, <2>1, <2>2, AnswerEffect
  <2> QED BY <1>2, <2>3 DEF p
<1> HIDE DEF q
<1>8. RoundsInv(W)'
  <2>1. Settled(((Posts \cup W) \ {p}) \cup {q}, round, heard)
    <3> DEFINE P == Posts \cup W
    <3>1. Settled(P, round, heard) /\ p \in P /\ Key(q.event) = Key(p.event)
      BY <1>1, <1>2, <1>4 DEF RoundsInv
    <3> HIDE DEF P
    <3> QED BY <1>5, <3>1, Replaces DEF P
  <2>2. ((Posts \cup W) \ {p}) \cup {q} = Posts' \cup W
    BY <1>1, <1>7, PostFacts
  <2> QED BY <1>3, <1>7, <2>1, <2>2 DEF RoundsInv, Destined
<1>9. Answers({<<r, h.id, h.leg>>})
  <2> SUFFICES ASSUME NEW s \in Range(Rounds), NEW y \in Transfer, NEW k \in Legs
               PROVE  IsDone(s, y, k)' <=> IsDone(s, y, k) \/ <<s, y, k>> = <<r, h.id, h.leg>>
    BY DEF Answers, Requesting
  <2>1. /\ p \in Posts /\ Fits(p, round, heard) /\ p.event.type \in Range(Rounds)
        /\ q.event.type = Response[p.event.type]
        /\ q.event.id = p.event.id /\ q.event.leg = p.event.leg
    BY <1>1, <1>2, <1>4
  <2>2. Done((Posts \ {p}) \cup {q}, round, heard, s, y, k)
          <=> \/ Done(Posts, round, heard, s, y, k)
              \/ s = p.event.type /\ y = p.event.id /\ k = p.event.leg
    BY <2>1, DoneReplied
  <2> QED BY <1>1, <1>3, <1>7, <2>2 DEF IsDone
<1> QED BY <1>4, <1>7, <1>8, <1>9 DEF h, e, p

\* A Get of an account that is not set up.
LEMMA GetDropped ==
  ASSUME NEW W, RoundsInv(W), H!Takes(BankDB, "Get"), H!Handle(BankDB, <<>>), UNCHANGED tellers
  PROVE  RoundsInv(W)' /\ Answers({}) /\ Posts' = Posts \ {HeadPost(BankDB)}
<1> DEFINE p == HeadPost(BankDB)
<1>1. queue[BankDB] # <<>> /\ p \in Posts /\ p.event.type = "Get" /\ "Get" \in Range(Rounds)
  <2>1. "Get" \in Range(Rounds)
    BY RoundKinds
  <2> QED BY <2>1, RequestHead
<1>2. round' = round /\ heard' = heard
  BY DEF tellers
<1>3. Mailed' /\ Posts' = Posts \ {p} /\ sending' = sending
  BY <1>1, ConsumeEffect, ContextKinds DEF RoundsInv
<1> HIDE DEF p
<1>4. RoundsInv(W)'
  <2> DEFINE P == Posts \cup W
  <2>1. Settled(P, round, heard) /\ p \in P
    BY <1>1 DEF RoundsInv
  <2> HIDE DEF P
  <2>2. Settled(P \ {p}, round, heard)
    BY <1>1, <2>1, StaysUnanswered
  <2>3. P \ {p} = Posts' \cup W
    BY <1>1, <1>3, PostFacts DEF P
  <2> QED BY <1>2, <1>3, <2>2, <2>3 DEF RoundsInv, Destined
<1>5. Answers({})
  <2> SUFFICES ASSUME NEW s \in Range(Rounds), NEW y \in Transfer, NEW k \in Legs
               PROVE  IsDone(s, y, k)' <=> IsDone(s, y, k)
    BY DEF Answers, Requesting
  <2>1. Done(Posts \ {p}, round, heard, s, y, k) <=> Done(Posts, round, heard, s, y, k)
    <3>1. p.event.type \notin Range(Response)
      BY <1>1, TypesDiffer
    <3> QED BY <3>1, DoneUnanswered
  <2> QED BY <1>2, <1>3, <2>1 DEF IsDone
<1> QED BY <1>3, <1>4, <1>5 DEF p

LEMMA SetupHandled ==
  ASSUME NEW W, RoundsInv(W), DbSetupAccount
  PROVE  /\ RoundsInv(W)' /\ Answers({}) /\ Posts' = Posts /\ queue[BankDB] # <<>>
         /\ Head(queue[BankDB]) \in [type : {"SetupAccount"}, setup : Setup]
<1> DEFINE h == Head(queue[BankDB])
<1>1. queue[BankDB] # <<>> /\ h.type = "SetupAccount" /\ H!Handle(BankDB, <<>>)
  BY DEF DbSetupAccount, H!Takes, H!Receives
<1>2. round' = round /\ heard' = heard
  BY DEF DbSetupAccount, tellers
<1>3. Mailed' /\ Posts' = Posts \ {HeadPost(BankDB)} /\ sending' = sending
  BY <1>1, ConsumeEffect, ContextKinds DEF RoundsInv
<1>4. Posts' = Posts
  <2>1. \A p \in Posts : p.event.type # "SetupAccount"
    BY PostFacts DEF Keyed
  <2>2. HeadPost(BankDB) \notin Posts
    BY <1>1, <2>1 DEF HeadPost, Post
  <2> QED BY <1>3, <2>2
<1>5. h \in Events
  BY <1>1, Consumed, ContextKinds DEF RoundsInv, Mailed
<1>6. h \in [type : {"SetupAccount"}, setup : Setup]
  <2> HIDE DEF h
  <2> QED BY <1>1, <1>5, TypesDiffer DEF Events
<1> QED BY <1>1, <1>2, <1>3, <1>4, <1>6 DEF RoundsInv, Destined, Answers, IsDone

\* A running handler sends the event it has yet to send.
LEMMA Continued ==
  ASSUME NEW W, RoundsInv(W), NEW c \in Context, Continue(c)
  PROVE  /\ RoundsInv(W)' /\ Answers({})
         /\ \E p, q : p \in Posts /\ Posts' = (Posts \ {p}) \cup {q} /\ q.event = p.event
<1>1. H!SendNext(c) /\ sending[c] # <<>> /\ round' = round /\ heard' = heard
  BY DEF Continue, H!SendNext, tellers
<1>2. PICK m \in Message : sending[c] = <<m>>
  BY <1>1 DEF RoundsInv, Mailed, Outs
<1> DEFINE e == m.event
           p == Post("sending", c, e)
           q == Post("queue", m.to, e)
<1>3. e \in Events /\ Keyed(e) /\ m.to \in Context
  BY DEF Message
<1>4. p \in Posts
  BY <1>1, <1>2, Empties DEF RoundsInv, Mailed, Posts
<1>5. m.to = IF c = BankDB THEN TellerOf[e.id] ELSE BankDB
  BY <1>2 DEF RoundsInv, Destined
<1>6. /\ p.event = e /\ p.kind = "sending" /\ p.at = c
      /\ q.event = e /\ q.kind = "queue" /\ q.at = m.to
  BY DEF Post
<1>p. p = Post("sending", c, m.event) /\ q = Post("queue", m.to, m.event)
  OBVIOUS
<1> HIDE DEF e, p, q
<1>7. Fits(p, round, heard)
  BY <1>4, PostFacts
<1>8. Fits(q, round, heard)
  <2>1. e.type # "TransferMoney"
    BY <1>6, <1>7 DEF Fits
  <2>2. e.type \in Range(Rounds) => c # BankDB
    BY <1>3, <1>6, <1>7, ContextKinds, EventKinds DEF Fits
  <2>3. e.type \in Range(Response) => c = BankDB
    BY <1>6, <1>7 DEF Fits
  <2> QED BY <1>5, <1>6, <1>7, <2>1, <2>2, <2>3 DEF Fits
<1>9. NewTo(Posts \ {p}, e)
  <2>1. ~(e.type = "Set" /\ e.leg = "debit")
    BY <1>6, <1>7, RoundKinds DEF Fits
  <2> QED BY <1>4, <1>6, <2>1, PostFacts DEF NewTo, OneEach, Precedes
<1>10. /\ Mailed' /\ sending' = Emptied(sending, c)
       /\ Posts' = (Posts \ {p}) \cup {q}
  BY <1>1, <1>2, <1>9, <1>p, SendNextEffect DEF RoundsInv, e
<1>11. Destined'
  BY <1>10 DEF Destined, Emptied, RoundsInv, Mailed, Outs
<1>12. RoundsInv(W)'
  <2> DEFINE P == Posts \cup W
  <2>1. Settled(P, round, heard) /\ p \in P /\ Key(q.event) = Key(p.event)
    BY <1>4, <1>6 DEF RoundsInv
  <2> HIDE DEF P
  <2>2. Settled((P \ {p}) \cup {q}, round, heard)
    BY <1>8, <2>1, Replaces
  <2>3. (P \ {p}) \cup {q} = Posts' \cup W
    BY <1>4, <1>10, PostFacts DEF P
  <2> QED BY <1>1, <1>10, <1>11, <2>2, <2>3 DEF RoundsInv
<1>13. Answers({})
  <2> SUFFICES ASSUME NEW s \in Range(Rounds), NEW y \in Transfer, NEW k \in Legs
               PROVE  IsDone(s, y, k)' <=> IsDone(s, y, k)
    BY DEF Answers, Requesting
  <2>1. Done((Posts \ {p}) \cup {q}, round, heard, s, y, k) <=> Done(Posts, round, heard, s, y, k)
    BY <1>4, <1>6, DoneMoved
  <2> QED BY <1>1, <1>10, <2>1 DEF IsDone
<1> QED BY <1>4, <1>6, <1>10, <1>12, <1>13

LEMMA SetAfterGet ==
  \A r \in Range(Rounds) \cup {"TransferMoney"} : After(r) = "Set" => r = "Get"
<1>1. CASE Rounds = <<"Get", "Set">>
  BY <1>1, NoLockRounds
<1>2. CASE Rounds = <<"Lock", "Get", "Set", "Unlock">>
  BY <1>2, LockRounds
<1> QED BY <1>1, <1>2, RoundsAssumption

\* The event of a request.
RequestOf(r, x, l, answers) ==
  [type |-> r, id |-> x, leg |-> l, amt |-> Amts(r, x, answers)[l]]

LEMMA RequestIs ==
  ASSUME NEW r \in Range(Rounds), NEW x \in Transfer, NEW l \in Legs, NEW answers,
         r = "Set" => answers \in [Legs -> Int]
  PROVE  LET e == RequestOf(r, x, l, answers)
         IN  /\ e \in Events /\ Keyed(e) /\ Key(e) = <<x, l>>
             /\ e.type = r /\ e.id = x /\ e.leg = l
             /\ e.amt = IF r = "Set" THEN answers[l] + LegAmt(x, l) ELSE 0
             /\ Request(r, x, l, answers) = [to |-> BankDB, event |-> e]
             /\ Request(r, x, l, answers) \in Message
             /\ Request(r, x, l, answers).to = BankDB /\ Request(r, x, l, answers).event = e
<1> DEFINE e == RequestOf(r, x, l, answers)
<1>1. e.type = r /\ e.id = x /\ e.leg = l
  BY DEF RequestOf
<1>2. e.amt = IF r = "Set" THEN answers[l] + LegAmt(x, l) ELSE 0
  BY DEF RequestOf, Amts
<1>3. LegAmt(x, l) \in Int
  BY BankAssumption DEF LegAmt
<1>4. e.amt \in Int
  <2> HIDE DEF e
  <2>1. r = "Set" => answers[l] \in Int
    OBVIOUS
  <2> QED BY <1>2, <1>3, <2>1
<1>5. e \in Events
  <2>1. e = [type |-> r, id |-> x, leg |-> l, amt |-> e.amt]
    BY DEF RequestOf
  <2> HIDE DEF e
  <2> QED BY <1>4, <2>1 DEF Events
<1>6. Keyed(e) /\ Key(e) = <<x, l>>
  BY <1>1, TypesDiffer DEF Keyed, Key
<1>7. Request(r, x, l, answers) = [to |-> BankDB, event |-> e]
  BY DEF Request, H!Addressed, RequestOf
<1>8. /\ Request(r, x, l, answers) \in Message
      /\ Request(r, x, l, answers).to = BankDB /\ Request(r, x, l, answers).event = e
  <2> HIDE DEF e
  <2> QED BY <1>5, <1>6, <1>7, ContextKinds DEF Message
<1> QED BY <1>1, <1>2, <1>5, <1>6, <1>7, <1>8

\* What the handler that starts the round after r sends.
Sends(r, x, answers, Q) ==
  \/ After(r) = "complete" /\ Q = {}
  \/ /\ After(r) # "complete"
     /\ \E p, q : /\ Q = {p, q}
                  /\ p.event = RequestOf(After(r), x, "debit", answers)
                  /\ q.event = RequestOf(After(r), x, "credit", answers)

\* Teller t ends one round of x and starts the next.
Starts(t, x, answers) ==
  /\ round' = [round EXCEPT ![x] = After(round[x])]
  /\ heard' = [heard EXCEPT ![x] = Nothing]
  /\ \E Q : Sends(round[x], x, answers, Q) /\ Posts' = (Posts \ {HeadPost(t)}) \cup Q

\* If x is in a round, both its requests are answered.
BothAnswered(x, answers) ==
  /\ round[x] = "Get" => answers \in [Legs -> Int]
  /\ round[x] \in Range(Rounds) =>
       \A k \in Legs : k \in DOMAIN heard[x] \/ Answer(Posts, round[x], x, k)

LEMMA Started ==
  ASSUME NEW W, RoundsInv(W), NEW t \in Teller, NEW x, NEW answers,
         queue[t] # <<>>, sending[t] = <<>>,
         Head(queue[t]).type # "SetupAccount", x = Head(queue[t]).id,
         StartNextRound(t, x, answers), NoOther(Posts \cup W, HeadPost(t)),
         round[x] \in Range(Rounds) \cup {"TransferMoney"}, BothAnswered(x, answers)
  PROVE  RoundsInv(W)' /\ Answers({}) /\ Starts(t, x, answers)
<1> DEFINE p == HeadPost(t)
           r == After(round[x])
           New(Q) == (\A q \in Q : q.event.type \in Range(Rounds)) /\ Posts' = (Posts \ {p}) \cup Q
<1>1. /\ p \in Posts /\ p.event.id = x /\ x \in Transfer /\ t \in Context /\ t # BankDB
      /\ p.event \in Events /\ Keyed(p.event) /\ Fits(p, round, heard)
      /\ p.kind = "queue" /\ p.at = t
  BY HeadFits, ContextKinds, TellerAssumption
<1>2. t = TellerOf[x]
  <2> HIDE DEF p
  <2>1. p.event.type \notin Range(Rounds)
    BY <1>1 DEF Fits
  <2> QED BY <1>1, <2>1, EventKinds DEF Fits
<1>3. /\ round' = [round EXCEPT ![x] = r] /\ heard' = [heard EXCEPT ![x] = Nothing]
      /\ H!Handle(t, IF r = "complete" THEN <<>> ELSE Requests(r, x, answers))
  BY DEF StartNextRound
<1>4. r \in Range(Rounds) \cup {"complete"}
  BY RoundKinds
<1>5. /\ NoOther(Posts, p) /\ Mailed /\ Settled(Posts \cup W, round, heard)
      /\ p \in Posts \cup W /\ NoOther(Posts \cup W, p)
  BY <1>1 DEF NoOther, RoundsInv
<1> HIDE DEF p, r
<1>6. /\ round'[x] = r /\ heard'[x] = Nothing
      /\ Elsewhere(x, round, round') /\ Elsewhere(x, heard, heard')
  BY <1>1, <1>3 DEF Elsewhere, RoundsInv
<1>7. /\ round' \in [Transfer -> Awaits]
      /\ DOMAIN heard' = Transfer /\ heard' = [y \in Transfer |-> heard'[y]]
  BY <1>1, <1>3, <1>4 DEF RoundsInv, Awaits
<1>8. ASSUME NEW Q, New(Q) PROVE Answers({})
  <2> SUFFICES ASSUME NEW s \in Range(Rounds), NEW y \in Transfer, NEW k \in Legs
               PROVE  IsDone(s, y, k)' <=> IsDone(s, y, k)
    BY DEF Answers, Requesting
  <2>1. /\ NoOther(Posts, p) /\ p \in Posts
        /\ Elsewhere(p.event.id, round, round') /\ Elsewhere(p.event.id, heard, heard')
        /\ round[p.event.id] \in Range(Rounds) \cup {"TransferMoney"}
        /\ round'[p.event.id] = After(round[p.event.id]) /\ heard'[p.event.id] = Nothing
    BY <1>1, <1>5, <1>6 DEF r
  <2>2. round[p.event.id] \in Range(Rounds) =>
          \A l \in Legs : l \in DOMAIN heard[p.event.id] \/ Answer(Posts, round[p.event.id], p.event.id, l)
    BY <1>1 DEF BothAnswered
  <2>3. Done((Posts \ {p}) \cup Q, round', heard', s, y, k) <=> Done(Posts, round, heard, s, y, k)
    BY <1>8, <2>1, <2>2, DoneNext
  <2> QED BY <1>8, <2>3 DEF IsDone
<1> HIDE DEF New
<1>9. CASE r = "complete"
  <2>1. H!Handle(t, <<>>)
    BY <1>3, <1>9
  <2>2. Mailed' /\ Posts' = Posts \ {p} /\ sending' = sending
    BY <1>1, <1>5, <2>1, ConsumeEffect DEF p
  <2>3. RoundsInv(W)'
    <3> DEFINE P == Posts \cup W
    <3>1. NoOther(P, p) /\ Settled(P, round, heard) /\ p \in P
      BY <1>5
    <3>2. /\ Elsewhere(p.event.id, round, round') /\ Elsewhere(p.event.id, heard, heard')
          /\ round'[p.event.id] = "complete" /\ heard'[p.event.id] = Nothing
      BY <1>1, <1>6, <1>9
    <3> HIDE DEF P
    <3>3. Settled(P \ {p}, round', heard')
      BY <3>1, <3>2, Ends
    <3>4. P \ {p} = Posts' \cup W
      BY <1>1, <2>2, PostFacts DEF P
    <3> QED BY <1>7, <2>2, <3>3, <3>4 DEF RoundsInv, Destined
  <2>4. Posts' = (Posts \ {p}) \cup {}
    BY <2>2
  <2>5. Answers({})
    <3>1. New({})
      BY <2>4 DEF New
    <3> QED BY <1>8, <3>1
  <2>6. Sends(round[x], x, answers, {})
    BY <1>9 DEF Sends, r
  <2> QED BY <1>3, <2>3, <2>4, <2>5, <2>6 DEF p, r, Starts
<1>10. CASE r # "complete"
  <2> DEFINE m == Request(r, x, "debit", answers)
             n == Request(r, x, "credit", answers)
             q1 == Post("queue", m.to, m.event)
             q2 == Post("sending", t, n.event)
  <2>1. H!Handle(t, <<m, n>>)
    BY <1>3, <1>10 DEF Requests
  <2>2. r \in Range(Rounds) /\ (r = "Set" => answers \in [Legs -> Int])
    BY <1>4, <1>10, SetAfterGet DEF r, BothAnswered
  <2>l. "debit" \in Legs /\ "credit" \in Legs
    BY DEF Legs
  <2>3. /\ m \in Message /\ m.to = BankDB /\ m.event = RequestOf(r, x, "debit", answers)
        /\ m.event.type = r /\ m.event.id = x /\ m.event.leg = "debit"
        /\ m.event \in Events /\ Keyed(m.event) /\ Key(m.event) = <<x, "debit">>
    BY <1>1, <2>2, <2>l, RequestIs
  <2>4. /\ n \in Message /\ n.to = BankDB /\ n.event = RequestOf(r, x, "credit", answers)
        /\ n.event.type = r /\ n.event.id = x /\ n.event.leg = "credit"
        /\ n.event \in Events /\ Keyed(n.event) /\ Key(n.event) = <<x, "credit">>
    BY <1>1, <2>2, <2>l, RequestIs
  <2> HIDE DEF m, n
  <2>5. /\ q1.event = m.event /\ q1.kind = "queue" /\ q1.at = BankDB
        /\ q2.event = n.event /\ q2.kind = "sending" /\ q2.at = t
    BY <2>3 DEF Post
  <2>6. NewTo(Posts \ {p}, m.event)
    <3> SUFFICES ASSUME NEW f \in Posts \ {p}
                 PROVE  Key(f.event) # Key(m.event) /\ ~Precedes(m.event, f.event)
      BY DEF NewTo
    <3>1. f.event.id # x
      BY <1>1, <1>5 DEF NoOther
    <3>2. Key(f.event)[1] # x
      BY <3>1, PostFacts, IdOfKey
    <3> QED BY <2>3, <3>1, <3>2 DEF Precedes
  <2>7. /\ Mailed' /\ sending' = Filled(sending, t, n)
        /\ Posts' = (Posts \ {p}) \cup {q1, q2}
    BY <1>1, <1>5, <2>1, <2>3, <2>4, <2>6, AnswersEffect DEF p
  <2> HIDE DEF q1, q2
  <2>8. Destined'
    <3>1. sending'[t] = <<n>> /\ \A c \in Context : c # t => sending'[c] = sending[c]
      BY <1>1, <2>7 DEF Filled, RoundsInv, Mailed, Outs
    <3> SUFFICES ASSUME NEW c \in Context, NEW o \in Message, sending'[c] = <<o>>
                 PROVE  o.to = IF c = BankDB THEN TellerOf[o.event.id] ELSE BankDB
      BY DEF Destined
    <3>2. CASE c = t
      <4>1. o = n
        BY <3>1, <3>2, OneMessage
      <4> QED BY <1>1, <2>4, <3>2, <4>1
    <3>3. CASE c # t
      BY <3>1, <3>3 DEF RoundsInv, Destined
    <3> QED BY <3>2, <3>3
  <2>9. Fits(q1, round', heard') /\ Fits(q2, round', heard')
    <3>1. r # "TransferMoney" /\ r \notin Range(Response)
      BY <2>2, TypesDiffer
    <3>2. heard'[x] = Nothing /\ DOMAIN Nothing = {}
      BY <1>6 DEF Nothing
    <3> QED BY <1>2, <1>6, <2>2, <2>3, <2>4, <2>5, <3>1, <3>2 DEF Fits
  <2>10. RoundsInv(W)'
    <3> DEFINE P == Posts \cup W
    <3>1. NoOther(P, p) /\ Settled(P, round, heard) /\ p \in P
      BY <1>5
    <3>2. /\ Elsewhere(p.event.id, round, round') /\ Elsewhere(p.event.id, heard, heard')
          /\ round'[p.event.id] \in Range(Rounds) /\ heard'[p.event.id] = Nothing
          /\ Key(q1.event) = <<p.event.id, "debit">> /\ Key(q2.event) = <<p.event.id, "credit">>
      BY <1>1, <1>6, <2>2, <2>3, <2>4, <2>5
    <3> HIDE DEF P
    <3>3. Settled((P \ {p}) \cup {q1, q2}, round', heard')
      BY <2>9, <3>1, <3>2, Proceeds
    <3>4. (P \ {p}) \cup {q1, q2} = Posts' \cup W
      BY <1>1, <2>7, PostFacts DEF P
    <3> QED BY <1>7, <2>7, <2>8, <3>3, <3>4 DEF RoundsInv
  <2>11. Answers({})
    <3>1. New({q1, q2})
      BY <2>2, <2>3, <2>4, <2>5, <2>7 DEF New
    <3> QED BY <1>8, <3>1
  <2>12. Sends(round[x], x, answers, {q1, q2})
    BY <1>10, <2>3, <2>4, <2>5 DEF Sends, r
  <2> QED BY <1>3, <2>7, <2>10, <2>11, <2>12 DEF p, r, Starts
<1> QED BY <1>9, <1>10

LEMMA TransferStarted ==
  ASSUME NEW W, RoundsInv(W), NEW t \in Teller, OnTransferMoney(t)
  PROVE  LET x == Head(queue[t]).id
         IN  /\ x \in Transfer /\ round[x] = "TransferMoney" /\ RoundsInv(W)' /\ Answers({})
             /\ HeadPost(t) \in Posts /\ HeadPost(t).event.id = x
             /\ Starts(t, x, Nothing)
<1> DEFINE x == Head(queue[t]).id
           p == HeadPost(t)
<1>1. /\ queue[t] # <<>> /\ sending[t] = <<>> /\ Head(queue[t]).type = "TransferMoney"
      /\ StartNextRound(t, x, Nothing) /\ t \in Context
  BY ContextKinds DEF OnTransferMoney, H!Takes, H!Receives
<1>2. /\ p \in Posts /\ p.event.type = "TransferMoney" /\ p.event.id = x /\ x \in Transfer
      /\ p.event \in Events /\ Fits(p, round, heard)
  BY <1>1, HeadFits
<1>n. x = Head(queue[t]).id /\ p = HeadPost(t)
  OBVIOUS
<1> HIDE DEF x, p
<1>3. round[x] = "TransferMoney" /\ "TransferMoney" \notin Range(Rounds)
  BY <1>2, TypesDiffer DEF Fits
<1>4. NoOther(Posts \cup W, p)
  <2> SUFFICES ASSUME NEW q \in Posts \cup W, q.event.id = x PROVE q = p
    BY <1>2 DEF NoOther
  <2>1. q.event.type = "TransferMoney"
    BY <1>3, PostFacts DEF Fits
  <2>2. Key(q.event) = Key(p.event)
    BY <1>2, <2>1 DEF Key
  <2> QED BY <1>2, <2>2 DEF RoundsInv, Settled, OneEach
<1>5. RoundsInv(W)' /\ Answers({}) /\ Starts(t, x, Nothing)
  <2>1. /\ Head(queue[t]).type # "SetupAccount" /\ x = Head(queue[t]).id
        /\ queue[t] # <<>> /\ sending[t] = <<>> /\ StartNextRound(t, x, Nothing)
        /\ NoOther(Posts \cup W, HeadPost(t))
        /\ round[x] \in Range(Rounds) \cup {"TransferMoney"}
        /\ BothAnswered(x, Nothing)
    BY <1>1, <1>3, <1>4, <1>n, RoundKinds DEF BothAnswered
  <2> QED BY <2>1, Started
<1> QED BY <1>2, <1>3, <1>5, <1>n

\* A response at the head of a teller's queue is awaited.
LEMMA ResponseHead ==
  ASSUME NEW W, RoundsInv(W), NEW t \in Teller, OnResponse(t)
  PROVE  LET h == Head(queue[t])
         IN  /\ queue[t] # <<>> /\ sending[t] = <<>> /\ h.type \in Range(Response)
             /\ h.id \in Transfer /\ h.leg \in Legs /\ h.amt \in Int /\ h \in Events
             /\ round[h.id] \in Range(Rounds) /\ h.type = Response[round[h.id]]
             /\ h.leg \notin DOMAIN heard[h.id] /\ AwaitedBy(h.id, h)
             /\ HeadPost(t) \in Posts /\ HeadPost(t).event = h
             /\ Fits(HeadPost(t), round, heard)
<1> DEFINE h == Head(queue[t])
<1>1. queue[t] # <<>> /\ sending[t] = <<>> /\ h.type \in Range(Response) /\ t \in Context
  BY ContextKinds DEF OnResponse, H!Takes, H!Receives
<1>2. /\ HeadPost(t) \in Posts /\ HeadPost(t).event = h /\ h \in Events /\ Keyed(h)
      /\ h.id \in Transfer /\ Fits(HeadPost(t), round, heard)
  BY <1>1, HeadFits, TypesDiffer
<1> HIDE DEF h
<1>3. h.leg \in Legs /\ h.amt \in Int
  BY <1>1, <1>2, EventKinds, TypesDiffer
<1>4. /\ round[h.id] \in Range(Rounds) /\ h.type = Response[round[h.id]]
      /\ h.leg \notin DOMAIN heard[h.id]
  BY <1>1, <1>2, TypesDiffer DEF Fits
<1> QED BY <1>1, <1>2, <1>3, <1>4 DEF h, AwaitedBy

LEMMA ResponseHandled ==
  ASSUME NEW W, RoundsInv(W), NEW t \in Teller, OnResponse(t)
  PROVE  LET h == Head(queue[t])
             x == h.id
             answers == WithEntry(heard[x], h.leg, h.amt)
         IN  /\ RoundsInv(W)' /\ Answers({})
             /\ \/ /\ DOMAIN answers # Legs /\ round' = round
                   /\ heard' = [heard EXCEPT ![x] = answers]
                   /\ Posts' = Posts \ {HeadPost(t)}
                \/ DOMAIN answers = Legs /\ Starts(t, x, answers)
<1> DEFINE h == Head(queue[t])
           x == h.id
           p == HeadPost(t)
           answers == WithEntry(heard[x], h.leg, h.amt)
<1>1. /\ queue[t] # <<>> /\ sending[t] = <<>> /\ h.type \in Range(Response)
      /\ x \in Transfer /\ h.leg \in Legs /\ h.amt \in Int /\ h \in Events
      /\ round[x] \in Range(Rounds) /\ h.type = Response[round[x]]
      /\ h.leg \notin DOMAIN heard[x] /\ AwaitedBy(x, h)
      /\ p \in Posts /\ p.event = h /\ Fits(p, round, heard)
  BY ResponseHead
<1>2. t \in Context /\ h.type # "SetupAccount"
  BY <1>1, ContextKinds, TypesDiffer
<1>3. IF AwaitedBy(x, h) /\ BothHeard(answers)
      THEN StartNextRound(t, x, answers)
      ELSE /\ heard' = IF AwaitedBy(x, h) THEN [heard EXCEPT ![x] = answers] ELSE heard
           /\ H!Handle(t, <<>>)
           /\ UNCHANGED round
  BY DEF OnResponse
<1>n. h = Head(queue[t]) /\ x = h.id /\ p = HeadPost(t)
  OBVIOUS
<1> HIDE DEF h, p
<1>4. HeardOf(x, round, heard)
  BY <1>1 DEF RoundsInv, Settled
<1>5. /\ DOMAIN answers = DOMAIN heard[x] \cup {h.leg} /\ DOMAIN answers \subseteq Legs
      /\ answers \in [DOMAIN answers -> Int]
  BY <1>1, <1>4 DEF HeardOf, WithEntry
<1> HIDE DEF answers, x
<1>6. CASE DOMAIN answers = Legs
  <2>1. StartNextRound(t, x, answers)
    BY <1>1, <1>3, <1>6 DEF BothHeard
  <2>2. NoOther(Posts \cup W, p)
    <3> SUFFICES ASSUME NEW q \in Posts \cup W, q.event.id = x PROVE q = p
      BY <1>1, <1>n DEF NoOther
    <3>1. Fits(q, round, heard) /\ q.event \in Events /\ Keyed(q.event)
      BY PostFacts DEF Fits
    <3>2. q.event.type # "TransferMoney" /\ q.event.leg \notin DOMAIN heard[x]
      BY <1>1, <3>1, TypesDiffer DEF Fits
    <3>3. q.event.leg \in Legs
      BY <3>1, <3>2, EventKinds
    <3>4. q.event.leg = h.leg
      BY <1>5, <1>6, <3>2, <3>3
    <3>5. Key(q.event) = Key(p.event)
      BY <1>1, <1>n, <3>2, <3>4, TypesDiffer DEF Key
    <3> QED BY <1>1, <3>5 DEF RoundsInv, Settled, OneEach
  <2>3. ASSUME NEW k \in Legs PROVE k \in DOMAIN heard[x] \/ Answer(Posts, round[x], x, k)
    <3>1. k \in DOMAIN heard[x] \/ k = h.leg
      BY <1>5, <1>6
    <3> QED BY <1>1, <1>n, <3>1 DEF Answer
  <2>4. RoundsInv(W)' /\ Answers({}) /\ Starts(t, x, answers)
    <3>1. /\ Head(queue[t]).type # "SetupAccount" /\ x = Head(queue[t]).id
          /\ queue[t] # <<>> /\ sending[t] = <<>> /\ StartNextRound(t, x, answers)
          /\ NoOther(Posts \cup W, HeadPost(t))
          /\ round[x] \in Range(Rounds) \cup {"TransferMoney"}
      BY <1>1, <1>2, <1>n, <2>1, <2>2
    <3>2. BothAnswered(x, answers)
      BY <1>5, <1>6, <2>3 DEF BothAnswered
    <3> QED BY <3>1, <3>2, Started
  <2> QED BY <1>6, <1>n, <2>4 DEF h, x, answers
<1>7. CASE DOMAIN answers # Legs
  <2>1. heard' = [heard EXCEPT ![x] = answers] /\ H!Handle(t, <<>>) /\ round' = round
    BY <1>1, <1>3, <1>7 DEF BothHeard
  <2>2. Mailed' /\ Posts' = Posts \ {p} /\ sending' = sending
    BY <1>1, <1>2, <1>n, <2>1, ConsumeEffect DEF RoundsInv
  <2>3. /\ heard'[x] = answers /\ Elsewhere(x, heard, heard')
        /\ DOMAIN heard' = Transfer /\ heard' = [y \in Transfer |-> heard'[y]]
    BY <1>1, <2>1 DEF Elsewhere, RoundsInv
  <2>4. HeardOf(x, round, heard')
    BY <1>1, <1>5, <1>7, <2>3 DEF HeardOf
  <2>5. /\ p.event.id = x /\ p.event.type \in Range(Response)
        /\ DOMAIN heard'[p.event.id] = DOMAIN heard[p.event.id] \cup {p.event.leg}
    BY <1>1, <1>5, <1>n, <2>3
  <2>6. RoundsInv(W)'
    <3> DEFINE P == Posts \cup W
    <3>1. Settled(P, round, heard) /\ p \in P
      BY <1>1 DEF RoundsInv
    <3> HIDE DEF P
    <3>2. Settled(P \ {p}, round, heard')
      BY <2>3, <2>4, <2>5, <3>1, Hears
    <3>3. P \ {p} = Posts' \cup W
      BY <1>1, <2>2, PostFacts DEF P
    <3> QED BY <2>1, <2>2, <2>3, <3>2, <3>3 DEF RoundsInv, Destined
  <2>7. Answers({})
    <3> SUFFICES ASSUME NEW s \in Range(Rounds), NEW y \in Transfer, NEW k \in Legs
                 PROVE  IsDone(s, y, k)' <=> IsDone(s, y, k)
      BY DEF Answers, Requesting
    <3>1. p \in Posts /\ Fits(p, round, heard) /\ Elsewhere(p.event.id, heard, heard')
      BY <1>1, <2>3, <2>5
    <3>2. Done(Posts \ {p}, round, heard', s, y, k) <=> Done(Posts, round, heard, s, y, k)
      BY <2>5, <3>1, DoneHeard
    <3> QED BY <2>1, <2>2, <3>2 DEF IsDone
  <2> QED BY <1>7, <1>n, <2>1, <2>2, <2>6, <2>7 DEF h, x, answers
<1> QED BY <1>6, <1>7

-----------------------------------------------------------------------------
(* The initial state, the types, and the order of the two Sets.            *)

BooksOk ==
  /\ DOMAIN opened \subseteq Account
  /\ opened \in [DOMAIN opened -> Int]
  /\ accounts \in [DOMAIN opened -> Int]
  /\ unsent \subseteq Setup

LEMMA TypesFollow ==
  ASSUME NEW W, RoundsInv(W), BooksOk
  PROVE  TypeOK
<1>1. queue \in [Context -> Seq(Events)]
  BY DEF RoundsInv, Mailed, Tidy
<1>2. sending \in [Context -> Seq([to : Context, event : Events])]
  <2>1. ASSUME NEW c \in Context PROVE sending[c] \in Seq([to : Context, event : Events])
    <3>1. CASE sending[c] = <<>>
      BY <3>1
    <3>2. CASE sending[c] # <<>>
      <4>1. PICK m \in Message : sending[c] = <<m>>
        BY <3>2 DEF RoundsInv, Mailed, Outs
      <4>2. m \in [to : Context, event : Events]
        BY DEF Message
      <4> QED BY <4>1, <4>2
    <3> QED BY <3>1, <3>2
  <2>2. sending = [c \in Context |-> sending[c]]
    BY DEF RoundsInv, Mailed, Outs
  <2> QED BY <2>1, <2>2
<1>3. \A x \in Transfer : DOMAIN heard[x] \subseteq Legs /\ heard[x] \in [DOMAIN heard[x] -> Int]
  BY DEF RoundsInv, Settled, HeardOf
<1> QED BY <1>1, <1>2, <1>3 DEF TypeOK, BooksOk, RoundsInv

LEMMA InitRounds ==
  ASSUME Init
  PROVE  RoundsInv({}) /\ BooksOk /\ Posts = {} /\ \A k \in Requesting : ~IsDone(k[1], k[2], k[3])
<1>1. /\ queue = [c \in Context |-> <<>>] /\ sending = [c \in Context |-> <<>>]
      /\ round = [x \in Transfer |-> "unsent"] /\ heard = [x \in Transfer |-> Nothing]
      /\ accounts = Nothing /\ opened = Nothing /\ unsent = Setup
  BY DEF Init
<1>2. DOMAIN Nothing = {} /\ Nothing \in [{} -> Int]
  BY DEF Nothing
<1>3. BooksOk
  BY <1>1, <1>2 DEF BooksOk
<1>4. Tidy(queue)
  <2>1. <<>> \in Seq(Events) /\ DOMAIN <<>> = {}
    OBVIOUS
  <2>2. NoRepeat(<<>>) /\ InOrder(<<>>)
    BY <2>1 DEF NoRepeat, InOrder
  <2> QED BY <1>1, <2>1, <2>2 DEF Tidy
<1>5. Outs(sending)
  BY <1>1 DEF Outs
<1>6. Posts = {}
  <2>1. Queued(queue) = {}
    BY <1>1, NoMessage DEF Queued
  <2>2. ToSend(sending) = {}
    BY <1>1, NoMessage DEF ToSend
  <2> QED BY <2>1, <2>2 DEF Posts
<1>7. Destined
  <2> SUFFICES ASSUME NEW c \in Context, NEW m \in Message, sending[c] = <<m>> PROVE FALSE
    BY DEF Destined
  <2> QED BY <1>1, OneMessage
<1>8. Settled({}, round, heard)
  <2>1. Present({}, round, heard)
    BY <1>1, TypesDiffer DEF Present, Owed
  <2>2. \A x \in Transfer : HeardOf(x, round, heard)
    BY <1>1, <1>2 DEF HeardOf, Legs
  <2> QED BY <2>1, <2>2 DEF Settled, OneEach
<1>9. round \in [Transfer -> Awaits] /\ DOMAIN heard = Transfer /\ heard = [x \in Transfer |-> heard[x]]
  BY <1>1 DEF Awaits
<1>10. RoundsInv({})
  <2>1. Posts \cup {} = {} /\ {} \subseteq Waiting
    BY <1>6
  <2> QED BY <1>4, <1>5, <1>7, <1>8, <1>9, <2>1 DEF RoundsInv, Mailed
<1>11. ASSUME NEW k \in Requesting PROVE ~IsDone(k[1], k[2], k[3])
  <2>1. k[1] \in Range(Rounds) /\ k[2] \in Transfer
    BY DEF Requesting
  <2>2. round[k[2]] = "unsent"
    BY <1>1, <2>1
  <2> QED BY <2>1, <2>2, NextRound, TypesDiffer DEF IsDone, Done
<1> QED BY <1>3, <1>6, <1>10, <1>11

\* A transfer that is past round r is past it for both its legs, one that has
\* not come to it for none.
LEMMA DoneByRound ==
  ASSUME NEW W, RoundsInv(W), NEW r \in Range(Rounds), NEW x \in Transfer, NEW l \in Legs
  PROVE  /\ round[x] = "complete" => IsDone(r, x, l)
         /\ round[x] = r /\ IsDone(r, x, l) /\ DOMAIN heard[x] = {} => Answer(Posts, r, x, l)
         /\ Earlier(r, round[x]) => IsDone(r, x, l)
         /\ IsDone(r, x, l) => round[x] = r \/ Earlier(r, round[x]) \/ round[x] = "complete"
  BY NextRound, TypesDiffer DEF IsDone, Done

\* Of a request that must be answered and is not, it is waiting somewhere.
LEMMA PendingRequest ==
  ASSUME NEW W, RoundsInv(W), NEW r \in Range(Rounds), r # "Get",
         NEW x \in Transfer, NEW l \in Legs, round[x] = r, ~IsDone(r, x, l)
  PROVE  \E p \in Posts \cup W : p.event.type = r /\ p.event.id = x /\ p.event.leg = l
<1>1. l \notin DOMAIN heard[x] /\ ~Answer(Posts, r, x, l)
  BY DEF IsDone, Done
<1>2. Owed(x, l, round, heard)
  BY <1>1 DEF Owed
<1>3. PICK p \in Posts \cup W : Key(p.event) = <<x, l>>
  BY <1>2 DEF RoundsInv, Settled, Present
<1>4. Fits(p, round, heard) /\ p.event \in Events /\ Keyed(p.event)
  BY PostFacts DEF Fits
<1>5. p.event.type # "TransferMoney" /\ p.event.id = x /\ p.event.leg = l
  BY <1>3, <1>4 DEF Key, Legs
<1>6. p.event.type \notin Range(Response)
  <2> SUFFICES ASSUME p.event.type \in Range(Response) PROVE FALSE
    OBVIOUS
  <2>1. p.event.type = Response[r]
    BY <1>4, <1>5 DEF Fits
  <2>2. p \in Posts
    BY <1>4, PostFacts DEF Fits
  <2> QED BY <1>1, <1>5, <2>1, <2>2 DEF Answer
<1>7. p.event.type \in Range(Rounds)
  BY <1>4, <1>5, <1>6, EventKinds
<1> QED BY <1>4, <1>5, <1>7 DEF Fits

\* The database handles the Set of the source account first.
LEMMA DebitFirst ==
  ASSUME NEW W, RoundsInv(W), \A p \in W : p.event.type # "Set",
         H!Takes(BankDB, "Set"), Head(queue[BankDB]).leg = "credit"
  PROVE  IsDone("Set", Head(queue[BankDB]).id, "debit")
<1> DEFINE h == Head(queue[BankDB])
           x == h.id
<1>1. /\ "Set" \in Range(Rounds) /\ queue[BankDB] # <<>> /\ h.type = "Set" /\ x \in Transfer
      /\ h \in Events /\ round[x] = "Set" /\ h.leg = "credit"
  <2>1. "Set" \in Range(Rounds)
    BY RoundKinds
  <2> QED BY <2>1, RequestHead
<1>n. h = Head(queue[BankDB])
  OBVIOUS
<1> HIDE DEF h
<1> SUFFICES ASSUME ~IsDone("Set", x, "debit") PROVE FALSE
  BY <1>n
<1>2. "debit" \in Legs
  BY DEF Legs
<1>3. PICK p \in Posts \cup W : p.event.type = "Set" /\ p.event.id = x /\ p.event.leg = "debit"
  BY <1>1, <1>2, PendingRequest
<1>4. p \in Posts /\ Fits(p, round, heard)
  BY <1>3, PostFacts
<1>5. p.kind = "queue" /\ p.at = BankDB
  BY <1>1, <1>3, <1>4, PostFacts DEF Fits
<1>6. p.event \in Range(queue[BankDB])
  BY <1>4, <1>5 DEF Posts, Queued, ToSend
<1>7. Precedes(p.event, h)
  BY <1>1, <1>3 DEF Precedes
<1>8. Tidy(queue) /\ BankDB \in Context
  BY ContextKinds DEF RoundsInv, Mailed
<1>9. /\ \A f \in Range(queue[BankDB]) : f = h \/ f \in Range(Tail(queue[BankDB]))
      /\ \A f \in Range(Tail(queue[BankDB])) : ~Precedes(f, h)
  <2>1. queue[BankDB] \in Seq(Events) /\ NoRepeat(queue[BankDB]) /\ InOrder(queue[BankDB])
    BY <1>8 DEF Tidy
  <2> QED BY <1>1, <1>n, <2>1, TailTidy
<1> QED BY <1>1, <1>3, <1>6, <1>7, <1>9

-----------------------------------------------------------------------------
(* What tellers know of balances: S is a set of <<x, l, v>>, where v is a  *)
(* balance that the account of leg l of x has or has had.  A GetResponse   *)
(* carries such a v and a Set the sum of one and the amount of the leg.    *)
(* A Lock carries nothing.                                                 *)

AllLegs == Transfer \X Legs

PostIn(p, S) ==
  LET e == p.event IN
    /\ e.type = "Lock" => e.amt = 0
    /\ e.type = "GetResponse" => <<e.id, e.leg, e.amt>> \in S
    /\ e.type = "Set" =>
         \E v \in Int : <<e.id, e.leg, v>> \in S /\ e.amt = v + LegAmt(e.id, e.leg)

HeardIn(x, rd, hd, S) == rd[x] = "Get" => \A l \in DOMAIN hd[x] : <<x, l, hd[x][l]>> \in S

Known(P, rd, hd, S) ==
  /\ \A p \in P : PostIn(p, S)
  /\ \A x \in Transfer : HeardIn(x, rd, hd, S)

KnownIn(S) == Known(Posts, round, heard, S)

LEMMA KnownMoved ==
  ASSUME NEW P, NEW rd, NEW hd, NEW S, Known(P, rd, hd, S), NEW p \in P, NEW q, q.event = p.event
  PROVE  Known((P \ {p}) \cup {q}, rd, hd, S)
  BY DEF Known, PostIn

LEMMA KnownLess ==
  ASSUME NEW P, NEW rd, NEW hd, NEW S, Known(P, rd, hd, S), NEW Q, Q \subseteq P
  PROVE  Known(Q, rd, hd, S)
  BY DEF Known

LEMMA KnownMore ==
  ASSUME NEW P, NEW rd, NEW hd, NEW S, Known(P, rd, hd, S), NEW q, PostIn(q, S)
  PROVE  Known(P \cup {q}, rd, hd, S)
  BY DEF Known

LEMMA KnownBegun ==
  ASSUME NEW W, RoundsInv(W), NEW S, KnownIn(S), NEW x \in Transfer, SendTransferMoney(x)
  PROVE  Known(Posts', round', heard', S)
<1>1. PICK q : Posts' = Posts \cup {q} /\ q.event = [type |-> "TransferMoney", id |-> x]
  BY TransferSent
<1>2. PostIn(q, S)
  BY <1>1 DEF PostIn
<1>3. Known(Posts \cup {q}, round, heard, S)
  BY <1>2, KnownMore DEF KnownIn
<1>4. round' = [round EXCEPT ![x] = "TransferMoney"] /\ heard' = heard
  BY DEF SendTransferMoney
<1>5. \A y \in Transfer : HeardIn(y, round', heard', S)
  BY <1>3, <1>4 DEF RoundsInv, Known, HeardIn
<1> QED BY <1>1, <1>3, <1>5 DEF Known

LEMMA KnownStarted ==
  ASSUME NEW W, RoundsInv(W), NEW S, KnownIn(S), NEW t, NEW x \in Transfer, NEW answers,
         round[x] \in Range(Rounds) \cup {"TransferMoney"}, Starts(t, x, answers),
         round[x] = "Get" => answers \in [Legs -> Int] /\ \A l \in Legs : <<x, l, answers[l]>> \in S
  PROVE  Known(Posts', round', heard', S)
<1>1. PICK Q : Sends(round[x], x, answers, Q) /\ Posts' = (Posts \ {HeadPost(t)}) \cup Q
  BY DEF Starts
<1>2. round' = [round EXCEPT ![x] = After(round[x])] /\ heard' = [heard EXCEPT ![x] = Nothing]
  BY DEF Starts
<1>3. \A y \in Transfer : HeardIn(y, round', heard', S)
  BY <1>2 DEF RoundsInv, KnownIn, Known, HeardIn, Nothing
<1>4. ASSUME NEW q \in Q PROVE PostIn(q, S)
  <2>1. PICK l \in Legs : q.event = RequestOf(After(round[x]), x, l, answers)
    BY <1>1, <1>4 DEF Sends, Legs
  <2>2. After(round[x]) \in Range(Rounds)
    BY <1>1, <1>4, RoundKinds DEF Sends
  <2>3. CASE After(round[x]) # "Set"
    <3>1. After(round[x]) # "GetResponse"
      BY <2>2, RoundKinds
    <3>2. q.event.amt = 0 /\ q.event.type = After(round[x])
      BY <2>1, <2>3 DEF RequestOf, Amts
    <3> QED BY <2>3, <3>1, <3>2 DEF PostIn
  <2>4. CASE After(round[x]) = "Set"
    <3>1. <<x, l, answers[l]>> \in S /\ answers[l] \in Int
      BY <2>4, SetAfterGet
    <3>2. q.event.type = "Set" /\ q.event.id = x /\ q.event.leg = l /\ q.event.amt = answers[l] + LegAmt(x, l)
      BY <2>1, <2>4 DEF RequestOf, Amts
    <3> QED BY <3>1, <3>2 DEF PostIn
  <2> QED BY <2>3, <2>4
<1> QED BY <1>1, <1>3, <1>4 DEF Known, KnownIn

LEMMA KnownHeard ==
  ASSUME NEW W, RoundsInv(W), NEW S, KnownIn(S), NEW t \in Teller, OnResponse(t)
  PROVE  Known(Posts', round', heard', S)
<1> DEFINE h == Head(queue[t])
           x == h.id
           answers == WithEntry(heard[x], h.leg, h.amt)
<1>1. /\ h.id \in Transfer /\ h.leg \in Legs /\ h.amt \in Int
      /\ round[h.id] \in Range(Rounds) /\ h.type = Response[round[h.id]]
      /\ HeadPost(t) \in Posts /\ HeadPost(t).event = h
  BY ResponseHead
<1>2. \/ /\ DOMAIN answers # Legs /\ round' = round
         /\ heard' = [heard EXCEPT ![x] = answers]
         /\ Posts' = Posts \ {HeadPost(t)}
      \/ DOMAIN answers = Legs /\ Starts(t, x, answers)
  BY ResponseHandled
<1> HIDE DEF h
<1>3. HeardOf(x, round, heard)
  BY <1>1 DEF RoundsInv, Settled
<1>4. ASSUME round[x] = "Get"
      PROVE  answers \in [DOMAIN answers -> Int] /\ \A l \in DOMAIN answers : <<x, l, answers[l]>> \in S
  <2>1. <<x, h.leg, h.amt>> \in S
    BY <1>1, <1>4, ResponseKinds DEF KnownIn, Known, PostIn
  <2>2. HeardIn(x, round, heard, S)
    BY <1>1 DEF KnownIn, Known
  <2> QED BY <1>1, <1>3, <1>4, <2>1, <2>2 DEF HeardIn, HeardOf, WithEntry
<1> HIDE DEF answers
<1>5. CASE DOMAIN answers # Legs
  <2>1. /\ round' = round /\ heard' = [heard EXCEPT ![x] = answers]
        /\ Posts' = Posts \ {HeadPost(t)}
    BY <1>2, <1>5
  <2>2. \A y \in Transfer : HeardIn(y, round', heard', S)
    BY <1>4, <2>1 DEF RoundsInv, KnownIn, Known, HeardIn
  <2> QED BY <2>1, <2>2 DEF Known, KnownIn
<1>6. CASE DOMAIN answers = Legs
  <2>1. Starts(t, x, answers)
    BY <1>2, <1>6
  <2>2. round[x] = "Get" => answers \in [Legs -> Int] /\ \A l \in Legs : <<x, l, answers[l]>> \in S
    BY <1>4, <1>6
  <2>3. x \in Transfer /\ round[x] \in Range(Rounds) \cup {"TransferMoney"}
    BY <1>1
  <2> HIDE DEF x
  <2> QED BY <2>1, <2>2, <2>3, KnownStarted
<1> QED BY <1>5, <1>6

LEMMA KnownAtStart ==
  ASSUME NEW W, RoundsInv(W), NEW S, KnownIn(S), NEW t \in Teller, OnTransferMoney(t)
  PROVE  Known(Posts', round', heard', S)
<1> DEFINE x == Head(queue[t]).id
<1>1. x \in Transfer /\ round[x] = "TransferMoney" /\ Starts(t, x, Nothing)
  BY TransferStarted
<1> HIDE DEF x
<1> QED BY <1>1, KnownStarted

LEMMA KnownContinued ==
  ASSUME NEW W, RoundsInv(W), NEW S, KnownIn(S), NEW c \in Context, Continue(c)
  PROVE  Known(Posts', round', heard', S)
<1>1. PICK p, q : p \in Posts /\ Posts' = (Posts \ {p}) \cup {q} /\ q.event = p.event
  BY Continued
<1>2. round' = round /\ heard' = heard
  BY DEF Continue, tellers
<1> QED BY <1>1, <1>2, KnownMoved DEF KnownIn

LEMMA KnownReplied ==
  ASSUME NEW W, RoundsInv(W), NEW S, KnownIn(S),
         NEW r \in Range(Rounds), H!Takes(BankDB, r), NEW amt \in Int,
         H!Handle(BankDB, <<Reply(Head(queue[BankDB]), amt)>>), UNCHANGED tellers,
         r = "Get" => <<Head(queue[BankDB]).id, Head(queue[BankDB]).leg, amt>> \in S
  PROVE  Known(Posts', round', heard', S)
<1> DEFINE h == Head(queue[BankDB])
<1>1. PICK q : Posts' = (Posts \ {HeadPost(BankDB)}) \cup {q} /\ q.event = Responding(h, amt)
  BY Replied
<1>2. h.type = r
  BY RequestHead
<1>3. round' = round /\ heard' = heard
  BY DEF tellers
<1>4. PostIn(q, S)
  <2>1. q.event.type = Response[r] /\ q.event.id = h.id /\ q.event.leg = h.leg /\ q.event.amt = amt
    BY <1>1, <1>2 DEF Responding
  <2>2. Response[r] = "GetResponse" => r = "Get"
    BY RoundKinds, ResponseKinds DEF Requested
  <2>3. Response[r] # "Set" /\ Response[r] # "Lock"
    BY RoundKinds, ResponseKinds DEF Requested
  <2> QED BY <2>1, <2>2, <2>3 DEF PostIn
<1>5. Known(Posts \ {HeadPost(BankDB)}, round, heard, S)
  BY KnownLess DEF KnownIn
<1> QED BY <1>1, <1>3, <1>4, <1>5, KnownMore
=============================================================================
