------------------------- MODULE BankDeadlock_proofs -------------------------
(***************************************************************************)
(* Proofs that the locks of BankDeadlock are exclusive, that it implements *)
(* Bank because they are, and that it conserves money because Bank does.   *)
(***************************************************************************)
EXTENDS BankDeadlock, BankRounds_proofs, FiniteSetTheorems, WellFoundedInduction

BP == INSTANCE Bank_proofs WITH stage <- [x \in Transfer |-> Stage(x)]

-----------------------------------------------------------------------------
(* The lock table.                                                         *)

LockEvents == [type : {"Lock"}, id : Transfer, leg : Legs, amt : {0}]

WaitingAt(a, e) == [kind |-> "waiting", at |-> a, event |-> e]

\* The requests that wait in lock table L, as posts.
LockPosts(L) ==
  {p \in [kind : {"waiting"}, at : Account, event : LockEvents] :
     p.at \in DOMAIN L /\ p.event \in Range(L[p.at])}

TableOk(L) ==
  /\ DOMAIN L \subseteq Account /\ L = [a \in DOMAIN L |-> L[a]]
  /\ \A a \in DOMAIN L :
       /\ L[a] \in Seq(LockEvents) /\ NoRepeat(L[a])
       /\ \A e \in Range(L[a]) : AccountOf(e) = a

LEMMA LockKinds ==
  /\ {"Lock", "Get", "Set", "Unlock"} = Range(Rounds)
  /\ LockEvents \subseteq Events
  /\ \A e \in LockEvents : /\ Keyed(e) /\ e.type = "Lock" /\ e.id \in Transfer /\ e.leg \in Legs
                           /\ e.amt = 0 /\ Key(e) = <<e.id, e.leg>> /\ AccountOf(e) \in Account
                           /\ \A f : ~Precedes(e, f) /\ ~Precedes(f, e)
  /\ After("TransferMoney") = "Lock" /\ After("Lock") = "Get" /\ After("Get") = "Set"
  /\ After("Set") = "Unlock" /\ After("Unlock") = "complete"
<1>1. {"Lock", "Get", "Set", "Unlock"} = Range(Rounds)
  BY DeadlockRounds, LockRounds
<1>2. LockEvents \subseteq Events
  BY <1>1 DEF LockEvents, Events
<1>3. ASSUME NEW e \in LockEvents
      PROVE  /\ Keyed(e) /\ e.type = "Lock" /\ e.id \in Transfer /\ e.leg \in Legs
             /\ e.amt = 0 /\ Key(e) = <<e.id, e.leg>> /\ AccountOf(e) \in Account
             /\ \A f : ~Precedes(e, f) /\ ~Precedes(f, e)
  BY BankAssumption DEF LockEvents, Keyed, Key, AccountOf, LegAccount, Precedes
<1> QED BY <1>1, <1>2, <1>3, DeadlockRounds, LockRounds

LEMMA LockPostsWait ==
  ASSUME NEW L PROVE LockPosts(L) \subseteq Waiting
  BY LockKinds DEF LockPosts, Waiting

LEMMA InTable ==
  ASSUME NEW L, TableOk(L), NEW a \in DOMAIN L, NEW e \in Range(L[a])
  PROVE  WaitingAt(a, e) \in LockPosts(L) /\ e \in LockEvents
<1>1. e \in LockEvents /\ a \in Account
  BY SeqFacts DEF TableOk
<1> QED BY <1>1 DEF LockPosts, WaitingAt

\* A request waits for account a, its own.
LEMMA TableWaits ==
  ASSUME NEW L, TableOk(L), NEW e \in LockEvents, NEW a \in DOMAIN L, AccountOf(e) = a,
         \A p \in LockPosts(L) : Key(p.event) # Key(e)
  PROVE  LET M == [L EXCEPT ![a] = Append(@, e)]
         IN  /\ TableOk(M) /\ DOMAIN M = DOMAIN L
             /\ LockPosts(M) = LockPosts(L) \cup {WaitingAt(a, e)}
<1> DEFINE M == [L EXCEPT ![a] = Append(@, e)]
<1>1. /\ DOMAIN M = DOMAIN L /\ M[a] = Append(L[a], e) /\ \A b \in DOMAIN L : b # a => M[b] = L[b]
      /\ M = [b \in DOMAIN M |-> M[b]]
  BY DEF TableOk
<1> HIDE DEF M
<1>2. /\ L[a] \in Seq(LockEvents) /\ NoRepeat(L[a]) /\ DOMAIN L \subseteq Account
      /\ \A b \in DOMAIN L : \A f \in Range(L[b]) : f \in LockEvents /\ AccountOf(f) = b
  BY InTable DEF TableOk
<1>3. M[a] \in Seq(LockEvents) /\ Range(M[a]) = Range(L[a]) \cup {e}
  BY <1>1, <1>2, AppendFacts
<1>4. NoRepeat(M[a])
  <2>1. L[a] \in Seq(Events) /\ e \in Events /\ InOrder(L[a])
    <3>1. L[a] \in Seq(Events) /\ e \in Events
      BY <1>2, LockKinds
    <3>2. \A i \in DOMAIN L[a] : L[a][i] \in LockEvents
      BY <1>2 DEF Range
    <3> QED BY <3>1, <3>2, LockKinds DEF InOrder
  <2>2. \A f \in Range(L[a]) : /\ Keyed(e) /\ Keyed(f) => Key(f) # Key(e)
                               /\ ~Precedes(e, f)
    <3> SUFFICES ASSUME NEW f \in Range(L[a]) PROVE Key(f) # Key(e) /\ ~Precedes(e, f)
      OBVIOUS
    <3>1. WaitingAt(a, f) \in LockPosts(L) /\ WaitingAt(a, f).event = f
      BY InTable DEF WaitingAt
    <3> QED BY <3>1, LockKinds
  <2>3. NoRepeat(Append(L[a], e))
    BY <1>2, <2>1, <2>2, AppendTidy
  <2> QED BY <1>1, <2>3
<1>5. TableOk(M)
  BY <1>1, <1>2, <1>3, <1>4 DEF TableOk
<1>6. ASSUME NEW p PROVE p \in LockPosts(M) <=> p \in LockPosts(L) \/ p = WaitingAt(a, e)
  <2>1. CASE p \in [kind : {"waiting"}, at : Account, event : LockEvents]
    <3>1. p = WaitingAt(a, e) <=> p.at = a /\ p.event = e
      BY <2>1 DEF WaitingAt
    <3> QED BY <1>1, <1>3, <2>1, <3>1 DEF LockPosts
  <2>2. CASE p \notin [kind : {"waiting"}, at : Account, event : LockEvents]
    BY <1>2, <2>2 DEF LockPosts, WaitingAt
  <2> QED BY <2>1, <2>2
<1>7. LockPosts(M) = LockPosts(L) \cup {WaitingAt(a, e)}
  BY <1>6
<1> QED BY <1>1, <1>5, <1>7 DEF M

LEMMA TableLocks ==
  ASSUME NEW L, TableOk(L), NEW a \in Account, a \notin DOMAIN L
  PROVE  LET M == WithEntry(L, a, <<>>)
         IN TableOk(M) /\ DOMAIN M = DOMAIN L \cup {a} /\ LockPosts(M) = LockPosts(L)
<1> DEFINE M == WithEntry(L, a, <<>>)
<1>1. /\ DOMAIN M = DOMAIN L \cup {a} /\ M[a] = <<>> /\ \A b \in DOMAIN L : M[b] = L[b]
      /\ M = [b \in DOMAIN M |-> M[b]]
  BY DEF WithEntry
<1> HIDE DEF M
<1>2. <<>> \in Seq(LockEvents) /\ NoRepeat(<<>>) /\ Range(<<>>) = {}
  BY NoMessage DEF NoRepeat
<1>3. TableOk(M)
  BY <1>1, <1>2 DEF TableOk
<1>4. LockPosts(M) = LockPosts(L)
  BY <1>1, <1>2 DEF LockPosts
<1> QED BY <1>1, <1>3, <1>4 DEF M

LEMMA TableFrees ==
  ASSUME NEW L, TableOk(L), NEW a \in DOMAIN L, L[a] = <<>>
  PROVE  LET M == WithoutEntry(L, a)
         IN TableOk(M) /\ DOMAIN M = DOMAIN L \ {a} /\ LockPosts(M) = LockPosts(L)
<1> DEFINE M == WithoutEntry(L, a)
<1>1. /\ DOMAIN M = DOMAIN L \ {a} /\ \A b \in DOMAIN M : M[b] = L[b]
      /\ M = [b \in DOMAIN M |-> M[b]]
  BY DEF WithoutEntry
<1> HIDE DEF M
<1>3. TableOk(M)
  BY <1>1 DEF TableOk
<1>4. LockPosts(M) = LockPosts(L)
  BY <1>1, NoMessage DEF LockPosts
<1> QED BY <1>1, <1>3, <1>4 DEF M

\* The first request that waits for account a is granted.
LEMMA TableHands ==
  ASSUME NEW L, TableOk(L), NEW a \in DOMAIN L, L[a] # <<>>
  PROVE  LET M == [L EXCEPT ![a] = Tail(@)]
             e == Head(L[a])
         IN  /\ TableOk(M) /\ DOMAIN M = DOMAIN L
             /\ e \in LockEvents /\ AccountOf(e) = a /\ WaitingAt(a, e) \in LockPosts(L)
             /\ LockPosts(M) = LockPosts(L) \ {WaitingAt(a, e)}
<1> DEFINE M == [L EXCEPT ![a] = Tail(@)]
           e == Head(L[a])
<1>1. /\ DOMAIN M = DOMAIN L /\ M[a] = Tail(L[a]) /\ \A b \in DOMAIN L : b # a => M[b] = L[b]
      /\ M = [b \in DOMAIN M |-> M[b]]
  BY DEF TableOk
<1> HIDE DEF M
<1>2. /\ L[a] \in Seq(LockEvents) /\ NoRepeat(L[a]) /\ DOMAIN L \subseteq Account
      /\ \A b \in DOMAIN L : \A f \in Range(L[b]) : f \in LockEvents /\ AccountOf(f) = b
  BY InTable DEF TableOk
<1>3. InOrder(L[a]) /\ L[a] \in Seq(Events) /\ Tail(L[a]) \in Seq(LockEvents)
  <2>1. \A i \in DOMAIN L[a] : L[a][i] \in LockEvents
    BY <1>2 DEF Range
  <2> QED BY <1>2, <2>1, LockKinds DEF InOrder
<1>4. /\ NoRepeat(M[a]) /\ e \in Range(L[a]) /\ Range(M[a]) \subseteq Range(L[a])
      /\ \A f \in Range(L[a]) : f = e \/ f \in Range(M[a])
      /\ \A f \in Range(M[a]) : Keyed(f) /\ Keyed(e) => Key(f) # Key(e)
  BY <1>1, <1>2, <1>3, TailTidy
<1> HIDE DEF e
<1>5. TableOk(M)
  BY <1>1, <1>2, <1>3, <1>4 DEF TableOk
<1>6. e \in LockEvents /\ AccountOf(e) = a /\ WaitingAt(a, e) \in LockPosts(L)
  BY <1>2, <1>4, InTable
<1>7. ASSUME NEW p PROVE p \in LockPosts(M) <=> p \in LockPosts(L) /\ p # WaitingAt(a, e)
  <2>1. CASE p \in [kind : {"waiting"}, at : Account, event : LockEvents]
    <3>1. p = WaitingAt(a, e) <=> p.at = a /\ p.event = e
      BY <2>1 DEF WaitingAt
    <3>2. e \notin Range(M[a])
      BY <1>4, <1>6, LockKinds
    <3> QED BY <1>1, <1>4, <2>1, <3>1, <3>2 DEF LockPosts
  <2>2. CASE p \notin [kind : {"waiting"}, at : Account, event : LockEvents]
    BY <2>2 DEF LockPosts
  <2> QED BY <2>1, <2>2
<1>8. LockPosts(M) = LockPosts(L) \ {WaitingAt(a, e)}
  BY <1>7
<1> QED BY <1>1, <1>5, <1>6, <1>8 DEF M, e

-----------------------------------------------------------------------------
(* The steps of the database that only this bank takes, W being what waits *)
(* before them and M the lock table after them.                            *)

\* A request for a lock that is not free.
LEMMA Deferred ==
  ASSUME NEW W, RoundsInv(W), H!Takes(BankDB, "Lock"), H!Handle(BankDB, <<>>), UNCHANGED tellers,
         NEW h, h = Head(queue[BankDB])
  PROVE  /\ RoundsInv(W \cup {WaitingAt(AccountOf(h), h)})' /\ Answers({})
         /\ Posts' = Posts \ {HeadPost(BankDB)}
         /\ \A p \in W : Key(p.event) # Key(h)
<1> DEFINE p == HeadPost(BankDB)
           q == WaitingAt(AccountOf(h), h)
<1>1. /\ queue[BankDB] # <<>> /\ p \in Posts /\ p.event = h /\ h.type = "Lock" /\ "Lock" \in Range(Rounds)
      /\ h \in Events /\ Keyed(h) /\ h.id \in Transfer /\ h.leg \in Legs
      /\ round[h.id] = "Lock" /\ h.leg \notin DOMAIN heard[h.id]
  <2>1. "Lock" \in Range(Rounds)
    BY LockKinds
  <2> QED BY <2>1, RequestHead
<1>2. round' = round /\ heard' = heard
  BY DEF tellers
<1>3. Mailed' /\ Posts' = Posts \ {p} /\ sending' = sending
  BY <1>1, ConsumeEffect, ContextKinds DEF RoundsInv
<1>4. q.event = h /\ q.kind = "waiting" /\ q.at = AccountOf(h) /\ q \in Waiting
  <2>1. AccountOf(h) \in Account
    BY <1>1, BankAssumption DEF AccountOf, LegAccount
  <2> QED BY <1>1, <2>1 DEF WaitingAt, Waiting
<1> HIDE DEF p, q
<1>5. Fits(q, round, heard)
  BY <1>1, <1>4, TypesDiffer DEF Fits
<1>6. RoundsInv(W \cup {q})'
  <2> DEFINE P == Posts \cup W
  <2>1. Settled(P, round, heard) /\ p \in P /\ Key(q.event) = Key(p.event)
    BY <1>1, <1>4 DEF RoundsInv
  <2> HIDE DEF P
  <2>2. Settled((P \ {p}) \cup {q}, round, heard)
    BY <1>5, <2>1, Replaces
  <2>3. (P \ {p}) \cup {q} = Posts' \cup (W \cup {q})
    BY <1>1, <1>3, PostFacts DEF P
  <2>4. W \cup {q} \subseteq Waiting
    BY <1>4 DEF RoundsInv
  <2> QED BY <1>2, <1>3, <2>2, <2>3, <2>4 DEF RoundsInv, Destined
<1>7. Answers({})
  <2> SUFFICES ASSUME NEW s \in Range(Rounds), NEW y \in Transfer, NEW k \in Legs
               PROVE  IsDone(s, y, k)' <=> IsDone(s, y, k)
    BY DEF Answers, Requesting
  <2>1. Done(Posts \ {p}, round, heard, s, y, k) <=> Done(Posts, round, heard, s, y, k)
    <3>1. p.event.type \notin Range(Response)
      BY <1>1, TypesDiffer
    <3> QED BY <3>1, DoneUnanswered
  <2> QED BY <1>2, <1>3, <2>1 DEF IsDone
<1>8. \A w \in W : Key(w.event) # Key(h)
  BY <1>1, PostFacts DEF RoundsInv, Settled, OneEach
<1> QED BY <1>3, <1>6, <1>7, <1>8 DEF p, q

\* An Unlock is answered, and so is the Lock request w that waits.
LEMMA HandedOver ==
  ASSUME NEW W, RoundsInv(W), H!Takes(BankDB, "Unlock"), UNCHANGED tellers,
         NEW w \in W, w.event \in LockEvents,
         H!Handle(BankDB, <<Reply(Head(queue[BankDB]), 0), Reply(w.event, 0)>>)
  PROVE  LET h == Head(queue[BankDB])
         IN  /\ RoundsInv(W \ {w})'
             /\ Answers({<<"Unlock", h.id, h.leg>>, <<"Lock", w.event.id, w.event.leg>>})
             /\ \E qu, qs : /\ Posts' = (Posts \ {HeadPost(BankDB)}) \cup {qu, qs}
                            /\ qu.event = Responding(h, 0) /\ qs.event = Responding(w.event, 0)
             /\ <<h.id, h.leg>> # <<w.event.id, w.event.leg>>
<1> DEFINE h == Head(queue[BankDB])
           p == HeadPost(BankDB)
           e == Responding(h, 0)
           f == Responding(w.event, 0)
           m == Reply(h, 0)
           n == Reply(w.event, 0)
           qu == Post("queue", TellerOf[h.id], e)
           qs == Post("sending", BankDB, f)
<1>1. /\ queue[BankDB] # <<>> /\ sending[BankDB] = <<>> /\ h \in Events
      /\ h.type = "Unlock" /\ h.id \in Transfer /\ h.leg \in Legs /\ Key(h) = <<h.id, h.leg>>
      /\ p \in Posts /\ p.event = h /\ Fits(p, round, heard) /\ "Unlock" \in Range(Rounds)
      /\ round[h.id] = "Unlock" /\ h.leg \notin DOMAIN heard[h.id]
  <2>1. "Unlock" \in Range(Rounds)
    BY LockKinds
  <2> QED BY <2>1, RequestHead
<1>w. /\ Fits(w, round, heard) /\ w \notin Posts /\ w.kind = "waiting"
      /\ w.event.type = "Lock" /\ w.event.id \in Transfer /\ w.event.leg \in Legs
      /\ "Lock" \in Range(Rounds) /\ Key(w.event) = <<w.event.id, w.event.leg>>
      /\ round[w.event.id] = "Lock" /\ w.event.leg \notin DOMAIN heard[w.event.id]
  <2>1. /\ Fits(w, round, heard) /\ w \notin Posts /\ w.kind = "waiting"
    BY PostFacts
  <2>2. "Lock" \in Range(Rounds)
    BY LockKinds
  <2> QED BY <2>1, <2>2, LockKinds, TypesDiffer DEF Fits
<1>h. H!Handle(BankDB, <<m, n>>)
  OBVIOUS
<1> HIDE DEF h, p
<1>0. PICK z \in Int : z = 0
  OBVIOUS
<1>2. /\ e \in Events /\ Keyed(e) /\ Key(e) = <<h.id, h.leg>>
      /\ e.type = Response["Unlock"] /\ e.id = h.id /\ e.leg = h.leg
      /\ e.type \in Range(Response)
      /\ m \in Message /\ m.to = TellerOf[h.id] /\ m.event = e
  BY <1>0, <1>1, RespondingIs
<1>3. /\ f \in Events /\ Keyed(f) /\ Key(f) = <<w.event.id, w.event.leg>>
      /\ f.type = Response["Lock"] /\ f.id = w.event.id /\ f.leg = w.event.leg
      /\ f.type \in Range(Response)
      /\ n \in Message /\ n.to = TellerOf[w.event.id] /\ n.event = f
  BY <1>0, <1>w, RespondingIs
<1>4. round' = round /\ heard' = heard
  BY DEF tellers
<1> HIDE DEF e, f, m, n
<1>5. /\ qu.event = e /\ qu.kind = "queue" /\ qu.at = TellerOf[h.id]
      /\ qs.event = f /\ qs.kind = "sending" /\ qs.at = BankDB
  BY DEF Post
<1>6. Fits(qu, round, heard) /\ Fits(qs, round, heard)
  BY <1>1, <1>w, <1>2, <1>3, <1>5, TypesDiffer DEF Fits
<1>7. NewTo(Posts \ {p}, e)
  BY <1>1, <1>2, PostFacts, TypesDiffer, RoundKinds DEF NewTo, OneEach, Precedes
<1>8. /\ Mailed' /\ sending' = Filled(sending, BankDB, n)
      /\ Posts' = (Posts \ {p}) \cup {qu, qs}
  <2>1. m.to # BankDB /\ NewTo(Posts \ {HeadPost(BankDB)}, m.event)
    BY <1>1, <1>2, <1>7, ContextKinds DEF p
  <2>2. Mailed /\ BankDB \in Context /\ queue[BankDB] # <<>> /\ sending[BankDB] = <<>>
    BY <1>1, ContextKinds DEF RoundsInv
  <2>3. /\ Mailed' /\ sending' = Filled(sending, BankDB, n)
        /\ Posts' = (Posts \ {HeadPost(BankDB)}) \cup {Post("queue", m.to, m.event),
                                                       Post("sending", BankDB, n.event)}
    BY <1>2, <1>3, <1>h, <2>1, <2>2, AnswersEffect
  <2> QED BY <1>2, <1>3, <2>3 DEF p
<1> HIDE DEF qu, qs
<1>9. Settled(Posts' \cup (W \ {w}), round, heard)
  <2> DEFINE P == Posts \cup W
             Q == (P \ {p}) \cup {qu}
  <2>1. Settled(P, round, heard) /\ p \in P /\ Key(qu.event) = Key(p.event)
    BY <1>1, <1>2, <1>5 DEF RoundsInv
  <2> HIDE DEF P
  <2>2. Settled(Q, round, heard)
    BY <1>6, <2>1, Replaces
  <2>3. w \in Q /\ Key(qs.event) = Key(w.event)
    BY <1>1, <1>w, <1>3, <1>5 DEF P
  <2>4. (Q \ {w}) \cup {qs} = Posts' \cup (W \ {w})
    BY <1>1, <1>w, <1>5, <1>8, PostFacts DEF P
  <2> HIDE DEF Q
  <2>5. Settled((Q \ {w}) \cup {qs}, round, heard)
    BY <1>6, <2>2, <2>3, Replaces
  <2> QED BY <2>4, <2>5
<1>10. RoundsInv(W \ {w})'
  <2>1. Destined'
    <3> SUFFICES ASSUME NEW c \in Context, NEW o \in Message, sending'[c] = <<o>>
                 PROVE  o.to = IF c = BankDB THEN TellerOf[o.event.id] ELSE BankDB
      BY DEF Destined
    <3>1. DOMAIN sending = Context
      BY DEF RoundsInv, Mailed, Outs
    <3>2. CASE c = BankDB
      <4>1. sending'[c] = <<n>>
        BY <1>8, <3>1, <3>2 DEF Filled
      <4>2. o = n
        BY <4>1, OneMessage
      <4> QED BY <1>3, <3>2, <4>2
    <3>3. CASE c # BankDB
      <4>1. sending'[c] = sending[c]
        BY <1>8, <3>1, <3>3 DEF Filled
      <4> QED BY <3>3, <4>1 DEF RoundsInv, Destined
    <3> QED BY <3>2, <3>3
  <2>2. W \ {w} \subseteq Waiting
    BY DEF RoundsInv
  <2> QED BY <1>4, <1>8, <1>9, <2>1, <2>2 DEF RoundsInv
<1>11. Answers({<<"Unlock", h.id, h.leg>>, <<"Lock", w.event.id, w.event.leg>>})
  <2> DEFINE A == {<<"Unlock", h.id, h.leg>>, <<"Lock", w.event.id, w.event.leg>>}
  <2> SUFFICES ASSUME NEW s \in Range(Rounds), NEW y \in Transfer, NEW k \in Legs
               PROVE  IsDone(s, y, k)' <=> IsDone(s, y, k) \/ <<s, y, k>> \in A
    BY DEF Answers, Requesting
  <2> DEFINE P == Posts \cup {w}
             Q == (P \ {p}) \cup {qu}
  <2>1. Done(P, round, heard, s, y, k) <=> Done(Posts, round, heard, s, y, k)
    BY <1>w, DoneUnanswered, TypesDiffer
  <2>2. p \in P
    BY <1>1
  <2> HIDE DEF P
  <2>3. Done(Q, round, heard, s, y, k)
        <=> Done(P, round, heard, s, y, k) \/ (s = "Unlock" /\ y = h.id /\ k = h.leg)
    <3>1. p.event.type = "Unlock" /\ qu.event.type = Response[p.event.type]
          /\ qu.event.id = p.event.id /\ qu.event.leg = p.event.leg
      BY <1>1, <1>2, <1>5
    <3>2. Done((P \ {p}) \cup {qu}, round, heard, s, y, k)
          <=> Done(P, round, heard, s, y, k) \/ (s = p.event.type /\ y = p.event.id /\ k = p.event.leg)
      BY <1>1, <2>2, <3>1, DoneReplied
    <3> QED BY <1>1, <3>2
  <2>4. w \in Q /\ (Q \ {w}) \cup {qs} = Posts'
    BY <1>1, <1>w, <1>5, <1>8 DEF P
  <2> HIDE DEF Q
  <2>5. Done((Q \ {w}) \cup {qs}, round, heard, s, y, k)
        <=> Done(Q, round, heard, s, y, k) \/ (s = "Lock" /\ y = w.event.id /\ k = w.event.leg)
    <3>1. w.event.type = "Lock" /\ qs.event.type = Response[w.event.type]
          /\ qs.event.id = w.event.id /\ qs.event.leg = w.event.leg
      BY <1>w, <1>3, <1>5
    <3>2. Done((Q \ {w}) \cup {qs}, round, heard, s, y, k)
          <=> Done(Q, round, heard, s, y, k) \/ (s = w.event.type /\ y = w.event.id /\ k = w.event.leg)
      BY <1>w, <2>4, <3>1, DoneReplied
    <3> QED BY <1>w, <3>2
  <2> QED BY <1>4, <2>1, <2>3, <2>4, <2>5 DEF IsDone
<1>12. <<h.id, h.leg>> # <<w.event.id, w.event.leg>>
  BY <1>1, <1>w
<1> QED BY <1>5, <1>8, <1>10, <1>11, <1>12 DEF p, h, e, f

-----------------------------------------------------------------------------
(* The invariant.  An account in the lock table has one holder, and what a *)
(* teller knows of a balance is the balance, as it holds the account's     *)
(* lock from the Get to the Set.                                           *)

AccountAt(p) == LegAccount(p[1], p[2])

Held == {p \in AllLegs : IsDone("Lock", p[1], p[2]) /\ ~IsDone("Unlock", p[1], p[2])}

Exclusive(G, L) ==
  /\ \A p, q \in G : AccountAt(p) = AccountAt(q) => p = q
  /\ \A p \in G : AccountAt(p) \in DOMAIN L
  /\ \A a \in DOMAIN L : \E p \in G : AccountAt(p) = a

Balances ==
  {t \in Transfer \X Legs \X Int :
     /\ LegAccount(t[1], t[2]) \in DOMAIN accounts
     /\ t[3] = accounts[LegAccount(t[1], t[2])]}

DebitedFirst == \A x \in Transfer : IsDone("Set", x, "credit") => IsDone("Set", x, "debit")

DeadlockInv ==
  /\ RoundsInv(LockPosts(lockedAccounts))
  /\ TableOk(lockedAccounts)
  /\ BooksOk
  /\ Exclusive(Held, lockedAccounts)
  /\ KnownIn(Balances)
  /\ DebitedFirst

LocksSame == DeadlockInv' /\ Held' = Held

LEMMA RoundOrder ==
  /\ Earlier("Lock", "Get") /\ Earlier("Lock", "Set") /\ Earlier("Lock", "Unlock")
  /\ Earlier("Set", "Unlock")
  /\ \A r : ~Earlier("Unlock", r)
<1>1. Earlier("Lock", "Get") /\ ~Earlier("Unlock", "Lock")
  BY NextRound, LockKinds
<1>2. Earlier("Lock", "Set") /\ ~Earlier("Unlock", "Get")
  BY <1>1, NextRound, LockKinds
<1>3. Earlier("Lock", "Unlock") /\ Earlier("Set", "Unlock") /\ ~Earlier("Unlock", "Set") /\ ~Earlier("Unlock", "Unlock")
  BY <1>1, <1>2, NextRound, LockKinds
<1>4. ASSUME NEW r, Earlier("Unlock", r) PROVE FALSE
  <2>1. r \in Range(Rounds)
    BY <1>4 DEF Earlier, Range
  <2> QED BY <1>1, <1>2, <1>3, <1>4, <2>1, LockKinds
<1> QED BY <1>1, <1>2, <1>3, <1>4

\* Who is between its locks and their release holds both.
LEMMA HoldsBoth ==
  ASSUME NEW W, RoundsInv(W), NEW x \in Transfer, NEW l \in Legs
  PROVE  /\ round[x] \in {"Get", "Set"} => <<x, l>> \in Held
         /\ round[x] = "Unlock" /\ ~IsDone("Unlock", x, l) => <<x, l>> \in Held
         /\ round[x] = "Lock" => ~IsDone("Unlock", x, l)
<1>1. "Lock" \in Range(Rounds) /\ "Unlock" \in Range(Rounds)
  BY LockKinds
<1>2. Earlier("Lock", round[x]) => IsDone("Lock", x, l)
  BY <1>1, DoneByRound
<1>3. IsDone("Unlock", x, l) => round[x] = "Unlock" \/ round[x] = "complete"
  BY <1>1, DoneByRound, RoundOrder
<1> QED BY <1>2, <1>3, RoundOrder DEF Held, AllLegs

LEMMA HeldAfter ==
  ASSUME NEW more, Answers(more), NEW p \in AllLegs
  PROVE  p \in Held' <=> /\ IsDone("Lock", p[1], p[2]) \/ <<"Lock", p[1], p[2]>> \in more
                         /\ ~(IsDone("Unlock", p[1], p[2]) \/ <<"Unlock", p[1], p[2]>> \in more)
<1>1. PICK k \in Requesting : k = <<"Lock", p[1], p[2]>>
  BY LockKinds DEF AllLegs, Requesting
<1>2. PICK j \in Requesting : j = <<"Unlock", p[1], p[2]>>
  BY LockKinds DEF AllLegs, Requesting
<1>3. IsDone(k[1], k[2], k[3])' <=> IsDone(k[1], k[2], k[3]) \/ k \in more
  BY DEF Answers
<1>4. IsDone(j[1], j[2], j[3])' <=> IsDone(j[1], j[2], j[3]) \/ j \in more
  BY DEF Answers
<1> QED BY <1>1, <1>2, <1>3, <1>4 DEF Held

LEMMA HeldSame ==
  ASSUME NEW more, Answers(more), \A k \in more : k[1] \notin {"Lock", "Unlock"}
  PROVE  Held' = Held
<1>1. ASSUME NEW p \in AllLegs PROVE p \in Held' <=> p \in Held
  <2>1. <<"Lock", p[1], p[2]>> \notin more /\ <<"Unlock", p[1], p[2]>> \notin more
    OBVIOUS
  <2> QED BY <2>1, HeldAfter DEF Held
<1> QED BY <1>1 DEF Held

\* Steps that leave the accounts alone and answer no Set.
LEMMA Kept ==
  ASSUME DeadlockInv, NEW V, RoundsInv(V)', NEW M, lockedAccounts' = M, V = LockPosts(M), TableOk(M),
         Exclusive(Held', M), UNCHANGED <<accounts, opened>>, unsent' \subseteq Setup,
         Known(Posts', round', heard', Balances),
         NEW more, Answers(more), \A k \in more : k[1] # "Set"
  PROVE  DeadlockInv'
<1>1. BooksOk'
  BY DEF DeadlockInv, BooksOk
<1>2. Balances' = Balances
  BY DEF Balances
<1>3. DebitedFirst'
  <2> SUFFICES ASSUME NEW x \in Transfer, IsDone("Set", x, "credit")' PROVE IsDone("Set", x, "debit")'
    BY DEF DebitedFirst
  <2>1. "Set" \in Range(Rounds) /\ {"debit", "credit"} = Legs
    BY LockKinds DEF Legs
  <2>2. PICK k \in Requesting : k = <<"Set", x, "credit">>
    BY <2>1 DEF Requesting
  <2>3. PICK j \in Requesting : j = <<"Set", x, "debit">>
    BY <2>1 DEF Requesting
  <2>4. IsDone(k[1], k[2], k[3])' <=> IsDone(k[1], k[2], k[3])
    BY <2>2 DEF Answers
  <2>5. IsDone(j[1], j[2], j[3])' <=> IsDone(j[1], j[2], j[3])
    BY <2>3 DEF Answers
  <2> QED BY <2>2, <2>3, <2>4, <2>5 DEF DeadlockInv, DebitedFirst
<1>4. RoundsInv(LockPosts(lockedAccounts))'
  OBVIOUS
<1>5. Exclusive(Held, lockedAccounts)' /\ TableOk(lockedAccounts)'
  OBVIOUS
<1>6. KnownIn(Balances)'
  BY <1>2 DEF KnownIn
<1> QED BY <1>1, <1>3, <1>4, <1>5, <1>6 DEF DeadlockInv

\* Steps that answer no Lock or Unlock either.
LEMMA QuietKeeps ==
  ASSUME DeadlockInv, NEW W, W = LockPosts(lockedAccounts), RoundsInv(W)',
         UNCHANGED <<accounts, opened, lockedAccounts>>, unsent' \subseteq Setup,
         Known(Posts', round', heard', Balances),
         NEW more, Answers(more), \A k \in more : k[1] = "Get"
  PROVE  LocksSame
<1>1. PICK M : M = lockedAccounts
  OBVIOUS
<1>2. Held' = Held
  BY HeldSame
<1>3. lockedAccounts' = M /\ W = LockPosts(M) /\ TableOk(M) /\ Exclusive(Held', M)
  BY <1>1, <1>2 DEF DeadlockInv
<1>4. \A k \in more : k[1] # "Set"
  OBVIOUS
<1> QED BY <1>2, <1>3, <1>4, Kept DEF LocksSame

(* Where a transfer is in Bank.                                            *)

StageAt(x) ==
  IF round[x] = "complete" THEN "complete"
  ELSE IF IsDone("Set", x, "credit") THEN "credited"
  ELSE IF IsDone("Set", x, "debit") THEN "debited"
  ELSE "pending"

StageOf == [x \in Transfer |-> Stage(x)]

AbstractStep == [BK!Next]_(BK!vars)

LEMMA StageIs == Mailed => \A x \in Transfer : Stage(x) = StageAt(x)
<1> SUFFICES ASSUME Mailed, NEW x \in Transfer PROVE Stage(x) = StageAt(x)
  OBVIOUS
<1>1. "Set" \in Range(Rounds) /\ "credit" \in Legs /\ "debit" \in Legs
  BY LockKinds DEF Legs
<1> QED BY <1>1, AnsweredIsDone DEF Stage, StageAt, IsDone

LEMMA StageWillBe == (Mailed => \A x \in Transfer : Stage(x) = StageAt(x))'
  BY StageIs, PTL

LEMMA SetDone ==
  ASSUME NEW more, Answers(more), NEW x \in Transfer, NEW l \in Legs
  PROVE  IsDone("Set", x, l)' <=> IsDone("Set", x, l) \/ <<"Set", x, l>> \in more
<1>1. PICK k \in Requesting : k = <<"Set", x, l>>
  BY LockKinds DEF Requesting
<1>2. IsDone(k[1], k[2], k[3])' <=> IsDone(k[1], k[2], k[3]) \/ k \in more
  BY DEF Answers
<1> QED BY <1>1, <1>2

LEMMA StageSame ==
  ASSUME Mailed, Mailed', NEW more, Answers(more), NEW x \in Transfer,
         \A l \in Legs : <<"Set", x, l>> \notin more,
         round'[x] = "complete" <=> round[x] = "complete"
  PROVE  Stage(x)' = Stage(x)
<1>1. Stage(x) = StageAt(x) /\ Stage(x)' = StageAt(x)'
  BY StageIs, StageWillBe
<1>2. \A l \in Legs : IsDone("Set", x, l)' <=> IsDone("Set", x, l)
  BY SetDone
<1>3. "credit" \in Legs /\ "debit" \in Legs
  BY DEF Legs
<1>4. StageAt(x)' = StageAt(x)
  BY <1>2, <1>3 DEF StageAt
<1> QED BY <1>1, <1>4

LEMMA QuietStutters ==
  ASSUME Mailed, Mailed', UNCHANGED <<accounts, opened>>, NEW more, Answers(more),
         \A k \in more : k[1] # "Set",
         \A x \in Transfer : round'[x] = "complete" <=> round[x] = "complete"
  PROVE  AbstractStep
<1>1. ASSUME NEW x \in Transfer PROVE Stage(x)' = Stage(x)
  <2>1. \A l \in Legs : <<"Set", x, l>> \notin more
    OBVIOUS
  <2> QED BY <2>1, StageSame
<1> QED BY <1>1 DEF AbstractStep, BK!vars

-----------------------------------------------------------------------------
(* The steps of the customers and of the tellers.                          *)

LEMMA CustomerKeeps ==
  ASSUME DeadlockInv, CustomerStep, UNCHANGED lockedAccounts
  PROVE  LocksSame /\ AbstractStep
<1>0. PICK W : W = LockPosts(lockedAccounts)
  OBVIOUS
<1>1. RoundsInv(W) /\ unsent \subseteq Setup /\ KnownIn(Balances) /\ Mailed
  BY <1>0 DEF DeadlockInv, BooksOk, RoundsInv
<1>2. ASSUME NEW s \in Setup, SendSetupAccount(s) PROVE LocksSame /\ AbstractStep
  <2>1. RoundsInv(W)' /\ Posts' = Posts /\ Answers({})
    BY <1>1, <1>2, SetupSent DEF SendSetupAccount
  <2>2. /\ accounts' = accounts /\ opened' = opened /\ unsent' \subseteq Setup
        /\ round' = round /\ heard' = heard
    BY <1>1, <1>2 DEF SendSetupAccount, tellers
  <2>3. Known(Posts', round', heard', Balances)
    BY <1>1, <2>1, <2>2 DEF KnownIn
  <2>4. LocksSame
    BY <1>0, <2>1, <2>2, <2>3, QuietKeeps
  <2>5. Mailed'
    BY <2>1 DEF RoundsInv
  <2> QED BY <1>1, <2>1, <2>2, <2>4, <2>5, QuietStutters
<1>3. ASSUME NEW x \in Transfer, SendTransferMoney(x) PROVE LocksSame /\ AbstractStep
  <2>1. RoundsInv(W)' /\ Answers({})
    BY <1>1, <1>3, TransferSent
  <2>2. accounts' = accounts /\ opened' = opened /\ unsent' \subseteq Setup
    BY <1>1, <1>3 DEF SendTransferMoney, customers
  <2>3. Known(Posts', round', heard', Balances)
    BY <1>1, <1>3, KnownBegun
  <2>4. LocksSame
    BY <1>0, <2>1, <2>2, <2>3, QuietKeeps
  <2>5. Mailed'
    BY <2>1 DEF RoundsInv
  <2>6. round \in [Transfer -> Awaits] /\ round' = [round EXCEPT ![x] = "TransferMoney"] /\ round[x] = "unsent"
    BY <1>1, <1>3 DEF RoundsInv, SendTransferMoney
  <2>7. \A y \in Transfer : round'[y] = "complete" <=> round[y] = "complete"
    BY <2>6
  <2> QED BY <1>1, <2>1, <2>2, <2>4, <2>5, <2>7, QuietStutters
<1> QED BY <1>2, <1>3 DEF CustomerStep

LEMMA ContinueKeeps ==
  ASSUME DeadlockInv, NEW c \in Context, Continue(c), UNCHANGED lockedAccounts
  PROVE  LocksSame /\ AbstractStep
<1>0. PICK W : W = LockPosts(lockedAccounts)
  OBVIOUS
<1>1. RoundsInv(W) /\ unsent \subseteq Setup /\ KnownIn(Balances) /\ Mailed
  BY <1>0 DEF DeadlockInv, BooksOk, RoundsInv
<1>2. /\ accounts' = accounts /\ opened' = opened /\ unsent' \subseteq Setup /\ round' = round
  BY <1>1 DEF Continue, customers, tellers
<1>3. RoundsInv(W)' /\ Answers({}) /\ Known(Posts', round', heard', Balances)
  BY <1>1, Continued, KnownContinued
<1>4. LocksSame
  BY <1>0, <1>2, <1>3, QuietKeeps
<1>5. Mailed'
  BY <1>3 DEF RoundsInv
<1> QED BY <1>1, <1>2, <1>3, <1>4, <1>5, QuietStutters

LEMMA Completes ==
  ASSUME NEW W, RoundsInv(W), Mailed', UNCHANGED <<accounts, opened>>, Answers({}),
         NEW x \in Transfer, round[x] = "Unlock", round' = [round EXCEPT ![x] = "complete"]
  PROVE  AbstractStep
<1>1. /\ Mailed /\ round \in [Transfer -> Awaits]
      /\ "Set" \in Range(Rounds) /\ "credit" \in Legs /\ "debit" \in Legs
  BY LockKinds DEF RoundsInv, Legs
<1>2. IsDone("Set", x, "credit")
  BY <1>1, DoneByRound, RoundOrder
<1>3. Stage(x) = "credited"
  BY <1>1, <1>2, StageIs DEF StageAt
<1>4. Stage(x)' = "complete"
  <2>1. round'[x] = "complete"
    BY <1>1
  <2>2. StageAt(x)' = "complete"
    BY <2>1 DEF StageAt
  <2> QED BY <2>2, StageWillBe
<1>5. ASSUME NEW y \in Transfer, y # x PROVE Stage(y)' = Stage(y)
  <2>1. round'[y] = round[y]
    BY <1>1, <1>5
  <2> QED BY <1>1, <2>1, StageSame
<1>6. BK!Complete(x)
  BY <1>3, <1>4, <1>5 DEF BK!Complete
<1> QED BY <1>6 DEF AbstractStep, BK!Next

LEMMA StartsStep ==
  ASSUME NEW W, RoundsInv(W), Mailed', UNCHANGED <<accounts, opened>>, Answers({}),
         NEW x \in Transfer, round[x] \in Range(Rounds) \cup {"TransferMoney"},
         round' = [round EXCEPT ![x] = After(round[x])]
  PROVE  AbstractStep
<1>1. Mailed /\ round \in [Transfer -> Awaits]
  BY DEF RoundsInv
<1>2. CASE round[x] = "Unlock"
  BY <1>2, Completes, LockKinds
<1>3. CASE round[x] # "Unlock"
  <2>1. After(round[x]) # "complete" /\ round[x] # "complete"
    BY <1>3, LockKinds
  <2>2. \A y \in Transfer : round'[y] = "complete" <=> round[y] = "complete"
    BY <1>1, <2>1
  <2> QED BY <1>1, <2>2, QuietStutters
<1> QED BY <1>2, <1>3

LEMMA TellerKeeps ==
  ASSUME DeadlockInv, NEW t \in Teller, DeadlockTellerStep(t)
  PROVE  LocksSame /\ AbstractStep
<1>0. PICK W : W = LockPosts(lockedAccounts)
  OBVIOUS
<1>1. RoundsInv(W) /\ unsent \subseteq Setup /\ KnownIn(Balances) /\ Mailed /\ t \in Context
  BY <1>0, ContextKinds DEF DeadlockInv, BooksOk, RoundsInv
<1>2. /\ accounts' = accounts /\ opened' = opened /\ unsent' \subseteq Setup
      /\ lockedAccounts' = lockedAccounts
  BY <1>1 DEF DeadlockTellerStep, TellerStep, OnTransferMoney, OnResponse, Continue, customers
<1>3. CASE Continue(t)
  BY <1>1, <1>2, <1>3, ContinueKeeps
<1>4. CASE OnTransferMoney(t)
  <2>1. RoundsInv(W)' /\ Answers({}) /\ Known(Posts', round', heard', Balances)
    BY <1>1, <1>4, TransferStarted, KnownAtStart
  <2>2. Mailed'
    BY <2>1 DEF RoundsInv
  <2>3. PICK x \in Transfer : round[x] = "TransferMoney" /\ Starts(t, x, Nothing)
    BY <1>1, <1>4, TransferStarted
  <2>4. AbstractStep
    BY <1>1, <1>2, <2>1, <2>2, <2>3, StartsStep DEF Starts
  <2> QED BY <1>0, <1>2, <2>1, <2>4, QuietKeeps
<1>5. CASE OnResponse(t)
  <2>1. RoundsInv(W)' /\ Answers({}) /\ Known(Posts', round', heard', Balances)
    BY <1>1, <1>5, ResponseHandled, KnownHeard
  <2>2. Mailed'
    BY <2>1 DEF RoundsInv
  <2> DEFINE h == Head(queue[t])
             answers == WithEntry(heard[h.id], h.leg, h.amt)
  <2>3. round' = round \/ Starts(t, h.id, answers)
    BY <1>1, <1>5, ResponseHandled
  <2>4. h.id \in Transfer /\ round[h.id] \in Range(Rounds)
    BY <1>1, <1>5, ResponseHead
  <2> HIDE DEF h, answers
  <2>5. AbstractStep
    <3>1. CASE round' = round
      BY <1>1, <1>2, <2>1, <2>2, <3>1, QuietStutters
    <3>2. CASE Starts(t, h.id, answers)
      BY <1>1, <1>2, <2>1, <2>2, <2>4, <3>2, StartsStep DEF Starts
    <3> QED BY <2>3, <3>1, <3>2
  <2> QED BY <1>0, <1>2, <2>1, <2>5, QuietKeeps
<1> QED BY <1>3, <1>4, <1>5 DEF DeadlockTellerStep, TellerStep

-----------------------------------------------------------------------------
(* The steps of the database.                                              *)

LEMMA GetKeeps ==
  ASSUME DeadlockInv, DbGet, UNCHANGED lockedAccounts
  PROVE  LocksSame /\ AbstractStep
<1>0. PICK W : W = LockPosts(lockedAccounts)
  OBVIOUS
<1> DEFINE h == Head(queue[BankDB])
           a == AccountOf(h)
<1>1. RoundsInv(W) /\ unsent \subseteq Setup /\ KnownIn(Balances) /\ "Get" \in Range(Rounds) /\ Mailed
  BY <1>0, RoundKinds DEF DeadlockInv, BooksOk, RoundsInv
<1>2. /\ accounts' = accounts /\ opened' = opened /\ unsent' \subseteq Setup
      /\ round' = round /\ heard' = heard /\ UNCHANGED tellers /\ H!Takes(BankDB, "Get")
      /\ H!Handle(BankDB, IF a \in DOMAIN accounts THEN <<Reply(h, accounts[a])>> ELSE <<>>)
  BY <1>1 DEF DbGet, customers, tellers
<1>3. CASE a \notin DOMAIN accounts
  <2>1. RoundsInv(W)' /\ Answers({}) /\ Posts' = Posts \ {HeadPost(BankDB)}
    <3>1. H!Handle(BankDB, <<>>)
      BY <1>2, <1>3
    <3> QED BY <1>1, <1>2, <3>1, GetDropped
  <2>2. Known(Posts', round', heard', Balances)
    BY <1>1, <1>2, <2>1, KnownLess DEF KnownIn
  <2>3. Mailed'
    BY <2>1 DEF RoundsInv
  <2> HIDE DEF h
  <2>4. LocksSame
    BY <1>0, <1>2, <2>1, <2>2, QuietKeeps
  <2> QED BY <1>1, <1>2, <2>1, <2>3, <2>4, QuietStutters
<1>4. CASE a \in DOMAIN accounts
  <2>1. H!Handle(BankDB, <<Reply(h, accounts[a])>>)
    BY <1>2, <1>4
  <2>2. accounts[a] \in Int /\ h.id \in Transfer /\ h.leg \in Legs
    BY <1>1, <1>2, <1>4, RequestHead DEF DeadlockInv, BooksOk
  <2>3. RoundsInv(W)' /\ Answers({<<"Get", h.id, h.leg>>})
    BY <1>1, <1>2, <2>1, <2>2, Replied
  <2>4. <<h.id, h.leg, accounts[a]>> \in Balances
    BY <1>4, <2>2 DEF Balances, AccountOf
  <2>5. Known(Posts', round', heard', Balances)
    BY <1>1, <1>2, <2>1, <2>2, <2>4, KnownReplied
  <2> DEFINE more == {<<"Get", h.id, h.leg>>}
  <2>6. Mailed' /\ \A k \in more : k[1] = "Get"
    BY <2>3 DEF RoundsInv
  <2> HIDE DEF h, more
  <2>7. Answers(more)
    BY <2>3 DEF more
  <2>8. LocksSame
    BY <1>0, <1>2, <2>3, <2>5, <2>6, <2>7, QuietKeeps
  <2>9. \A k \in more : k[1] # "Set"
    BY <2>6
  <2> QED BY <1>1, <1>2, <2>6, <2>7, <2>8, <2>9, QuietStutters
<1> QED BY <1>3, <1>4

\* What stays when the accounts change: the locks, and what is known of
\* balances that did not change.
LEMMA KeptBooks ==
  ASSUME DeadlockInv, NEW W, W = LockPosts(lockedAccounts), RoundsInv(W)', UNCHANGED lockedAccounts,
         BooksOk', NEW S, Known(Posts', round', heard', S), S \subseteq Balances',
         NEW more, Answers(more), \A k \in more : k[1] \notin {"Lock", "Unlock"}, DebitedFirst'
  PROVE  LocksSame
<1>1. Held' = Held
  BY HeldSame
<1>2. PICK M : M = lockedAccounts
  OBVIOUS
<1>3. lockedAccounts' = M /\ W = LockPosts(M) /\ TableOk(M) /\ Exclusive(Held', M)
  BY <1>1, <1>2 DEF DeadlockInv
<1>4. RoundsInv(LockPosts(lockedAccounts))' /\ TableOk(lockedAccounts)' /\ Exclusive(Held, lockedAccounts)'
  BY <1>3
<1>5. KnownIn(Balances)'
  BY DEF KnownIn, Known, PostIn, HeardIn
<1>6. DeadlockInv'
  BY <1>4, <1>5 DEF DeadlockInv
<1> QED BY <1>1, <1>6 DEF LocksSame

LEMMA DebitedStays ==
  ASSUME DebitedFirst, NEW more, Answers(more),
         \A x \in Transfer : <<"Set", x, "credit">> \in more => IsDone("Set", x, "debit")
  PROVE  DebitedFirst'
<1> SUFFICES ASSUME NEW x \in Transfer, IsDone("Set", x, "credit")' PROVE IsDone("Set", x, "debit")'
  BY DEF DebitedFirst
<1>1. "credit" \in Legs /\ "debit" \in Legs
  BY DEF Legs
<1>2. IsDone("Set", x, "credit") \/ <<"Set", x, "credit">> \in more
  BY <1>1, SetDone
<1>3. IsDone("Set", x, "debit")
  BY <1>2 DEF DebitedFirst
<1> QED BY <1>1, <1>3, SetDone

LEMMA SetupKeeps ==
  ASSUME DeadlockInv, DbSetupAccount, UNCHANGED lockedAccounts
  PROVE  LocksSame /\ AbstractStep
<1>0. PICK W : W = LockPosts(lockedAccounts)
  OBVIOUS
<1>s. PICK s : s = Head(queue[BankDB]).setup
  OBVIOUS
<1> DEFINE a == s.account
<1>1. RoundsInv(W) /\ BooksOk /\ KnownIn(Balances) /\ Mailed /\ DebitedFirst
  BY <1>0 DEF DeadlockInv, RoundsInv
<1>2. RoundsInv(W)' /\ Answers({}) /\ Posts' = Posts /\ s \in Setup /\ a \in Account /\ s.amt \in Int
  BY <1>s, <1>1, SetupHandled, BankAssumption
<1>3. round' = round /\ heard' = heard /\ unsent' = unsent /\ Mailed'
  BY <1>2 DEF DbSetupAccount, tellers, RoundsInv
<1>4. IF a \in DOMAIN accounts THEN UNCHANGED <<accounts, opened>>
      ELSE /\ accounts' = WithEntry(accounts, a, s.amt)
           /\ opened' = WithEntry(opened, a, s.amt)
  BY <1>s DEF DbSetupAccount
<1>5. Known(Posts', round', heard', Balances)
  BY <1>1, <1>2, <1>3 DEF KnownIn
<1>6. CASE a \in DOMAIN accounts
  <2>1. UNCHANGED <<accounts, opened>> /\ unsent' \subseteq Setup
    BY <1>1, <1>3, <1>4, <1>6 DEF BooksOk
  <2>2. LocksSame
    BY <1>0, <1>2, <1>5, <2>1, QuietKeeps
  <2> QED BY <1>1, <1>2, <1>3, <2>1, <2>2, QuietStutters
<1>7. CASE a \notin DOMAIN accounts
  <2>1. /\ accounts' = WithEntry(accounts, a, s.amt) /\ opened' = WithEntry(opened, a, s.amt)
        /\ DOMAIN accounts' = DOMAIN accounts \cup {a}
        /\ \A b \in DOMAIN accounts : accounts'[b] = accounts[b]
    BY <1>1, <1>4, <1>7 DEF WithEntry, BooksOk
  <2>2. BooksOk'
    BY <1>1, <1>2, <1>3, <1>4, <1>7 DEF BooksOk, WithEntry
  <2>3. PICK S : S = Balances
    OBVIOUS
  <2>4. S \subseteq Balances'
    BY <2>1, <2>3 DEF Balances
  <2>5. DebitedFirst'
    BY <1>1, <1>2, DebitedStays
  <2>6. LocksSame
    BY <1>0, <1>2, <1>5, <2>2, <2>3, <2>4, <2>5, KeptBooks
  <2>7. ASSUME NEW x \in Transfer PROVE Stage(x)' = Stage(x)
    BY <1>1, <1>2, <1>3, StageSame
  <2>8. BK!OpenAccount(s)
    BY <1>7, <2>1, <2>7 DEF BK!OpenAccount, BK!WithEntry, WithEntry
  <2> QED BY <1>2, <2>6, <2>8 DEF AbstractStep, BK!Next
<1> QED BY <1>6, <1>7

\* What is known of other accounts than the one that is set: who knows a
\* balance of that one holds its lock, and that is the transfer whose Set
\* it is.
LEMMA KnownOfOthers ==
  ASSUME DeadlockInv, NEW p \in Posts, p.event.type = "Set", NEW q,
         q.event.type = "SetResponse", NEW a, a = LegAccount(p.event.id, p.event.leg)
  PROVE  Known((Posts \ {p}) \cup {q}, round, heard,
               {t \in Balances : LegAccount(t[1], t[2]) # a})
<1> DEFINE S == {t \in Balances : LegAccount(t[1], t[2]) # a}
           x == p.event.id
           l == p.event.leg
<1>0. PICK W : W = LockPosts(lockedAccounts)
  OBVIOUS
<1>1. RoundsInv(W) /\ Exclusive(Held, lockedAccounts) /\ KnownIn(Balances)
  BY <1>0 DEF DeadlockInv
<1>2. /\ x \in Transfer /\ l \in Legs /\ round[x] = "Set" /\ Key(p.event) = <<x, l>>
      /\ OneEach(Posts) /\ p.event \in Events
  <2>1. Fits(p, round, heard) /\ OneEach(Posts) /\ p.event \in Events /\ Keyed(p.event)
    BY <1>1, PostFacts
  <2>2. "Set" \in Range(Rounds)
    BY LockKinds
  <2> QED BY <2>1, <2>2, EventKinds, TypesDiffer DEF Fits, Key
<1>3. <<x, l>> \in Held
  BY <1>1, <1>2, HoldsBoth
<1>4. ASSUME NEW y \in Transfer, NEW k \in Legs, round[y] \in {"Get", "Set"}, <<y, k>> # <<x, l>>
      PROVE  LegAccount(y, k) # a
  <2>1. <<y, k>> \in Held
    BY <1>1, <1>4, HoldsBoth
  <2> QED BY <1>1, <1>3, <1>4, <2>1 DEF Exclusive, AccountAt
<1>5. ASSUME NEW o \in Posts \ {p} PROVE PostIn(o, S)
  <2>1. PostIn(o, Balances) /\ Fits(o, round, heard) /\ o.event \in Events /\ Keyed(o.event)
    BY <1>1, PostFacts DEF KnownIn, Known
  <2>2. CASE o.event.type \in {"GetResponse", "Set"}
    <3>1. o.event.id \in Transfer /\ o.event.leg \in Legs
      BY <2>1, <2>2, EventKinds
    <3>2. round[o.event.id] \in {"Get", "Set"}
      <4>1. "Set" \in Range(Rounds) /\ "GetResponse" \in Range(Response)
        BY LockKinds, ResponseKinds
      <4>2. o.event.type = "Set" => round[o.event.id] = "Set"
        BY <2>1, <4>1 DEF Fits
      <4>3. o.event.type = "GetResponse" => round[o.event.id] = "Get"
        <5>1. SUFFICES ASSUME o.event.type = "GetResponse" PROVE round[o.event.id] = "Get"
          OBVIOUS
        <5>2. round[o.event.id] \in Range(Rounds) /\ Response[round[o.event.id]] = "GetResponse"
          BY <2>1, <4>1, <5>1 DEF Fits
        <5> QED BY <5>2, RoundKinds, ResponseKinds DEF Requested
      <4> QED BY <2>2, <4>2, <4>3
    <3>3. <<o.event.id, o.event.leg>> # <<x, l>>
      <4>1. Key(o.event) = <<o.event.id, o.event.leg>>
        BY <2>2 DEF Key
      <4> QED BY <1>2, <4>1 DEF OneEach
    <3>4. LegAccount(o.event.id, o.event.leg) # a
      BY <1>4, <3>1, <3>2, <3>3
    <3> QED BY <2>1, <3>4 DEF PostIn
  <2>3. CASE o.event.type \notin {"GetResponse", "Set"}
    BY <2>1, <2>3 DEF PostIn
  <2> QED BY <2>2, <2>3
<1>6. PostIn(q, S)
  BY DEF PostIn
<1>7. ASSUME NEW y \in Transfer PROVE HeardIn(y, round, heard, S)
  <2> SUFFICES ASSUME round[y] = "Get", NEW k \in DOMAIN heard[y]
               PROVE  <<y, k, heard[y][k]>> \in S
    BY DEF HeardIn
  <2>1. <<y, k, heard[y][k]>> \in Balances
    BY <1>1 DEF KnownIn, Known, HeardIn
  <2>2. k \in Legs
    BY <1>1 DEF RoundsInv, Settled, HeardOf
  <2> QED BY <1>2, <1>4, <2>1, <2>2
<1> QED BY <1>5, <1>6, <1>7 DEF Known

LEMMA SetKeeps ==
  ASSUME DeadlockInv, DbSet, UNCHANGED lockedAccounts
  PROVE  LocksSame /\ AbstractStep
<1>0. PICK W : W = LockPosts(lockedAccounts)
  OBVIOUS
<1>h. PICK h : h = Head(queue[BankDB])
  OBVIOUS
<1> DEFINE x == h.id
           l == h.leg
           a == LegAccount(x, l)
           more == {<<"Set", x, l>>}
           S == {t \in Balances : LegAccount(t[1], t[2]) # a}
<1>1. /\ RoundsInv(W) /\ BooksOk /\ KnownIn(Balances) /\ Mailed /\ DebitedFirst
      /\ "Set" \in Range(Rounds) /\ \A p \in W : p.event.type # "Set"
  <2>1. \A p \in W : p.event.type = "Lock"
    BY <1>0, LockKinds DEF LockPosts
  <2> QED BY <1>0, <2>1, RoundKinds DEF DeadlockInv, RoundsInv
<1>2. /\ H!Takes(BankDB, "Set") /\ UNCHANGED tellers /\ UNCHANGED customers
      /\ accounts' = IF a \in DOMAIN accounts THEN [accounts EXCEPT ![a] = h.amt] ELSE accounts
      /\ H!Handle(BankDB, <<Reply(Head(queue[BankDB]), 0)>>)
  BY <1>h DEF DbSet, AccountOf, AccountsSet
<1>3. /\ h.type = "Set" /\ x \in Transfer /\ l \in Legs /\ h.amt \in Int
      /\ HeadPost(BankDB) \in Posts /\ HeadPost(BankDB).event = h
      /\ ~IsDone("Set", x, l) /\ round[x] = "Set"
  BY <1>h, <1>1, <1>2, RequestHead
<1>4. PICK v \in Int : <<x, l, v>> \in Balances /\ h.amt = v + LegAmt(x, l)
  BY <1>1, <1>3 DEF KnownIn, Known, PostIn
<1>5. a \in DOMAIN accounts /\ h.amt = accounts[a] + LegAmt(x, l)
  BY <1>4 DEF Balances
<1>6. /\ RoundsInv(W)' /\ Answers(more) /\ round' = round /\ heard' = heard /\ Mailed'
      /\ \E q : /\ Posts' = (Posts \ {HeadPost(BankDB)}) \cup {q}
                /\ q.event.type = "SetResponse"
  <2>1. PICK n \in Int : n = 0
    OBVIOUS
  <2>2. H!Handle(BankDB, <<Reply(Head(queue[BankDB]), n)>>)
    BY <1>2, <2>1
  <2>3. /\ RoundsInv(W)' /\ Answers(more)
        /\ \E q : Posts' = (Posts \ {HeadPost(BankDB)}) \cup {q} /\ q.event = Responding(h, n)
    BY <1>h, <1>1, <1>2, <2>2, Replied
  <2>4. Responding(h, n).type = "SetResponse"
    BY <1>3, ResponseKinds DEF Responding
  <2> QED BY <1>2, <2>3, <2>4 DEF tellers, RoundsInv
<1>7. Known(Posts', round', heard', S)
  <2>1. PICK q : /\ Posts' = (Posts \ {HeadPost(BankDB)}) \cup {q}
                 /\ q.event.type = "SetResponse"
    BY <1>6
  <2>2. PICK p : p = HeadPost(BankDB)
    OBVIOUS
  <2>3. p \in Posts /\ p.event.type = "Set" /\ a = LegAccount(p.event.id, p.event.leg)
    BY <1>3, <2>2
  <2>4. Known((Posts \ {p}) \cup {q}, round, heard, S)
    BY <2>1, <2>3, KnownOfOthers
  <2> QED BY <1>6, <2>1, <2>2, <2>4
<1>8. /\ DOMAIN accounts' = DOMAIN accounts
      /\ accounts' = [accounts EXCEPT ![a] = @ + LegAmt(x, l)]
      /\ \A b \in DOMAIN accounts : b # a => accounts'[b] = accounts[b]
      /\ opened' = opened /\ unsent' = unsent /\ BooksOk'
  <2>1. /\ DOMAIN accounts' = DOMAIN accounts
        /\ \A b \in DOMAIN accounts : b # a => accounts'[b] = accounts[b]
        /\ opened' = opened /\ unsent' = unsent
    BY <1>2, <1>5 DEF customers
  <2>2. BooksOk'
    BY <1>1, <1>2, <1>3, <1>5 DEF BooksOk, customers
  <2> QED BY <1>2, <1>5, <2>1, <2>2
<1>9. l = "credit" => IsDone("Set", x, "debit")
  BY <1>h, <1>1, <1>2, DebitFirst
<1>10. LocksSame
  <2>1. PICK T : T = S
    OBVIOUS
  <2>2. T \subseteq Balances'
    BY <1>8, <2>1 DEF Balances
  <2>3. \A y \in Transfer : <<"Set", y, "credit">> \in more => IsDone("Set", y, "debit")
    BY <1>9
  <2>4. Answers(more) /\ \A k \in more : k[1] \notin {"Lock", "Unlock"}
    BY <1>6
  <2> HIDE DEF more, S
  <2>5. DebitedFirst'
    BY <1>1, <2>3, <2>4, DebitedStays
  <2>6. Known(Posts', round', heard', T)
    BY <1>7, <2>1
  <2> QED BY <1>0, <1>6, <1>8, <2>2, <2>4, <2>5, <2>6, KeptBooks
<1>11. ASSUME NEW y \in Transfer, y # x PROVE Stage(y)' = Stage(y)
  <2>1. \A k \in Legs : <<"Set", y, k>> \notin more
    BY <1>11
  <2> QED BY <1>1, <1>6, <2>1, StageSame
<1>12. \A k \in Legs : IsDone("Set", x, k)' <=> IsDone("Set", x, k) \/ k = l
  <2> SUFFICES ASSUME NEW k \in Legs PROVE IsDone("Set", x, k)' <=> IsDone("Set", x, k) \/ k = l
    OBVIOUS
  <2>1. IsDone("Set", x, k)' <=> IsDone("Set", x, k) \/ <<"Set", x, k>> \in more
    BY <1>3, <1>6, SetDone
  <2> QED BY <2>1
<1>13. /\ Stage(x) = StageAt(x) /\ Stage(x)' = StageAt(x)'
       /\ "debit" \in Legs /\ "credit" \in Legs
       /\ round[x] # "complete" /\ round'[x] # "complete"
  BY <1>1, <1>3, <1>6, StageIs, StageWillBe DEF Legs
<1>14. CASE l = "debit"
  <2>1. ~IsDone("Set", x, "credit") /\ ~IsDone("Set", x, "debit")
    BY <1>1, <1>3, <1>14 DEF DebitedFirst
  <2>2. Stage(x) = "pending"
    BY <1>13, <2>1 DEF StageAt
  <2>3. ~IsDone("Set", x, "credit")' /\ IsDone("Set", x, "debit")'
    BY <1>12, <1>13, <1>14, <2>1
  <2>4. Stage(x)' = "debited"
    BY <1>13, <2>3 DEF StageAt
  <2>5. BK!Debit(x)
    BY <1>3, <1>5, <1>8, <1>11, <1>14, <2>2, <2>4 DEF BK!Debit, BK!AddToAccount, BK!LegAccount, BK!LegAmt, LegAccount, LegAmt
  <2> QED BY <1>3, <1>10, <2>5 DEF AbstractStep, BK!Next
<1>15. CASE l = "credit"
  <2>1. ~IsDone("Set", x, "credit") /\ IsDone("Set", x, "debit")
    BY <1>3, <1>9, <1>15
  <2>2. Stage(x) = "debited"
    BY <1>13, <2>1 DEF StageAt
  <2>3. IsDone("Set", x, "credit")'
    BY <1>12, <1>13, <1>15
  <2>4. Stage(x)' = "credited"
    BY <1>13, <2>3 DEF StageAt
  <2>5. BK!Credit(x)
    BY <1>3, <1>5, <1>8, <1>11, <1>15, <2>2, <2>4 DEF BK!Credit, BK!AddToAccount, BK!LegAccount, BK!LegAmt, LegAccount, LegAmt
  <2> QED BY <1>3, <1>10, <2>5 DEF AbstractStep, BK!Next
<1> QED BY <1>3, <1>14, <1>15 DEF Legs

\* The request at the head of the database's queue, in a step on locks.
LEMMA LockHead ==
  ASSUME DeadlockInv, NEW r \in {"Lock", "Unlock"}, H!Takes(BankDB, r),
         NEW h, h = Head(queue[BankDB])
  PROVE  /\ RoundsInv(LockPosts(lockedAccounts)) /\ TableOk(lockedAccounts)
         /\ unsent \subseteq Setup /\ KnownIn(Balances) /\ Mailed
         /\ Exclusive(Held, lockedAccounts)
         /\ h.id \in Transfer /\ h.leg \in Legs /\ <<h.id, h.leg>> \in AllLegs
         /\ h.type = r /\ round[h.id] = r /\ r \in Range(Rounds)
         /\ ~IsDone("Unlock", h.id, h.leg)
         /\ r = "Lock" => h \in LockEvents
         /\ r = "Unlock" => <<h.id, h.leg>> \in Held
         /\ AccountOf(h) \in Account /\ AccountOf(h) = AccountAt(<<h.id, h.leg>>)
<1>1. /\ RoundsInv(LockPosts(lockedAccounts)) /\ TableOk(lockedAccounts)
      /\ unsent \subseteq Setup /\ KnownIn(Balances) /\ Mailed
      /\ Exclusive(Held, lockedAccounts) /\ r \in Range(Rounds)
  BY LockKinds DEF DeadlockInv, BooksOk, RoundsInv
<1>2. /\ h.type = r /\ h.id \in Transfer /\ h.leg \in Legs /\ h.amt \in Int /\ h \in Events
      /\ HeadPost(BankDB) \in Posts /\ HeadPost(BankDB).event = h /\ round[h.id] = r
      /\ ~IsDone(r, h.id, h.leg)
  BY <1>1, RequestHead
<1>3. ~IsDone("Unlock", h.id, h.leg)
  BY <1>1, <1>2, HoldsBoth
<1>4. r = "Lock" => h \in LockEvents
  <2> SUFFICES ASSUME r = "Lock" PROVE h \in LockEvents
    OBVIOUS
  <2>1. h.amt = 0
    BY <1>1, <1>2 DEF KnownIn, Known, PostIn
  <2>2. h \in [type : Range(Rounds), id : Transfer, leg : Legs, amt : Int]
    BY <1>1, <1>2, TypesDiffer DEF Events
  <2> QED BY <1>2, <2>1, <2>2 DEF LockEvents
<1>5. r = "Unlock" => <<h.id, h.leg>> \in Held
  BY <1>1, <1>2, HoldsBoth
<1>6. AccountOf(h) \in Account /\ AccountOf(h) = AccountAt(<<h.id, h.leg>>)
  BY <1>2, BankAssumption DEF AccountOf, AccountAt, LegAccount
<1> QED BY <1>1, <1>2, <1>3, <1>4, <1>5, <1>6 DEF AllLegs

LEMMA LockKeeps ==
  ASSUME DeadlockInv, DbLock
  PROVE  /\ DeadlockInv' /\ AbstractStep
         /\ \A h : h = Head(queue[BankDB]) =>
              /\ Held' \subseteq Held \cup {<<h.id, h.leg>>}
              /\ AccountOf(h) \in DOMAIN lockedAccounts => Held' = Held
<1>0. PICK L : L = lockedAccounts
  OBVIOUS
<1>h. PICK h : h = Head(queue[BankDB])
  OBVIOUS
<1> DEFINE a == AccountOf(h)
           p == <<h.id, h.leg>>
           W == LockPosts(L)
<1>1. /\ H!Takes(BankDB, "Lock") /\ UNCHANGED <<accounts, opened>> /\ UNCHANGED tellers
      /\ unsent' = unsent /\ round' = round /\ heard' = heard
  BY DEF DbLock, tellers, customers
<1>2. /\ RoundsInv(W) /\ TableOk(L) /\ unsent \subseteq Setup /\ KnownIn(Balances) /\ Mailed
      /\ Exclusive(Held, L) /\ p \in AllLegs /\ h.type = "Lock" /\ "Lock" \in Range(Rounds)
      /\ ~IsDone("Unlock", h.id, h.leg) /\ h \in LockEvents /\ a \in Account /\ a = AccountAt(p)
      /\ h.id \in Transfer /\ h.leg \in Legs
  BY <1>0, <1>h, <1>1, LockHead
<1>3. CASE /\ a \in DOMAIN L
           /\ lockedAccounts' = [L EXCEPT ![a] = Append(@, h)]
           /\ H!Handle(BankDB, <<>>)
  <2>1. PICK M : M = [L EXCEPT ![a] = Append(@, h)]
    OBVIOUS
  <2> HIDE DEF a, W
  <2>2. /\ RoundsInv(W \cup {WaitingAt(a, h)})' /\ Answers({})
        /\ Posts' = Posts \ {HeadPost(BankDB)}
        /\ \A q \in W : Key(q.event) # Key(h)
    BY <1>h, <1>1, <1>2, <1>3, Deferred DEF a, W
  <2>3. TableOk(M) /\ DOMAIN M = DOMAIN L /\ LockPosts(M) = W \cup {WaitingAt(a, h)}
    <3>1. TableOk(L) /\ h \in LockEvents /\ a \in DOMAIN L /\ AccountOf(h) = a
          /\ \A q \in LockPosts(L) : Key(q.event) # Key(h)
      BY <1>2, <1>3, <2>2 DEF a, W
    <3> QED BY <2>1, <3>1, TableWaits DEF W
  <2>4. Held' = Held
    BY <2>2, HeldSame
  <2>5. Exclusive(Held', M)
    BY <1>2, <2>3, <2>4 DEF Exclusive
  <2>6. Known(Posts', round', heard', Balances)
    BY <1>1, <1>2, <2>2, KnownLess DEF KnownIn
  <2>7. Mailed' /\ lockedAccounts' = M
    BY <1>3, <2>1, <2>2 DEF RoundsInv
  <2>8. PICK V : V = LockPosts(M)
    OBVIOUS
  <2>9. RoundsInv(V)' /\ unsent' \subseteq Setup
    BY <1>1, <1>2, <2>2, <2>3, <2>8
  <2>10. DeadlockInv'
    BY <1>1, <2>2, <2>3, <2>5, <2>6, <2>7, <2>8, <2>9, Kept
  <2>11. AbstractStep
    BY <1>1, <1>2, <2>2, <2>7, QuietStutters
  <2> QED BY <1>h, <2>4, <2>10, <2>11
<1>4. CASE /\ a \notin DOMAIN L
           /\ lockedAccounts' = WithEntry(L, a, <<>>)
           /\ H!Handle(BankDB, <<Reply(h, 0)>>)
  <2> DEFINE more == {<<"Lock", h.id, h.leg>>}
  <2>1. PICK M : M = WithEntry(L, a, <<>>)
    OBVIOUS
  <2>n. PICK n \in Int : n = 0
    OBVIOUS
  <2>h. H!Handle(BankDB, <<Reply(Head(queue[BankDB]), n)>>)
    BY <1>h, <1>4, <2>n
  <2>2. RoundsInv(W)' /\ Answers(more)
    BY <1>h, <1>1, <1>2, <2>h, Replied
  <2>3. TableOk(M) /\ DOMAIN M = DOMAIN L \cup {a} /\ LockPosts(M) = W
    BY <1>2, <1>4, <2>1, TableLocks
  <2>4. ASSUME NEW q \in AllLegs PROVE q \in Held' <=> q \in Held \/ q = p
    <3>1. <<"Lock", q[1], q[2]>> \in more <=> q = p
      BY <1>2 DEF AllLegs
    <3>2. <<"Unlock", q[1], q[2]>> \notin more
      OBVIOUS
    <3>3. ~IsDone("Unlock", p[1], p[2])
      BY <1>2
    <3> QED BY <2>2, <3>1, <3>2, <3>3, HeldAfter DEF Held
  <2>5. Held' = Held \cup {p}
    BY <1>2, <2>4 DEF Held
  <2>6. Exclusive(Held', M)
    BY <1>2, <1>4, <2>3, <2>5 DEF Exclusive
  <2>7. Known(Posts', round', heard', Balances)
    BY <1>1, <1>2, <2>h, KnownReplied
  <2>8. Mailed' /\ lockedAccounts' = M /\ \A k \in more : k[1] # "Set"
    BY <1>4, <2>1, <2>2 DEF RoundsInv
  <2> HIDE DEF more, W
  <2>9. PICK V : V = LockPosts(M)
    OBVIOUS
  <2>10. RoundsInv(V)' /\ unsent' \subseteq Setup
    <3>1. V = W
      BY <2>3, <2>9
    <3> QED BY <1>1, <1>2, <2>2, <3>1 DEF W
  <2>11. DeadlockInv'
    BY <1>1, <2>2, <2>3, <2>6, <2>7, <2>8, <2>9, <2>10, Kept
  <2>12. AbstractStep
    BY <1>1, <1>2, <2>2, <2>8, QuietStutters
  <2> QED BY <1>0, <1>h, <1>4, <2>5, <2>11, <2>12
<1> QED BY <1>0, <1>h, <1>3, <1>4 DEF DbLock

LEMMA UnlockFrees ==
  ASSUME DeadlockInv, H!Takes(BankDB, "Unlock"), UNCHANGED <<accounts, opened>>, UNCHANGED tellers,
         unsent' = unsent, NEW h, h = Head(queue[BankDB]), NEW L, L = lockedAccounts,
         NEW a, a = AccountOf(h), a \in DOMAIN L, L[a] = <<>>, lockedAccounts' = WithoutEntry(L, a),
         H!Handle(BankDB, <<Reply(h, 0)>>)
  PROVE  DeadlockInv' /\ AbstractStep /\ Held' \subseteq Held
<1> DEFINE p == <<h.id, h.leg>>
           W == LockPosts(L)
           more == {<<"Unlock", h.id, h.leg>>}
<1>1. /\ RoundsInv(W) /\ TableOk(L) /\ unsent \subseteq Setup /\ KnownIn(Balances) /\ Mailed
      /\ Exclusive(Held, L) /\ p \in AllLegs /\ "Unlock" \in Range(Rounds)
      /\ h.id \in Transfer /\ h.leg \in Legs /\ p \in Held /\ a = AccountAt(p)
      /\ round' = round /\ heard' = heard
  BY LockHead DEF tellers
<1>2. PICK M : M = WithoutEntry(L, a)
  OBVIOUS
<1>n. PICK n \in Int : n = 0
  OBVIOUS
<1>h. H!Handle(BankDB, <<Reply(Head(queue[BankDB]), n)>>)
  BY <1>n
<1>3. RoundsInv(W)' /\ Answers(more)
  BY <1>1, <1>h, Replied
<1>4. TableOk(M) /\ DOMAIN M = DOMAIN L \ {a} /\ LockPosts(M) = W
  BY <1>1, <1>2, TableFrees
<1>5. ASSUME NEW q \in AllLegs PROVE q \in Held' <=> q \in Held /\ q # p
  <2>1. <<"Unlock", q[1], q[2]>> \in more <=> q = p
    BY <1>1 DEF AllLegs
  <2>2. <<"Lock", q[1], q[2]>> \notin more
    OBVIOUS
  <2> QED BY <1>3, <2>1, <2>2, HeldAfter DEF Held
<1>6. Held' = Held \ {p}
  BY <1>5 DEF Held
<1>7. Exclusive(Held', M)
  BY <1>1, <1>4, <1>6 DEF Exclusive
<1>8. Known(Posts', round', heard', Balances)
  <2>1. "Unlock" # "Get"
    OBVIOUS
  <2> QED BY <1>1, <1>h, <2>1, KnownReplied
<1>9. Mailed' /\ lockedAccounts' = M /\ \A k \in more : k[1] # "Set"
  BY <1>2, <1>3 DEF RoundsInv
<1> HIDE DEF more, W
<1>10. PICK V : V = LockPosts(M)
  OBVIOUS
<1>11. RoundsInv(V)' /\ unsent' \subseteq Setup
  <2>1. V = W
    BY <1>4, <1>10
  <2> QED BY <1>1, <1>3, <2>1 DEF W
<1>12. DeadlockInv'
  BY <1>3, <1>4, <1>7, <1>8, <1>9, <1>10, <1>11, Kept
<1>13. AbstractStep
  BY <1>1, <1>3, <1>9, QuietStutters
<1> QED BY <1>6, <1>12, <1>13

LEMMA UnlockHands ==
  ASSUME DeadlockInv, H!Takes(BankDB, "Unlock"), UNCHANGED <<accounts, opened>>, UNCHANGED tellers,
         unsent' = unsent, NEW h, h = Head(queue[BankDB]), NEW L, L = lockedAccounts,
         NEW a, a = AccountOf(h), a \in DOMAIN L, L[a] # <<>>,
         lockedAccounts' = [L EXCEPT ![a] = Tail(@)],
         H!Handle(BankDB, <<Reply(h, 0), Reply(Head(L[a]), 0)>>)
  PROVE  DeadlockInv' /\ AbstractStep /\ Held' \subseteq Held \cup {<<Head(L[a]).id, Head(L[a]).leg>>}
<1>e. PICK e : e = Head(L[a])
  OBVIOUS
<1> DEFINE p == <<h.id, h.leg>>
           o == <<e.id, e.leg>>
           w == WaitingAt(a, e)
           W == LockPosts(L)
           more == {<<"Unlock", h.id, h.leg>>, <<"Lock", e.id, e.leg>>}
<1>1. /\ RoundsInv(W) /\ TableOk(L) /\ unsent \subseteq Setup /\ KnownIn(Balances) /\ Mailed
      /\ Exclusive(Held, L) /\ p \in AllLegs /\ "Unlock" \in Range(Rounds)
      /\ h.id \in Transfer /\ h.leg \in Legs /\ p \in Held /\ a = AccountAt(p) /\ h.type = "Unlock"
      /\ round' = round /\ heard' = heard
  BY LockHead DEF tellers
<1>2. PICK M : M = [L EXCEPT ![a] = Tail(@)]
  OBVIOUS
<1>3. /\ TableOk(M) /\ DOMAIN M = DOMAIN L
      /\ e \in LockEvents /\ AccountOf(e) = a /\ w \in W
      /\ LockPosts(M) = W \ {w}
  BY <1>e, <1>1, <1>2, TableHands
<1>4. /\ e.type = "Lock" /\ e.id \in Transfer /\ e.leg \in Legs /\ o \in AllLegs /\ a = AccountAt(o)
      /\ w.event = e /\ w.event \in LockEvents
  BY <1>3, LockKinds DEF AllLegs, WaitingAt, AccountOf, AccountAt
<1>5. ~IsDone("Unlock", e.id, e.leg)
  <2>1. Fits(w, round, heard) /\ "Lock" \in Range(Rounds)
    BY <1>1, <1>3, PostFacts, LockKinds
  <2>2. round[e.id] = "Lock"
    BY <1>4, <2>1, TypesDiffer DEF Fits
  <2> QED BY <1>1, <1>4, <2>2, HoldsBoth
<1>h. H!Handle(BankDB, <<Reply(Head(queue[BankDB]), 0), Reply(w.event, 0)>>)
  BY <1>e, <1>4
<1> HIDE DEF w, W
<1>6. /\ RoundsInv(W \ {w})' /\ Answers(more) /\ p # o
      /\ \E qu, qs : /\ Posts' = (Posts \ {HeadPost(BankDB)}) \cup {qu, qs}
                     /\ qu.event = Responding(h, 0) /\ qs.event = Responding(e, 0)
  BY <1>1, <1>3, <1>4, <1>h, HandedOver
<1>7. ASSUME NEW q \in AllLegs PROVE q \in Held' <=> (q \in Held /\ q # p) \/ q = o
  <2>1. <<"Unlock", q[1], q[2]>> \in more <=> q = p
    BY <1>1 DEF AllLegs
  <2>2. <<"Lock", q[1], q[2]>> \in more <=> q = o
    BY <1>4 DEF AllLegs
  <2>3. ~IsDone("Unlock", o[1], o[2])
    BY <1>5
  <2> QED BY <1>6, <2>1, <2>2, <2>3, HeldAfter DEF Held
<1>8. Held' = (Held \ {p}) \cup {o}
  BY <1>4, <1>7 DEF Held
<1>9. Exclusive(Held', M)
  <2> HIDE DEF p, o
  <2>1. Exclusive((Held \ {p}) \cup {o}, M)
    BY <1>1, <1>3, <1>4 DEF Exclusive
  <2> QED BY <1>8, <2>1
<1>10. Known(Posts', round', heard', Balances)
  <2>1. PICK qu, qs : /\ Posts' = (Posts \ {HeadPost(BankDB)}) \cup {qu, qs}
                      /\ qu.event = Responding(h, 0) /\ qs.event = Responding(e, 0)
    BY <1>6
  <2>2. qu.event.type = "UnlockResponse" /\ qs.event.type = "LockResponse"
    BY <1>1, <1>4, <2>1, ResponseKinds DEF Responding
  <2>3. PostIn(qu, Balances) /\ PostIn(qs, Balances)
    BY <2>2 DEF PostIn
  <2> QED BY <1>1, <2>1, <2>3 DEF KnownIn, Known
<1>11. Mailed' /\ lockedAccounts' = M /\ \A k \in more : k[1] # "Set"
  BY <1>2, <1>6 DEF RoundsInv
<1>14. Held' \subseteq Held \cup {<<Head(L[a]).id, Head(L[a]).leg>>}
  BY <1>e, <1>8
<1> HIDE DEF more, p, o
<1>12. PICK V : V = LockPosts(M)
  OBVIOUS
<1>13. RoundsInv(V)' /\ unsent' \subseteq Setup
  <2>1. V = W \ {w}
    BY <1>3, <1>12
  <2> QED BY <1>1, <1>6, <2>1 DEF W, w
<1>15. DeadlockInv'
  BY <1>3, <1>6, <1>9, <1>10, <1>11, <1>12, <1>13, Kept
<1>16. AbstractStep
  BY <1>1, <1>6, <1>11, QuietStutters
<1> QED BY <1>14, <1>15, <1>16

HeldReleased(a) ==
  /\ a \in DOMAIN lockedAccounts
  /\ lockedAccounts[a] = <<>> => Held' \subseteq Held
  /\ lockedAccounts[a] # <<>> =>
       Held' \subseteq Held \cup {<<Head(lockedAccounts[a]).id, Head(lockedAccounts[a]).leg>>}

LEMMA UnlockKeeps ==
  ASSUME DeadlockInv, DbUnlock
  PROVE  /\ DeadlockInv' /\ AbstractStep
         /\ \A h, a : h = Head(queue[BankDB]) /\ a = AccountOf(h) => HeldReleased(a)
<1>0. PICK L : L = lockedAccounts
  OBVIOUS
<1>h. PICK h : h = Head(queue[BankDB])
  OBVIOUS
<1>a. PICK a : a = AccountOf(h)
  OBVIOUS
<1>1. /\ H!Takes(BankDB, "Unlock") /\ UNCHANGED <<accounts, opened>> /\ UNCHANGED tellers
      /\ unsent' = unsent
  BY DEF DbUnlock, tellers, customers
<1>2. a \in DOMAIN L
  <2>1. /\ <<h.id, h.leg>> \in Held /\ a = AccountAt(<<h.id, h.leg>>) /\ Exclusive(Held, L)
    BY <1>0, <1>h, <1>a, <1>1, LockHead
  <2> QED BY <2>1 DEF Exclusive
<1>3. CASE L[a] = <<>>
  <2>1. lockedAccounts' = WithoutEntry(L, a) /\ H!Handle(BankDB, <<Reply(h, 0)>>)
    BY <1>0, <1>h, <1>a, <1>2, <1>3 DEF DbUnlock, FreeAccount
  <2> QED BY <1>0, <1>h, <1>a, <1>1, <1>2, <1>3, <2>1, UnlockFrees DEF HeldReleased
<1>4. CASE L[a] # <<>>
  <2>1. /\ lockedAccounts' = [L EXCEPT ![a] = Tail(@)]
        /\ H!Handle(BankDB, <<Reply(h, 0), Reply(Head(L[a]), 0)>>)
    BY <1>0, <1>h, <1>a, <1>2, <1>4 DEF DbUnlock, HandOver
  <2> QED BY <1>0, <1>h, <1>a, <1>1, <1>2, <1>4, <2>1, UnlockHands DEF HeldReleased
<1> QED BY <1>3, <1>4

-----------------------------------------------------------------------------
(* The order in which the Lock requests of one teller come.                *)

Locks(e, x) == e.type = "Lock" /\ e.id = x

Among(q, x) == \E i \in DOMAIN q : Locks(q[i], x)

InTurn(q, x, y) == \E i, j \in DOMAIN q : i < j /\ Locks(q[i], x) /\ Locks(q[j], y)

LEMMA AppendTurns ==
  ASSUME NEW S, NEW q \in Seq(S), NEW e, NEW x, NEW y
  PROVE  /\ Among(Append(q, e), x) => Among(q, x) \/ Locks(e, x)
         /\ InTurn(Append(q, e), x, y) => InTurn(q, x, y) \/ (Among(q, x) /\ Locks(e, y))
<1> DEFINE r == Append(q, e)
           n == Len(q) + 1
<1>0. q \in Seq(S \cup {e})
  OBVIOUS
<1>1. /\ Len(q) \in Nat /\ DOMAIN q = 1 .. Len(q) /\ DOMAIN r = DOMAIN q \cup {n}
      /\ \A i \in DOMAIN q : r[i] = q[i]
      /\ r[n] = e
  BY <1>0, SeqFacts, AppendFacts
<1> HIDE DEF r
<1>2. Among(r, x) => Among(q, x) \/ Locks(e, x)
  BY <1>1 DEF Among
<1>3. ASSUME InTurn(r, x, y) PROVE InTurn(q, x, y) \/ (Among(q, x) /\ Locks(e, y))
  <2>1. PICK i \in DOMAIN r, j \in DOMAIN r : i < j /\ Locks(r[i], x) /\ Locks(r[j], y)
    BY <1>3 DEF InTurn
  <2>2. i \in DOMAIN q
    BY <1>1, <2>1
  <2>3. CASE j = n
    BY <1>1, <2>1, <2>2, <2>3 DEF Among
  <2>4. CASE j # n
    BY <1>1, <2>1, <2>2, <2>4 DEF InTurn
  <2> QED BY <2>3, <2>4
<1> QED BY <1>2, <1>3 DEF r

LEMMA TailTurns ==
  ASSUME NEW S, NEW q \in Seq(S), q # <<>>, NEW x, NEW y
  PROVE  /\ Locks(Head(q), x) => Among(q, x)
         /\ Among(Tail(q), x) => Among(q, x)
         /\ InTurn(Tail(q), x, y) => InTurn(q, x, y)
         /\ Locks(Head(q), x) /\ Among(Tail(q), y) => InTurn(q, x, y)
<1> DEFINE r == Tail(q)
<1>1. /\ 1 \in DOMAIN q /\ Head(q) = q[1] /\ DOMAIN q \subseteq Nat
      /\ \A i \in DOMAIN r : i + 1 \in DOMAIN q /\ r[i] = q[i + 1] /\ i \in Nat \ {0}
  BY TailFacts
<1> HIDE DEF r
<1>2. Locks(Head(q), x) => Among(q, x)
  BY <1>1 DEF Among
<1>3. Among(r, x) => Among(q, x)
  BY <1>1 DEF Among
<1>4. ASSUME InTurn(r, x, y) PROVE InTurn(q, x, y)
  <2>1. PICK i \in DOMAIN r, j \in DOMAIN r : i < j /\ Locks(r[i], x) /\ Locks(r[j], y)
    BY <1>4 DEF InTurn
  <2>2. i + 1 < j + 1 /\ i + 1 \in DOMAIN q /\ j + 1 \in DOMAIN q
    BY <1>1, <2>1
  <2> QED BY <1>1, <2>1, <2>2 DEF InTurn
<1>5. ASSUME Locks(Head(q), x), Among(r, y) PROVE InTurn(q, x, y)
  <2>1. PICK i \in DOMAIN r : Locks(r[i], y)
    BY <1>5 DEF Among
  <2>2. 1 < i + 1 /\ i + 1 \in DOMAIN q
    BY <1>1, <2>1
  <2> QED BY <1>1, <1>5, <2>1, <2>2 DEF InTurn
<1> QED BY <1>2, <1>3, <1>4, <1>5 DEF r

OnWay == {x \in Transfer : \E t \in Teller : sending[t] # <<>> /\ Locks(Head(sending[t]).event, x)}

Holding(G, x, a) == \E l \in Legs : LegAccount(x, l) = a /\ <<x, l>> \in G

\* The database has taken a Lock of x, and x holds it or waits for it.
Seen(G, L, x) == \E a \in DOMAIN L : Holding(G, x, a) \/ Among(L[a], x)

\* A Lock of y is behind one of x in the queue q of the database, on the way O
\* to it, or in the table L of the locks that are held by G.
Ahead(q, O, G, L, x, y) ==
  \/ InTurn(q, x, y)
  \/ Among(q, x) /\ y \in O
  \/ Seen(G, L, x) /\ (Among(q, y) \/ y \in O)
  \/ \E a \in DOMAIN L : InTurn(L[a], x, y) \/ (Holding(G, x, a) /\ Among(L[a], y))

Before(x, y) ==
  x # y /\ TellerOf[x] = TellerOf[y] /\ Ahead(queue[BankDB], OnWay, Held, lockedAccounts, x, y)

Asked == {x \in Transfer : round[x] \notin {"unsent", "TransferMoney"}}

OrderedBy(f, n) ==
  /\ f \in [Transfer -> Nat] /\ n \in Nat
  /\ \A x, y \in Transfer : Before(x, y) => f[x] < f[y]
  /\ \A x \in Asked : f[x] < n

OrderInv == IsFiniteSet(Asked) /\ \E f, n : OrderedBy(f, n)

NoneNew == \A x, y \in Transfer : Before(x, y)' => Before(x, y)

LEMMA OrderKept ==
  ASSUME OrderInv, NoneNew, Asked' = Asked
  PROVE  OrderInv'
<1>1. PICK f, n : OrderedBy(f, n)
  BY DEF OrderInv
<1>2. OrderedBy(f, n)'
  BY <1>1 DEF OrderedBy, NoneNew
<1> QED BY <1>2 DEF OrderInv

\* z is the last that asks.
LEMMA OrderGrows ==
  ASSUME OrderInv, NEW z \in Transfer, Asked' = Asked \cup {z}, z \notin Asked,
         \A x, y \in Transfer : Before(x, y)' =>
           \/ Before(x, y) /\ x # z /\ y # z
           \/ x \in Asked /\ y = z
  PROVE  OrderInv'
<1>1. PICK f, n : OrderedBy(f, n)
  BY DEF OrderInv
<1> DEFINE g == [x \in Transfer |-> IF x = z THEN n ELSE f[x]]
<1>2. f \in [Transfer -> Nat] /\ n \in Nat /\ Asked \subseteq Transfer
  BY <1>1 DEF OrderedBy, Asked
<1>3. g \in [Transfer -> Nat] /\ n + 1 \in Nat /\ n < n + 1 /\ \A i \in Nat : i < n => i < n + 1
  BY <1>2
<1>4. ASSUME NEW x \in Transfer, NEW y \in Transfer, Before(x, y)' PROVE g[x] < g[y]
  BY <1>1, <1>2, <1>4 DEF OrderedBy
<1>5. ASSUME NEW x \in Asked' PROVE g[x] < n + 1
  BY <1>1, <1>2, <1>3 DEF OrderedBy
<1> HIDE DEF g
<1>6. OrderedBy(g, n + 1)'
  BY <1>3, <1>4, <1>5 DEF OrderedBy
<1>7. IsFiniteSet(Asked')
  BY FS_AddElement DEF OrderInv
<1> QED BY <1>6, <1>7 DEF OrderInv

\* Who has a Lock somewhere has asked for it.
LEMMA WhoAsks ==
  ASSUME DeadlockInv, NEW x \in Transfer
  PROVE  /\ Among(queue[BankDB], x) => round[x] = "Lock"
         /\ \A t \in Teller : sending[t] # <<>> /\ Locks(Head(sending[t]).event, x)
                             => round[x] = "Lock" /\ t = TellerOf[x]
         /\ \A a \in DOMAIN lockedAccounts : Among(lockedAccounts[a], x) => round[x] = "Lock"
         /\ \A l \in Legs : <<x, l>> \in Held => x \in Asked
<1>0. PICK W : W = LockPosts(lockedAccounts)
  OBVIOUS
<1>1. RoundsInv(W) /\ TableOk(lockedAccounts) /\ Mailed /\ "Lock" \in Range(Rounds)
  BY <1>0, LockKinds DEF DeadlockInv, RoundsInv
<1>2. ASSUME NEW p \in Posts \cup W, Locks(p.event, x)
      PROVE  round[x] = "Lock" /\ (p.kind = "sending" => p.at = TellerOf[x])
  <2>1. Fits(p, round, heard)
    BY <1>1, PostFacts
  <2> QED BY <1>1, <1>2, <2>1 DEF Fits, Locks
<1>3. ASSUME Among(queue[BankDB], x) PROVE round[x] = "Lock"
  <2>1. PICK i \in DOMAIN queue[BankDB] : Locks(queue[BankDB][i], x)
    BY <1>3 DEF Among
  <2>2. PICK e : e = queue[BankDB][i]
    OBVIOUS
  <2>3. e \in Range(queue[BankDB]) /\ e \in Events /\ Keyed(e) /\ BankDB \in Context
    <3>1. queue[BankDB] \in Seq(Events) /\ BankDB \in Context
      BY <1>1, ContextKinds DEF Mailed, Tidy
    <3>2. e \in Range(queue[BankDB])
      BY <2>2 DEF Range
    <3> QED BY <2>1, <2>2, <3>1, <3>2, SeqFacts DEF Keyed, Locks
  <2>4. Post("queue", BankDB, e) \in Posts /\ Post("queue", BankDB, e).event = e
    BY <2>3 DEF Posts, Queued, Post
  <2> QED BY <1>2, <2>1, <2>2, <2>4
<1>4. ASSUME NEW t \in Teller, sending[t] # <<>>, Locks(Head(sending[t]).event, x)
      PROVE  round[x] = "Lock" /\ t = TellerOf[x]
  <2>2. PICK m \in Message : sending[t] = <<m>>
    BY <1>1, <1>4, ContextKinds DEF Mailed, Outs
  <2>3. Locks(m.event, x) /\ m \in Range(sending[t]) /\ m.event \in Events /\ Keyed(m.event) /\ t \in Context
    BY <1>4, <2>2, OneMessage, ContextKinds DEF Message
  <2>4. PICK p : p = Post("sending", t, m.event)
    OBVIOUS
  <2>5. p \in Posts /\ p.event = m.event /\ p.kind = "sending" /\ p.at = t
    BY <2>3, <2>4 DEF Posts, ToSend, Post
  <2> QED BY <1>2, <2>3, <2>5
<1>5. ASSUME NEW a \in DOMAIN lockedAccounts, Among(lockedAccounts[a], x) PROVE round[x] = "Lock"
  <2>1. PICK i \in DOMAIN lockedAccounts[a] : Locks(lockedAccounts[a][i], x)
    BY <1>5 DEF Among
  <2>2. PICK e : e = lockedAccounts[a][i]
    OBVIOUS
  <2>3. e \in Range(lockedAccounts[a])
    BY <2>2 DEF Range
  <2>4. WaitingAt(a, e) \in W /\ WaitingAt(a, e).event = e
    BY <1>0, <1>1, <2>3, InTable DEF WaitingAt
  <2> QED BY <1>2, <2>1, <2>2, <2>4
<1>6. ASSUME NEW l \in Legs, <<x, l>> \in Held PROVE x \in Asked
  <2>1. IsDone("Lock", x, l)
    BY <1>6 DEF Held
  <2>2. round[x] \in Range(Rounds) \/ round[x] = "complete"
    <3>1. round[x] = "Lock" \/ Earlier("Lock", round[x]) \/ round[x] = "complete"
      BY <1>1, <2>1, DoneByRound
    <3>2. Earlier("Lock", round[x]) => round[x] \in Range(Rounds)
      BY DEF Earlier, Range
    <3> QED BY <1>1, <3>1, <3>2
  <2> QED BY <2>2, TypesDiffer DEF Asked
<1> QED BY <1>3, <1>4, <1>5, <1>6

\* What the sends of a handler of the database do to the Locks.
LEMMA DbHandles ==
  ASSUME Mailed, queue[BankDB] # <<>>, NEW s, H!Handle(BankDB, s),
         s # <<>> => Head(s).to \in Teller
  PROVE  queue'[BankDB] = Tail(queue[BankDB]) /\ OnWay' = OnWay
<1>1. /\ BankDB \in Context /\ Teller \subseteq Context /\ BankDB \notin Teller
      /\ DOMAIN queue = Context /\ DOMAIN sending = Context
  BY TellerAssumption DEF Context, Mailed, Tidy, Outs
<1>2. queue'[BankDB] = Tail(queue[BankDB])
  BY <1>1 DEF H!Handle, H!Consume, H!ConsumeAndSend
<1>3. \A t \in Teller : sending'[t] = sending[t]
  BY <1>1 DEF H!Handle
<1> QED BY <1>2, <1>3 DEF OnWay

\* What those of a teller do.
LEMMA TellerHandles ==
  ASSUME Mailed, NEW t \in Teller, sending[t] = <<>>, NEW s, H!Handle(t, s)
  PROVE  /\ s = <<>> => queue'[BankDB] = queue[BankDB] /\ OnWay' = OnWay
         /\ \A m, n : s = <<m, n>> /\ m.to = BankDB =>
              /\ queue'[BankDB] = Append(queue[BankDB], m.event)
              /\ \A x \in OnWay' : x \in OnWay \/ Locks(n.event, x)
<1>1. /\ BankDB \in Context /\ t \in Context /\ BankDB # t
      /\ DOMAIN queue = Context /\ DOMAIN sending = Context /\ Teller \subseteq Context
  BY TellerAssumption DEF Context, Mailed, Tidy, Outs
<1>2. CASE s = <<>>
  BY <1>1, <1>2 DEF H!Handle, H!Consume, OnWay
<1>3. ASSUME NEW m, NEW n, s = <<m, n>>, m.to = BankDB
      PROVE  /\ queue'[BankDB] = Append(queue[BankDB], m.event)
             /\ \A x \in OnWay' : x \in OnWay \/ Locks(n.event, x)
  <2>1. s # <<>> /\ Head(s) = m /\ Tail(s) = <<n>>
    BY <1>3, TwoMessages
  <2>2. /\ queue' = [queue EXCEPT ![t] = Tail(@), ![BankDB] = Append(@, m.event)]
        /\ sending' = [sending EXCEPT ![t] = <<n>>]
    BY <1>3, <2>1 DEF H!Handle, H!ConsumeAndSend
  <2>3. queue'[BankDB] = Append(queue[BankDB], m.event)
    BY <1>1, <2>2
  <2>4. Head(sending'[t]) = n /\ \A u \in Teller : u # t => sending'[u] = sending[u]
    BY <1>1, <2>2, OneMessage
  <2>5. \A x \in OnWay' : x \in OnWay \/ Locks(n.event, x)
    BY <2>4 DEF OnWay
  <2> QED BY <2>3, <2>5
<1> QED BY <1>2, <1>3

\* Everybody who is ahead or behind has asked.
LEMMA AheadAsked ==
  ASSUME DeadlockInv, NEW x \in Transfer, NEW y \in Transfer,
         Ahead(queue[BankDB], OnWay, Held, lockedAccounts, x, y)
  PROVE  x \in Asked /\ y \in Asked
<1>1. \A z \in Transfer : round[z] = "Lock" => z \in Asked
  BY DEF Asked
<1>2. ASSUME NEW z \in Transfer
      PROVE  /\ Among(queue[BankDB], z) => z \in Asked
             /\ z \in OnWay => z \in Asked
             /\ \A a \in DOMAIN lockedAccounts :
                  Holding(Held, z, a) \/ Among(lockedAccounts[a], z) => z \in Asked
  <2>1. Among(queue[BankDB], z) => z \in Asked
    BY <1>1, WhoAsks
  <2>2. z \in OnWay => z \in Asked
    BY <1>1, WhoAsks DEF OnWay
  <2>3. ASSUME NEW a \in DOMAIN lockedAccounts, Among(lockedAccounts[a], z) PROVE z \in Asked
    BY <1>1, <2>3, WhoAsks
  <2>4. ASSUME NEW a \in DOMAIN lockedAccounts, Holding(Held, z, a) PROVE z \in Asked
    BY <2>4, WhoAsks DEF Holding
  <2> QED BY <2>1, <2>2, <2>3, <2>4
<1>3. \A q : InTurn(q, x, y) => Among(q, x) /\ Among(q, y)
  BY DEF InTurn, Among
<1> QED BY <1>2, <1>3 DEF Ahead, Seen

\* No Lock comes into the queue of the database, or onto the way.
FewerLocks ==
  /\ \A x, y : /\ Among(queue'[BankDB], x) => Among(queue[BankDB], x)
               /\ InTurn(queue'[BankDB], x, y) => InTurn(queue[BankDB], x, y)
  /\ OnWay' \subseteq OnWay

LEMMA QuietOrder ==
  ASSUME OrderInv, FewerLocks, UNCHANGED lockedAccounts, Held' = Held, Asked' = Asked
  PROVE  OrderInv'
<1>1. ASSUME NEW x \in Transfer, NEW y \in Transfer, Before(x, y)' PROVE Before(x, y)
  BY <1>1 DEF Before, Ahead, Seen, FewerLocks
<1>2. NoneNew
  BY <1>1 DEF NoneNew
<1> QED BY <1>2, OrderKept

\* When the queue of the database is the same, has lost its head, or has got
\* an event that is not a Lock.
LEMMA Fewer ==
  ASSUME Mailed, OnWay' \subseteq OnWay,
         \/ queue'[BankDB] = queue[BankDB]
         \/ queue[BankDB] # <<>> /\ queue'[BankDB] = Tail(queue[BankDB])
         \/ \E e : e.type # "Lock" /\ queue'[BankDB] = Append(queue[BankDB], e)
  PROVE  FewerLocks
<1>1. queue[BankDB] \in Seq(Events)
  BY ContextKinds DEF Mailed, Tidy
<1>2. CASE queue[BankDB] # <<>> /\ queue'[BankDB] = Tail(queue[BankDB])
  BY <1>1, <1>2, TailTurns DEF FewerLocks
<1>3. ASSUME NEW e, e.type # "Lock", queue'[BankDB] = Append(queue[BankDB], e)
      PROVE  FewerLocks
  <2>1. \A x : ~Locks(e, x)
    BY <1>3 DEF Locks
  <2> QED BY <1>1, <1>3, <2>1, AppendTurns DEF FewerLocks
<1>4. CASE queue'[BankDB] = queue[BankDB]
  BY <1>4 DEF FewerLocks
<1> QED BY <1>2, <1>3, <1>4

LEMMA CustomerOrder ==
  ASSUME DeadlockInv, OrderInv, CustomerStep, UNCHANGED lockedAccounts, Held' = Held
  PROVE  OrderInv'
<1>1. /\ Mailed /\ round \in [Transfer -> Awaits] /\ DOMAIN queue = Context /\ BankDB \in Context
      /\ \A x \in Transfer : TellerOf[x] # BankDB /\ TellerOf[x] \in Context
  BY ContextKinds DEF DeadlockInv, RoundsInv, Mailed, Tidy
<1>2. sending' = sending /\ OnWay' = OnWay
  BY DEF CustomerStep, SendSetupAccount, SendTransferMoney, OnWay
<1>3. ASSUME NEW s \in Setup, SendSetupAccount(s) PROVE OrderInv'
  <2> DEFINE e == [type |-> "SetupAccount", setup |-> s]
  <2>1. e.type # "Lock" /\ queue'[BankDB] = Append(queue[BankDB], e)
    BY <1>1, <1>3 DEF SendSetupAccount, H!Send
  <2>2. Asked' = Asked
    BY <1>3 DEF SendSetupAccount, tellers, Asked
  <2> HIDE DEF e
  <2>3. FewerLocks
    BY <1>1, <1>2, <2>1, Fewer
  <2> QED BY <2>2, <2>3, QuietOrder
<1>4. ASSUME NEW x \in Transfer, SendTransferMoney(x) PROVE OrderInv'
  <2>1. queue'[BankDB] = queue[BankDB]
    BY <1>1, <1>4 DEF SendTransferMoney, H!Send
  <2>2. Asked' = Asked
    BY <1>1, <1>4 DEF SendTransferMoney, Asked
  <2>3. FewerLocks
    BY <1>1, <1>2, <2>1, Fewer
  <2> QED BY <2>2, <2>3, QuietOrder
<1> QED BY <1>3, <1>4 DEF CustomerStep

\* The handlers of the database that have nothing to do with locks.
LEMMA DbOrder ==
  ASSUME DeadlockInv, OrderInv, DbSetupAccount \/ DbGet \/ DbSet, UNCHANGED lockedAccounts, Held' = Held
  PROVE  OrderInv'
<1>0. PICK W : W = LockPosts(lockedAccounts)
  OBVIOUS
<1>1. RoundsInv(W) /\ Mailed
  BY <1>0 DEF DeadlockInv, RoundsInv
<1>2. round' = round /\ queue[BankDB] # <<>>
  BY DEF DbSetupAccount, DbGet, DbSet, tellers, H!Takes, H!Receives
<1>3. \E s : H!Handle(BankDB, s) /\ (s # <<>> => Head(s).to \in Teller)
  <2>1. CASE DbSetupAccount
    BY <2>1 DEF DbSetupAccount
  <2>2. CASE DbGet \/ DbSet
    <3> DEFINE h == Head(queue[BankDB])
    <3>1. h.id \in Transfer
      <4>1. "Get" \in Range(Rounds) /\ "Set" \in Range(Rounds)
        BY LockKinds
      <4> QED BY <1>1, <2>2, <4>1, RequestHead DEF DbGet, DbSet
    <3>2. ASSUME NEW n PROVE <<Reply(h, n)>> # <<>> => Head(<<Reply(h, n)>>).to \in Teller
      <4>1. Reply(h, n).to = TellerOf[h.id]
        BY DEF Reply, H!Addressed
      <4> QED BY <3>1, <4>1, OneMessage, ContextKinds
    <3>3. (\E n : H!Handle(BankDB, <<Reply(h, n)>>)) \/ H!Handle(BankDB, <<>>)
      BY <2>2 DEF DbGet, DbSet
    <3> HIDE DEF h
    <3> QED BY <3>2, <3>3
  <2> QED BY <2>1, <2>2
<1>4. queue'[BankDB] = Tail(queue[BankDB]) /\ OnWay' = OnWay
  BY <1>1, <1>2, <1>3, DbHandles
<1>5. FewerLocks
  BY <1>1, <1>2, <1>4, Fewer
<1>6. Asked' = Asked
  BY <1>2 DEF Asked
<1> QED BY <1>5, <1>6, QuietOrder

LEMMA ContinueOrder ==
  ASSUME DeadlockInv, OrderInv, NEW c \in Context, Continue(c), UNCHANGED lockedAccounts, Held' = Held
  PROVE  OrderInv'
<1>1. /\ Mailed /\ Destined /\ queue[BankDB] \in Seq(Events) /\ round' = round
      /\ DOMAIN queue = Context /\ DOMAIN sending = Context /\ BankDB \in Context
  BY ContextKinds DEF DeadlockInv, RoundsInv, Mailed, Tidy, Outs, Continue, tellers
<1>2. PICK m \in Message : sending[c] = <<m>>
  BY <1>1 DEF Continue, H!SendNext, Mailed, Outs
<1>3. /\ queue' = [queue EXCEPT ![m.to] = Append(@, m.event)]
      /\ sending' = [sending EXCEPT ![c] = <<>>]
  BY <1>2, OneMessage DEF Continue, H!SendNext, H!Send
<1>4. m.to = IF c = BankDB THEN TellerOf[m.event.id] ELSE BankDB
  BY <1>1, <1>2 DEF Destined
<1>5. /\ \A t \in Teller : t # c => sending'[t] = sending[t]
      /\ c \in Teller => sending'[c] = <<>>
      /\ Teller \subseteq Context /\ BankDB \notin Teller /\ m.event \in Events
  BY <1>1, <1>3, TellerAssumption DEF Context, Message
<1>6. OnWay' \subseteq OnWay
  BY <1>5 DEF OnWay
<1>7. Asked' = Asked
  BY <1>1 DEF Asked
<1>8. CASE c = BankDB
  <2>1. m.event \in Events /\ Keyed(m.event)
    BY DEF Message
  <2>2. m.event.id \in Transfer
    BY <2>1, IdOfKey
  <2>3. queue'[BankDB] = queue[BankDB]
    BY <1>1, <1>3, <1>4, <1>8, <2>2, ContextKinds
  <2>4. FewerLocks
    BY <1>1, <1>6, <2>3, Fewer
  <2> QED BY <1>7, <2>4, QuietOrder
<1>9. CASE c # BankDB
  <2>1. c \in Teller /\ queue'[BankDB] = Append(queue[BankDB], m.event)
    BY <1>1, <1>3, <1>4, <1>9 DEF Context
  <2>2. ASSUME NEW x \in Transfer, Locks(m.event, x) PROVE x \in OnWay /\ TellerOf[x] = c
    <3>1. sending[c] # <<>> /\ Locks(Head(sending[c]).event, x)
      BY <1>2, <2>2, OneMessage
    <3> QED BY <2>1, <3>1, WhoAsks DEF OnWay
  <2>3. ASSUME NEW y \in OnWay' PROVE TellerOf[y] # c /\ y \in Transfer
    <3>1. PICK t \in Teller : sending'[t] # <<>> /\ Locks(Head(sending'[t]).event, y)
      BY DEF OnWay
    <3>2. t # c /\ sending[t] # <<>> /\ Locks(Head(sending[t]).event, y)
      BY <1>5, <3>1
    <3>3. y \in Transfer
      BY DEF OnWay
    <3> QED BY <3>2, <3>3, WhoAsks
  <2>4. ASSUME NEW x \in Transfer, NEW y \in Transfer, Before(x, y)' PROVE Before(x, y)
    <3>1. /\ Among(queue'[BankDB], x) => Among(queue[BankDB], x) \/ Locks(m.event, x)
          /\ Among(queue'[BankDB], y) => Among(queue[BankDB], y) \/ Locks(m.event, y)
          /\ InTurn(queue'[BankDB], x, y) =>
               InTurn(queue[BankDB], x, y) \/ (Among(queue[BankDB], x) /\ Locks(m.event, y))
      BY <1>1, <1>5, <2>1, AppendTurns
    <3>2. /\ x # y /\ TellerOf[x] = TellerOf[y]
          /\ Ahead(queue'[BankDB], OnWay', Held, lockedAccounts, x, y)
      BY <2>4 DEF Before
    <3>3. Ahead(queue[BankDB], OnWay, Held, lockedAccounts, x, y)
      BY <1>6, <2>2, <2>3, <3>1, <3>2 DEF Ahead
    <3> QED BY <3>2, <3>3 DEF Before
  <2>5. NoneNew
    BY <2>4 DEF NoneNew
  <2> QED BY <1>7, <2>5, OrderKept
<1> QED BY <1>8, <1>9

\* The two Locks of a transfer that starts are behind all of its teller.
LEMMA TransferOrder ==
  ASSUME DeadlockInv, OrderInv, NEW t \in Teller, OnTransferMoney(t), UNCHANGED lockedAccounts, Held' = Held
  PROVE  OrderInv'
<1>0. PICK W : W = LockPosts(lockedAccounts)
  OBVIOUS
<1>z. PICK z : z = Head(queue[t]).id
  OBVIOUS
<1>1. RoundsInv(W) /\ Mailed /\ queue[BankDB] \in Seq(Events) /\ round \in [Transfer -> Awaits] /\ t \in Context
  BY <1>0, ContextKinds DEF DeadlockInv, RoundsInv, Mailed, Tidy
<1>2. /\ z \in Transfer /\ round[z] = "TransferMoney" /\ After(round[z]) = "Lock"
      /\ queue[t] # <<>> /\ sending[t] = <<>> /\ Head(queue[t]).type = "TransferMoney"
  BY <1>1, <1>z, TransferStarted, LockKinds DEF OnTransferMoney, H!Takes, H!Receives
<1>3. TellerOf[z] = t
  <2>1. Fits(HeadPost(t), round, heard) /\ HeadPost(t).event = Head(queue[t]) /\ HeadPost(t).at = t
    BY <1>1, <1>2, HeadFits
  <2> QED BY <1>2, <1>z, <2>1 DEF Fits
<1>4. round' = [round EXCEPT ![z] = "Lock"] /\ H!Handle(t, Requests("Lock", z, Nothing))
  BY <1>2, <1>z DEF OnTransferMoney, StartNextRound
<1>5. z \notin Asked /\ Asked' = Asked \cup {z}
  BY <1>1, <1>2, <1>4 DEF Asked
<1>6. PICK m, n : /\ Requests("Lock", z, Nothing) = <<m, n>> /\ m.to = BankDB
                  /\ m.event.id = z /\ n.event.id = z
  <2> DEFINE m == Request("Lock", z, "debit", Nothing)
             n == Request("Lock", z, "credit", Nothing)
  <2>1. m.to = BankDB /\ m.event.id = z /\ n.event.id = z
    BY DEF Request, H!Addressed
  <2> QED BY <2>1 DEF Requests
<1>7. /\ queue'[BankDB] = Append(queue[BankDB], m.event)
      /\ \A x \in OnWay' : x \in OnWay \/ x = z
  BY <1>1, <1>2, <1>4, <1>6, TellerHandles DEF Locks
<1>8. \A y \in OnWay : TellerOf[y] # t
  BY <1>2, WhoAsks DEF OnWay
<1>9. ASSUME NEW x \in Transfer, NEW y \in Transfer, Before(x, y)'
      PROVE  (Before(x, y) /\ x # z /\ y # z) \/ (x \in Asked /\ y = z)
  <2>1. /\ Among(queue'[BankDB], x) => Among(queue[BankDB], x) \/ x = z
        /\ Among(queue'[BankDB], y) => Among(queue[BankDB], y) \/ y = z
        /\ InTurn(queue'[BankDB], x, y) =>
             InTurn(queue[BankDB], x, y) \/ (Among(queue[BankDB], x) /\ y = z)
    <3>1. PICK e, q : e = m.event /\ q = queue[BankDB]
      OBVIOUS
    <3>2. q \in Seq(Events) /\ queue'[BankDB] = Append(q, e) /\ \A u : Locks(e, u) => u = z
      BY <1>1, <1>6, <1>7, <3>1 DEF Locks
    <3>3. /\ Among(Append(q, e), x) => Among(q, x) \/ Locks(e, x)
          /\ Among(Append(q, e), y) => Among(q, y) \/ Locks(e, y)
          /\ InTurn(Append(q, e), x, y) => InTurn(q, x, y) \/ (Among(q, x) /\ Locks(e, y))
      BY <3>2, AppendTurns
    <3> QED BY <3>1, <3>2, <3>3
  <2>2. /\ x # y /\ TellerOf[x] = TellerOf[y]
        /\ Ahead(queue'[BankDB], OnWay', Held, lockedAccounts, x, y)
    BY <1>9 DEF Before
  <2>3. /\ Among(queue[BankDB], x) => x \in Asked
        /\ Seen(Held, lockedAccounts, x) => x \in Asked
    BY WhoAsks DEF Asked, Seen, Holding
  <2>4. ~(x = z /\ y \in OnWay)
    BY <1>3, <1>8, <2>2
  <2>5. Ahead(queue[BankDB], OnWay, Held, lockedAccounts, x, y) \/ (x \in Asked /\ y = z)
    BY <1>5, <1>7, <2>1, <2>2, <2>3, <2>4 DEF Ahead
  <2>6. Ahead(queue[BankDB], OnWay, Held, lockedAccounts, x, y) => x # z /\ y # z
    BY <1>5, AheadAsked
  <2> QED BY <2>2, <2>5, <2>6 DEF Before
<1> QED BY <1>2, <1>5, <1>9, OrderGrows

\* The later rounds send no Lock.
LEMMA ResponseOrder ==
  ASSUME DeadlockInv, OrderInv, NEW t \in Teller, OnResponse(t), UNCHANGED lockedAccounts, Held' = Held
  PROVE  OrderInv'
<1>0. PICK W : W = LockPosts(lockedAccounts)
  OBVIOUS
<1>z. PICK z, answers : /\ z = Head(queue[t]).id
                        /\ answers = WithEntry(heard[z], Head(queue[t]).leg, Head(queue[t]).amt)
  OBVIOUS
<1>1. RoundsInv(W) /\ Mailed /\ round \in [Transfer -> Awaits]
  BY <1>0 DEF DeadlockInv, RoundsInv
<1>2. z \in Transfer /\ round[z] \in Range(Rounds) /\ sending[t] = <<>>
  BY <1>1, <1>z, ResponseHead
<1>3. \/ H!Handle(t, <<>>) /\ round' = round
      \/ StartNextRound(t, z, answers)
  BY <1>z DEF OnResponse
<1>4. CASE H!Handle(t, <<>>) /\ round' = round
  <2>1. queue'[BankDB] = queue[BankDB] /\ OnWay' = OnWay
    BY <1>1, <1>2, <1>4, TellerHandles
  <2>2. FewerLocks
    BY <1>1, <2>1, Fewer
  <2>3. Asked' = Asked
    BY <1>4 DEF Asked
  <2> QED BY <2>2, <2>3, QuietOrder
<1>5. CASE StartNextRound(t, z, answers)
  <2>1. PICK r : r = After(round[z])
    OBVIOUS
  <2>2. /\ r \in {"Get", "Set", "Unlock", "complete"} /\ round' = [round EXCEPT ![z] = r]
        /\ H!Handle(t, IF r = "complete" THEN <<>> ELSE Requests(r, z, answers))
    BY <1>2, <1>5, <2>1, LockKinds DEF StartNextRound
  <2>3. Asked' = Asked
    <3>1. z \in Asked
      BY <1>2, TypesDiffer DEF Asked
    <3> QED BY <1>1, <1>2, <2>2, <3>1 DEF Asked
  <2>4. CASE r = "complete"
    <3>1. queue'[BankDB] = queue[BankDB] /\ OnWay' = OnWay
      BY <1>1, <1>2, <2>2, <2>4, TellerHandles
    <3>2. FewerLocks
      BY <1>1, <3>1, Fewer
    <3> QED BY <2>3, <3>2, QuietOrder
  <2>5. CASE r # "complete"
    <3> DEFINE m == Request(r, z, "debit", answers)
               n == Request(r, z, "credit", answers)
    <3>1. m.to = BankDB /\ m.event.type = r /\ n.event.type = r
      BY DEF Request, H!Addressed
    <3>2. H!Handle(t, <<m, n>>)
      BY <2>2, <2>5 DEF Requests
    <3> HIDE DEF m, n
    <3>3. /\ queue'[BankDB] = Append(queue[BankDB], m.event)
          /\ \A x \in OnWay' : x \in OnWay \/ Locks(n.event, x)
      BY <1>1, <1>2, <3>1, <3>2, TellerHandles
    <3>4. OnWay' \subseteq OnWay /\ m.event.type # "Lock"
      BY <2>2, <2>5, <3>1, <3>3 DEF Locks
    <3>5. FewerLocks
      BY <1>1, <3>3, <3>4, Fewer
    <3> QED BY <2>3, <3>5, QuietOrder
  <2> QED BY <2>4, <2>5
<1> QED BY <1>3, <1>4, <1>5

(* The steps on the lock table, of a Lock or Unlock h at the head of the   *)
(* queue.                                                                  *)

\* The tables L and M, before and after h waits for account a.
Enqueues(h, a, L, M) ==
  /\ a \in DOMAIN L /\ L[a] \in Seq(LockEvents) /\ DOMAIN M = DOMAIN L
  /\ M[a] = Append(L[a], h) /\ \A b \in DOMAIN L : b # a => M[b] = L[b]

LEMMA WaitAhead ==
  ASSUME NEW q \in Seq(Events), q # <<>>, NEW h, h = Head(q), h \in LockEvents, NEW O, NEW G,
         NEW L, NEW M, NEW a, Enqueues(h, a, L, M), NEW x, NEW y, Ahead(Tail(q), O, G, M, x, y)
  PROVE  Ahead(q, O, G, L, x, y)
<1> USE DEF Enqueues
<1>1. \A b \in DOMAIN L :
        /\ Among(M[b], x) => Among(L[b], x) \/ Locks(h, x)
        /\ Among(M[b], y) => Among(L[b], y) \/ Locks(h, y)
        /\ InTurn(M[b], x, y) => InTurn(L[b], x, y) \/ (Among(L[b], x) /\ Locks(h, y))
  BY AppendTurns
<1>2. /\ \A z : Locks(h, z) \/ Among(Tail(q), z) => Among(q, z)
      /\ InTurn(Tail(q), x, y) => InTurn(q, x, y)
      /\ Locks(h, x) /\ Among(Tail(q), y) => InTurn(q, x, y)
  BY TailTurns
<1>3. Seen(G, M, x) => Seen(G, L, x) \/ Locks(h, x)
  BY <1>1 DEF Seen
<1>4. \A b \in DOMAIN L : Holding(G, x, b) \/ Among(L[b], x) => Seen(G, L, x)
  BY DEF Seen
<1>5. CASE Seen(G, M, x) /\ (Among(Tail(q), y) \/ y \in O)
  BY <1>2, <1>3, <1>5 DEF Ahead
<1>6. CASE \E b \in DOMAIN M : InTurn(M[b], x, y) \/ (Holding(G, x, b) /\ Among(M[b], y))
  BY <1>1, <1>2, <1>4, <1>6 DEF Ahead
<1>7. CASE InTurn(Tail(q), x, y) \/ (Among(Tail(q), x) /\ y \in O)
  BY <1>2, <1>7 DEF Ahead
<1> QED BY <1>5, <1>6, <1>7 DEF Ahead

\* Before and after h is granted account a.
Grants(h, a, L, M, G, H2) ==
  /\ a \notin DOMAIN L /\ a = LegAccount(h.id, h.leg) /\ Exclusive(G, L)
  /\ DOMAIN M = DOMAIN L \cup {a} /\ M[a] = <<>> /\ \A b \in DOMAIN L : M[b] = L[b]
  /\ H2 \subseteq G \cup {<<h.id, h.leg>>}

LEMMA GrantAhead ==
  ASSUME NEW q \in Seq(Events), q # <<>>, NEW h, h = Head(q), h.type = "Lock", NEW O, NEW G, NEW H2,
         NEW L, NEW M, NEW a, Grants(h, a, L, M, G, H2),
         NEW x, NEW y, Ahead(Tail(q), O, H2, M, x, y)
  PROVE  Ahead(q, O, G, L, x, y)
<1> USE DEF Grants
<1>1. /\ \A z : Locks(h, z) \/ Among(Tail(q), z) => Among(q, z)
      /\ InTurn(Tail(q), x, y) => InTurn(q, x, y)
      /\ Locks(h, x) /\ Among(Tail(q), y) => InTurn(q, x, y)
  BY TailTurns
<1>2. ~Among(M[a], x) /\ ~Among(M[a], y) /\ ~InTurn(M[a], x, y)
  BY DEF Among, InTurn
<1>3. ASSUME NEW b \in DOMAIN M, Holding(H2, x, b)
      PROVE  (b \in DOMAIN L /\ Holding(G, x, b)) \/ (b = a /\ Locks(h, x))
  <2>1. PICK l \in Legs : LegAccount(x, l) = b /\ <<x, l>> \in H2
    BY <1>3 DEF Holding
  <2>2. CASE <<x, l>> \in G
    <3>1. AccountAt(<<x, l>>) \in DOMAIN L
      BY <2>2 DEF Exclusive
    <3>2. AccountAt(<<x, l>>) = b
      BY <2>1 DEF AccountAt
    <3> QED BY <2>1, <2>2, <3>1, <3>2 DEF Holding
  <2>3. CASE <<x, l>> = <<h.id, h.leg>>
    BY <2>1, <2>3 DEF Locks
  <2> QED BY <2>1, <2>2, <2>3
<1>4. Seen(H2, M, x) => Seen(G, L, x) \/ Locks(h, x)
  BY <1>2, <1>3 DEF Seen
<1>5. CASE Seen(H2, M, x) /\ (Among(Tail(q), y) \/ y \in O)
  BY <1>1, <1>4, <1>5 DEF Ahead
<1>6. CASE \E b \in DOMAIN M : InTurn(M[b], x, y) \/ (Holding(H2, x, b) /\ Among(M[b], y))
  BY <1>2, <1>3, <1>6 DEF Ahead
<1>7. CASE InTurn(Tail(q), x, y) \/ (Among(Tail(q), x) /\ y \in O)
  BY <1>1, <1>7 DEF Ahead
<1> QED BY <1>5, <1>6, <1>7 DEF Ahead

\* The tables L and M, and the locks G and H2 that are held, before and after
\* account a is freed, or handed to the first that waits for it.
Releases(a, L, M, G, H2) ==
  /\ a \in DOMAIN L /\ L[a] \in Seq(LockEvents) /\ DOMAIN M \subseteq DOMAIN L
  /\ \A b \in DOMAIN M : b # a => M[b] = L[b]
  /\ \/ a \notin DOMAIN M /\ H2 \subseteq G
     \/ /\ L[a] # <<>> /\ M[a] = Tail(L[a])
        /\ H2 \subseteq G \cup {<<Head(L[a]).id, Head(L[a]).leg>>}
        /\ AccountOf(Head(L[a])) = a

LEMMA UnlockAhead ==
  ASSUME NEW q \in Seq(Events), q # <<>>, NEW O, NEW G, NEW H2, NEW L, NEW M, NEW a,
         Releases(a, L, M, G, H2), NEW x, NEW y, Ahead(Tail(q), O, H2, M, x, y)
  PROVE  Ahead(q, O, G, L, x, y)
<1> USE DEF Releases
<1>1. /\ \A z : Among(Tail(q), z) => Among(q, z)
      /\ InTurn(Tail(q), x, y) => InTurn(q, x, y)
  BY TailTurns
<1>2. ASSUME NEW b \in DOMAIN M
      PROVE  /\ b \in DOMAIN L
             /\ Among(M[b], x) => Among(L[b], x)
             /\ Among(M[b], y) => Among(L[b], y)
             /\ InTurn(M[b], x, y) => InTurn(L[b], x, y)
             /\ Holding(H2, x, b) => Holding(G, x, b) \/ Among(L[b], x)
             /\ Holding(H2, x, b) /\ Among(M[b], y) =>
                  (Holding(G, x, b) /\ Among(L[b], y)) \/ InTurn(L[b], x, y)
  <2>1. CASE H2 \subseteq G /\ b # a
    BY <2>1 DEF Holding
  <2>2. CASE /\ L[a] # <<>> /\ M[a] = Tail(L[a])
             /\ H2 \subseteq G \cup {<<Head(L[a]).id, Head(L[a]).leg>>}
             /\ AccountOf(Head(L[a])) = a
    <3> DEFINE e == Head(L[a])
    <3>1. /\ \A z : Locks(e, z) \/ Among(Tail(L[a]), z) => Among(L[a], z)
          /\ InTurn(Tail(L[a]), x, y) => InTurn(L[a], x, y)
          /\ Locks(e, x) /\ Among(Tail(L[a]), y) => InTurn(L[a], x, y)
      BY <2>2, TailTurns
    <3>2. e.type = "Lock"
      <4>1. e \in LockEvents
        BY <2>2
      <4> QED BY <4>1, LockKinds
    <3>3. Holding(H2, x, b) => Holding(G, x, b) \/ (b = a /\ Locks(e, x))
      <4> SUFFICES ASSUME Holding(H2, x, b), ~Holding(G, x, b) PROVE b = a /\ Locks(e, x)
        OBVIOUS
      <4>1. PICK l \in Legs : LegAccount(x, l) = b /\ <<x, l>> \in H2
        BY DEF Holding
      <4>2. x = e.id /\ l = e.leg
        BY <2>2, <4>1 DEF Holding
      <4> QED BY <2>2, <3>2, <4>1, <4>2 DEF Locks, AccountOf
    <3> HIDE DEF e
    <3> QED BY <2>2, <3>1, <3>3
  <2>3. CASE a \notin DOMAIN M /\ H2 \subseteq G
    BY <2>1, <2>3
  <2> QED BY <2>2, <2>3
<1>3. Seen(H2, M, x) => Seen(G, L, x)
  BY <1>2 DEF Seen
<1> QED BY <1>1, <1>2, <1>3 DEF Ahead

LEMMA LockOrder ==
  ASSUME DeadlockInv, OrderInv, DbLock,
         NEW h, h = Head(queue[BankDB]),
         Held' \subseteq Held \cup {<<h.id, h.leg>>},
         AccountOf(h) \in DOMAIN lockedAccounts => Held' = Held
  PROVE  OrderInv'
<1>0. PICK L, q, O, G : /\ L = lockedAccounts /\ q = queue[BankDB] /\ O = OnWay /\ G = Held
  OBVIOUS
<1>a. PICK a : a = AccountOf(h)
  OBVIOUS
<1>1. /\ H!Takes(BankDB, "Lock") /\ queue[BankDB] # <<>> /\ round' = round
  BY DEF DbLock, tellers, H!Takes, H!Receives
<1>2. /\ TableOk(L) /\ Mailed /\ Exclusive(G, L) /\ h.type = "Lock" /\ h.id \in Transfer
      /\ h \in LockEvents /\ a \in Account /\ a = LegAccount(h.id, h.leg)
      /\ q \in Seq(Events)
  BY <1>0, <1>a, <1>1, LockHead, ContextKinds DEF AccountOf, Mailed, Tidy
<1>3. queue'[BankDB] = Tail(q) /\ OnWay' = O
  <2>1. \E s : H!Handle(BankDB, s) /\ (s # <<>> => Head(s).to \in Teller)
    <3>1. Reply(h, 0).to = TellerOf[h.id]
      BY DEF Reply, H!Addressed
    <3>2. <<Reply(h, 0)>> # <<>> => Head(<<Reply(h, 0)>>).to \in Teller
      BY <1>2, <3>1, OneMessage, ContextKinds
    <3>3. H!Handle(BankDB, <<>>) \/ H!Handle(BankDB, <<Reply(h, 0)>>)
      BY DEF DbLock
    <3> QED BY <3>2, <3>3
  <2> QED BY <1>0, <1>1, <1>2, <2>1, DbHandles
<1>4. PICK M, H2 : M = lockedAccounts' /\ H2 = Held'
  OBVIOUS
<1>5. ASSUME NEW x \in Transfer, NEW y \in Transfer, Before(x, y)' PROVE Before(x, y)
  <2>1. /\ x # y /\ TellerOf[x] = TellerOf[y]
        /\ Ahead(Tail(q), O, H2, M, x, y)
    BY <1>3, <1>4, <1>5 DEF Before
  <2>2. CASE a \in DOMAIN L
    <3>1. Enqueues(h, a, L, M) /\ H2 = G
      <4>1. M = [L EXCEPT ![a] = Append(@, h)]
        BY <1>0, <1>a, <1>4, <2>2 DEF DbLock
      <4>2. L = [b \in DOMAIN L |-> L[b]] /\ L[a] \in Seq(LockEvents)
        BY <1>2, <2>2 DEF TableOk
      <4>3. H2 = G
        BY <1>0, <1>a, <1>4, <2>2
      <4>4. PICK D : D = DOMAIN L
        OBVIOUS
      <4>5. PICK F : F = [b \in D |-> L[b]]
        OBVIOUS
      <4>6. L = F /\ DOMAIN F = D /\ a \in D
        BY <2>2, <4>2, <4>4, <4>5
      <4>7. M = [F EXCEPT ![a] = Append(F[a], h)]
        BY <4>1, <4>6
      <4>8. DOMAIN M = D /\ M[a] = Append(F[a], h) /\ \A b \in D : b # a => M[b] = F[b]
        BY <4>5, <4>6, <4>7
      <4> QED BY <4>2, <4>3, <4>6, <4>8 DEF Enqueues
    <3>2. q # <<>> /\ h = Head(q) /\ Ahead(Tail(q), O, G, M, x, y)
      BY <1>0, <1>1, <2>1, <3>1
    <3>3. Ahead(q, O, G, L, x, y)
      BY <1>2, <3>1, <3>2, WaitAhead
    <3> QED BY <1>0, <2>1, <3>3 DEF Before
  <2>3. CASE a \notin DOMAIN L
    <3>1. /\ DOMAIN M = DOMAIN L \cup {a} /\ M[a] = <<>> /\ \A b \in DOMAIN L : M[b] = L[b]
          /\ H2 \subseteq G \cup {<<h.id, h.leg>>}
      BY <1>0, <1>a, <1>2, <1>4, <2>3 DEF DbLock, WithEntry
    <3>2. Grants(h, a, L, M, G, H2)
      BY <1>2, <2>3, <3>1 DEF Grants
    <3>3. q # <<>> /\ h = Head(q)
      BY <1>0, <1>1
    <3>4. Ahead(q, O, G, L, x, y)
      BY <1>2, <2>1, <3>2, <3>3, GrantAhead
    <3> QED BY <1>0, <2>1, <3>4 DEF Before
  <2> QED BY <2>2, <2>3
<1>6. NoneNew
  BY <1>5 DEF NoneNew
<1>7. Asked' = Asked
  BY <1>1 DEF Asked
<1> QED BY <1>6, <1>7, OrderKept

LEMMA UnlockOrder ==
  ASSUME DeadlockInv, OrderInv, DbUnlock,
         NEW h, h = Head(queue[BankDB]), NEW a, a = AccountOf(h), HeldReleased(a)
  PROVE  OrderInv'
<1>0. PICK L, q, O, G : /\ L = lockedAccounts /\ q = queue[BankDB] /\ O = OnWay /\ G = Held
  OBVIOUS
<1> USE DEF HeldReleased
<1>1. /\ H!Takes(BankDB, "Unlock") /\ queue[BankDB] # <<>> /\ round' = round
  BY DEF DbUnlock, tellers, H!Takes, H!Receives
<1>2. TableOk(L) /\ Mailed /\ h.id \in Transfer /\ q \in Seq(Events)
  BY <1>0, <1>1, LockHead, ContextKinds DEF Mailed, Tidy
<1>3. queue'[BankDB] = Tail(q) /\ OnWay' = O
  <2>1. \E s : H!Handle(BankDB, s) /\ (s # <<>> => Head(s).to \in Teller)
    <3>1. Reply(h, 0).to = TellerOf[h.id]
      BY DEF Reply, H!Addressed
    <3>2. /\ <<Reply(h, 0)>> # <<>> => Head(<<Reply(h, 0)>>).to \in Teller
          /\ \A n : <<Reply(h, 0), n>> # <<>> => Head(<<Reply(h, 0), n>>).to \in Teller
      BY <1>2, <3>1, OneMessage, TwoMessages, ContextKinds
    <3>3. (\E n : H!Handle(BankDB, <<Reply(h, 0), n>>)) \/ H!Handle(BankDB, <<Reply(h, 0)>>)
      BY DEF DbUnlock, FreeAccount, HandOver
    <3> QED BY <3>2, <3>3
  <2> QED BY <1>0, <1>1, <1>2, <2>1, DbHandles
<1>4. PICK M, H2 : M = lockedAccounts' /\ H2 = Held'
  OBVIOUS
<1>5. Releases(a, L, M, G, H2)
  <2> USE DEF Releases
  <2>1. a \in DOMAIN L /\ L[a] \in Seq(LockEvents) /\ L = [b \in DOMAIN L |-> L[b]]
    BY <1>0, <1>2 DEF TableOk
  <2>2. CASE L[a] = <<>>
    <3>1. M = WithoutEntry(L, a)
      BY <1>0, <1>4, <2>1, <2>2 DEF DbUnlock, FreeAccount
    <3> QED BY <1>0, <1>4, <2>1, <2>2, <3>1 DEF WithoutEntry
  <2>3. CASE L[a] # <<>>
    <3>1. M = [L EXCEPT ![a] = Tail(@)]
      BY <1>0, <1>4, <2>1, <2>3 DEF DbUnlock, HandOver
    <3>2. AccountOf(Head(L[a])) = a
      BY <1>2, <2>1, <2>3, TailFacts DEF TableOk, Range
    <3> QED BY <1>0, <1>4, <2>1, <2>3, <3>1, <3>2
  <2> QED BY <2>2, <2>3
<1>6. ASSUME NEW x \in Transfer, NEW y \in Transfer, Before(x, y)' PROVE Before(x, y)
  <2>1. /\ x # y /\ TellerOf[x] = TellerOf[y]
        /\ Ahead(Tail(q), O, H2, M, x, y)
    BY <1>3, <1>4, <1>6 DEF Before
  <2>2. q # <<>>
    BY <1>0, <1>1
  <2>3. Ahead(q, O, G, L, x, y)
    BY <1>2, <1>5, <2>1, <2>2, UnlockAhead
  <2> QED BY <1>0, <2>1, <2>3 DEF Before
<1>7. NoneNew
  BY <1>6 DEF NoneNew
<1>8. Asked' = Asked
  BY <1>1 DEF Asked
<1> QED BY <1>7, <1>8, OrderKept

-----------------------------------------------------------------------------
(* A bank that is stuck.  What a transfer waits for is finite; so there is *)
(* one that waits for the fewest, and these wait for each other.           *)

LEMMA WaitsClosed ==
  ASSUME NEW x \in Transfer
  PROVE  /\ \A w \in Waits(x) \cup {x}, z \in Transfer : WaitsFor(w, z) => z \in Waits(x)
         /\ \A y \in Waits(x) : y \in Transfer /\ Waits(y) \subseteq Waits(x)
         /\ \A S \in SUBSET Transfer :
              (\A w \in S \cup {x}, z \in Transfer : WaitsFor(w, z) => z \in S) => Waits(x) \subseteq S
<1> DEFINE Closed(S, v) == \A w \in S \cup {v}, z \in Transfer : WaitsFor(w, z) => z \in S
<1>1. \A v \in Transfer : \A y : y \in Waits(v) <=>
        y \in Transfer /\ \A S \in SUBSET Transfer : Closed(S, v) => y \in S
  BY DEF Waits
<1>2. Closed(Waits(x), x)
  BY <1>1
<1>3. ASSUME NEW S \in SUBSET Transfer, Closed(S, x) PROVE Waits(x) \subseteq S
  BY <1>1, <1>3
<1>4. ASSUME NEW y \in Waits(x) PROVE y \in Transfer /\ Waits(y) \subseteq Waits(x)
  <2>1. y \in Transfer /\ Waits(x) \in SUBSET Transfer
    BY <1>1
  <2>2. Closed(Waits(x), y)
    BY <1>2
  <2> QED BY <1>1, <2>1, <2>2
<1> QED BY <1>2, <1>3, <1>4

LEMMA WaitingUndone ==
  ASSUME NEW W, RoundsInv(W), NEW p \in W, p.event.type = "Lock"
  PROVE  ~IsDone("Lock", p.event.id, p.event.leg)
<1> DEFINE P == Posts \cup W
<1>1. p \in P /\ OneEach(P) /\ Fits(p, round, heard)
  BY DEF RoundsInv, Settled
<1>2. IsDone("Lock", p.event.id, p.event.leg) => Done(P, round, heard, "Lock", p.event.id, p.event.leg)
  BY DEF IsDone, Done, Answer
<1> HIDE DEF P
<1>3. ~Done(P, round, heard, "Lock", p.event.id, p.event.leg)
  BY <1>1, LockKinds, NotYetDone
<1> QED BY <1>2, <1>3

LEMMA HoldersAre ==
  ASSUME DeadlockInv, NEW x \in Transfer, NEW a
  PROVE  x \in Holders(a) <=> Holding(Held, x, a)
<1>1. Mailed /\ "Lock" \in Range(Rounds) /\ "Unlock" \in Range(Rounds)
  BY LockKinds DEF DeadlockInv, RoundsInv
<1>2. \A l \in Legs : Holds(x, l) <=> <<x, l>> \in Held
  BY <1>1, AnsweredIsDone DEF Holds, Held, IsDone, AllLegs
<1> QED BY <1>2 DEF Holders, Holding

\* Who waits is in its first round, whom it waits for has asked before it if
\* they have one teller, and who waits for itself is from and to one account.
LEMMA WhoWaits ==
  ASSUME DeadlockInv, NEW x \in Transfer, NEW y \in Transfer, WaitsFor(x, y)
  PROVE  /\ y \in Asked /\ round[y] # "complete"
         /\ x # y /\ TellerOf[x] = TellerOf[y] => Before(y, x)
         /\ x = y => WaitsForItself(x)
<1>1. PICK a \in DOMAIN lockedAccounts :
        y \in Holders(a) /\ \E lock \in Range(lockedAccounts[a]) : lock.id = x
  BY DEF WaitsFor
<1>2. PICK e \in Range(lockedAccounts[a]) : e.id = x
  BY <1>1
<1>3. PICK l \in Legs : LegAccount(y, l) = a /\ <<y, l>> \in Held
  BY <1>1, HoldersAre DEF Holding
<1>4. PICK W : W = LockPosts(lockedAccounts)
  OBVIOUS
<1>5. RoundsInv(W) /\ TableOk(lockedAccounts) /\ "Lock" \in Range(Rounds) /\ "Unlock" \in Range(Rounds)
  BY <1>4, LockKinds DEF DeadlockInv
<1>6. e \in LockEvents /\ WaitingAt(a, e) \in W /\ e.type = "Lock" /\ e.leg \in Legs /\ AccountOf(e) = a
  BY <1>4, <1>5, InTable, LockKinds DEF TableOk
<1>7. Among(lockedAccounts[a], x)
  BY <1>2, <1>6 DEF Among, Locks, Range
<1>8. Holding(Held, y, a)
  BY <1>3 DEF Holding
<1>9. ASSUME x # y, TellerOf[x] = TellerOf[y] PROVE Before(y, x)
  BY <1>7, <1>8, <1>9 DEF Before, Ahead
<1>10. y \in Asked /\ round[y] # "complete"
  <2>1. IsDone("Unlock", y, l) \/ round[y] # "complete"
    BY <1>5, DoneByRound
  <2>2. ~IsDone("Unlock", y, l)
    BY <1>3 DEF Held
  <2> QED BY <1>3, <2>1, <2>2, WhoAsks
<1>11. ASSUME x = y PROVE WaitsForItself(x)
  <2>1. l # e.leg
    <3>1. ~IsDone("Lock", e.id, e.leg)
      <4>1. WaitingAt(a, e).event = e
        BY DEF WaitingAt
      <4> QED BY <1>5, <1>6, <4>1, WaitingUndone
    <3>2. IsDone("Lock", y, l)
      BY <1>3 DEF Held
    <3> QED BY <1>2, <1>11, <3>1, <3>2
  <2>2. LegAccount(x, "debit") = a /\ LegAccount(x, "credit") = a
    BY <1>2, <1>3, <1>6, <1>11, <2>1 DEF Legs, AccountOf
  <2>3. From[x] = To[x]
    BY <2>2 DEF LegAccount
  <2> QED BY <1>11, <2>3 DEF WaitsForItself
<1> QED BY <1>9, <1>10, <1>11

\* When nothing is in flight, who is neither finished nor left without a
\* balance waits for a holder.
LEMMA StuckWaits ==
  ASSUME DeadlockInv, Quiescent, NEW x \in Transfer, Unfinished(x), ~GetUnanswered(x)
  PROVE  \E y \in Transfer : WaitsFor(x, y)
<1>0. PICK W : W = LockPosts(lockedAccounts)
  OBVIOUS
<1>1. /\ RoundsInv(W) /\ TableOk(lockedAccounts) /\ Exclusive(Held, lockedAccounts) /\ "Lock" \in Range(Rounds)
      /\ round[x] \in Awaits
  BY <1>0, LockKinds DEF DeadlockInv, RoundsInv
<1>2. Posts = {}
  <2>1. ASSUME NEW p \in Posts PROVE FALSE
    <3>1. CASE p \in Queued(queue)
      <4>1. p.at \in Context /\ p.event \in InFlight(p.at)
        BY <3>1 DEF Queued, InFlight
      <4> QED BY <4>1 DEF Quiescent
    <3>2. CASE p \in ToSend(sending)
      <4>1. p.at \in Context /\ p.event \in InFlight(p.at)
        BY <3>2 DEF ToSend, InFlight
      <4> QED BY <4>1 DEF Quiescent
    <3> QED BY <3>1, <3>2 DEF Posts
  <2> QED BY <2>1
<1>3. \E l \in Legs \cup {"both"} : Owed(x, l, round, heard)
  <2>1. CASE round[x] = "TransferMoney"
    BY <2>1 DEF Owed
  <2>2. CASE round[x] \in Range(Rounds)
    <3>1. HeardOf(x, round, heard)
      BY <1>1 DEF RoundsInv, Settled
    <3>2. PICK l \in Legs : l \notin DOMAIN heard[x]
      BY <3>1 DEF HeardOf
    <3> QED BY <2>2, <3>2 DEF Owed, GetUnanswered
  <2> QED BY <1>1, <2>1, <2>2 DEF Unfinished, Awaits
<1>4. PICK p \in W : \E l \in Legs \cup {"both"} : Key(p.event) = <<x, l>>
  BY <1>1, <1>2, <1>3 DEF RoundsInv, Settled, Present
<1>5. PICK a \in DOMAIN lockedAccounts : p.event \in Range(lockedAccounts[a])
  BY <1>0, <1>4 DEF LockPosts
<1>6. p.event.id = x
  <2>1. p.event \in LockEvents
    BY <1>1, <1>5, InTable
  <2> QED BY <1>4, <2>1, LockKinds
<1>7. PICK k \in Held : AccountAt(k) = a
  BY <1>1, <1>5 DEF Exclusive
<1>8. k[1] \in Transfer /\ k[2] \in Legs /\ k = <<k[1], k[2]>>
  BY <1>7 DEF Held, AllLegs
<1>9. Holding(Held, k[1], a)
  BY <1>7, <1>8 DEF Holding, AccountAt
<1>10. k[1] \in Holders(a)
  BY <1>8, <1>9, HoldersAre
<1> QED BY <1>5, <1>6, <1>8, <1>10 DEF WaitsFor

LEMMA LeastNumber ==
  ASSUME NEW S \in SUBSET Nat, S # {}
  PROVE  \E n \in S : \A m \in S : n <= m
<1>1. PICK n \in S : \A m \in S : ~(<<m, n>> \in OpToRel(<, Nat))
  <2>1. IsWellFoundedOn(OpToRel(<, Nat), S)
    BY NatLessThanWellFounded, IsWellFoundedOnSubset
  <2> QED BY <2>1, WFMin
<1>2. \A m \in S : ~(m < n)
  BY <1>1 DEF OpToRel
<1> QED BY <1>2

LEMMA StuckFollows == DeadlockInv /\ OrderInv => StuckOnlyByDesign
<1> SUFFICES ASSUME DeadlockInv, OrderInv, Quiescent, NEW x \in Transfer, Unfinished(x),
                    \A y \in {x} \cup Waits(x) :
                      ~InCircularWait(y) /\ ~WaitsForItself(y) /\ ~GetUnanswered(y)
             PROVE  FALSE
  BY DEF StuckOnlyByDesign
<1> DEFINE R == {x} \cup Waits(x)
<1>1. R \subseteq Transfer /\ \A y \in R : Waits(y) \subseteq Waits(x)
  BY WaitsClosed
<1>2. ASSUME NEW y \in R PROVE Waits(y) \subseteq Asked /\ Unfinished(y) /\ \E z \in Transfer : WaitsFor(y, z)
  <2>1. ASSUME NEW v \in Transfer PROVE Waits(v) \subseteq {z \in Asked : round[z] # "complete"}
    <3>1. \A w \in Transfer, z \in Transfer : WaitsFor(w, z) => z \in Asked /\ round[z] # "complete"
      BY WhoWaits
    <3> DEFINE S == {z \in Asked : round[z] # "complete"}
    <3>2. S \in SUBSET Transfer
      BY DEF Asked
    <3>3. \A w \in S \cup {v}, z \in Transfer : WaitsFor(w, z) => z \in S
      BY <3>1, <3>2
    <3> HIDE DEF S
    <3>4. Waits(v) \subseteq S
      BY <3>2, <3>3, WaitsClosed
    <3> QED BY <3>4 DEF S
  <2>2. Waits(y) \subseteq Asked
    BY <1>1, <2>1
  <2>3. Unfinished(y)
    BY <2>1 DEF Asked, Unfinished
  <2> QED BY <1>1, <2>2, <2>3, StuckWaits
<1>3. PICK y \in R : \A z \in R : Waits(z) \subseteq Waits(y) => Waits(z) = Waits(y)
  <2> DEFINE Sets == {Waits(z) : z \in R}
  <2>1. Sets \subseteq FiniteSubsetsOf(Asked)
    BY <1>2, FS_Subset DEF OrderInv, FiniteSubsetsOf
  <2>2. Sets # {}
    OBVIOUS
  <2>3. PICK s \in Sets : \A u \in Sets : ~(<<u, s>> \in StrictSubsetOrdering(Asked))
    <3>1. IsWellFoundedOn(StrictSubsetOrdering(Asked), FiniteSubsetsOf(Asked))
      BY FS_StrictSubsetOrderingWellFounded
    <3> HIDE DEF Sets
    <3> QED BY <2>1, <2>2, <3>1, WFMin
  <2>4. PICK z \in R : s = Waits(z)
    OBVIOUS
  <2>5. ASSUME NEW u \in R, Waits(u) \subseteq Waits(z) PROVE Waits(u) = Waits(z)
    BY <1>2, <2>3, <2>4, <2>5 DEF StrictSubsetOrdering
  <2> QED BY <2>4, <2>5
<1>4. PICK V : V = Waits(y)
  OBVIOUS
<1>5. V \subseteq R /\ V \subseteq Transfer /\ V # {} /\ \A w \in V : Waits(w) = V
  <2>1. V \subseteq R /\ V \subseteq Transfer
    BY <1>1, <1>4
  <2>2. \A w \in V : Waits(w) \subseteq V
    BY <1>1, <1>4, WaitsClosed
  <2>3. V # {}
    BY <1>1, <1>2, <1>4, WaitsClosed
  <2> QED BY <1>3, <1>4, <2>1, <2>2, <2>3
<1>6. \A v, w \in V : TellerOf[v] = TellerOf[w]
  <2> SUFFICES ASSUME NEW v \in V, NEW w \in V, TellerOf[v] # TellerOf[w] PROVE FALSE
    OBVIOUS
  <2>1. InCircularWait(v)
    BY <1>5 DEF InCircularWait
  <2> QED BY <1>5, <2>1
<1>7. PICK f \in [Transfer -> Nat] : \A v, w \in Transfer : Before(v, w) => f[v] < f[w]
  BY DEF OrderInv, OrderedBy
<1>8. PICK w \in V : \A v \in V : f[w] <= f[v]
  <2> DEFINE Ns == {f[v] : v \in V}
  <2>1. Ns \subseteq Nat /\ Ns # {}
    BY <1>5, <1>7
  <2>2. PICK n \in Ns : \A m \in Ns : n <= m
    <3> HIDE DEF Ns
    <3> QED BY <2>1, LeastNumber
  <2> QED BY <2>2
<1>9. PICK z \in Transfer : WaitsFor(w, z)
  BY <1>2, <1>5
<1>10. z \in V /\ w \in Transfer
  BY <1>5, <1>9, WaitsClosed
<1>11. z # w
  BY <1>5, <1>9, <1>10, WhoWaits
<1>12. Before(z, w)
  BY <1>6, <1>9, <1>10, <1>11, WhoWaits
<1>13. f[z] < f[w] /\ f[w] <= f[z] /\ f[z] \in Nat /\ f[w] \in Nat
  BY <1>7, <1>8, <1>10, <1>12
<1> QED BY <1>13

-----------------------------------------------------------------------------
LEMMA DeadlockStarts == DeadlockInit => DeadlockInv
<1> SUFFICES ASSUME DeadlockInit PROVE DeadlockInv
  OBVIOUS
<1>1. /\ RoundsInv({}) /\ BooksOk /\ Posts = {} /\ \A k \in Requesting : ~IsDone(k[1], k[2], k[3])
      /\ lockedAccounts = [a \in {} |-> <<>>]
  BY InitRounds DEF DeadlockInit
<1>2. accounts = Nothing /\ round = [x \in Transfer |-> "unsent"]
  BY DEF DeadlockInit, Init
<1>3. DOMAIN lockedAccounts = {} /\ LockPosts(lockedAccounts) = {} /\ TableOk(lockedAccounts)
  BY <1>1 DEF LockPosts, TableOk
<1>4. ASSUME NEW p \in AllLegs, NEW r \in {"Lock", "Set"} PROVE ~IsDone(r, p[1], p[2])
  <2>1. PICK k \in Requesting : k = <<r, p[1], p[2]>>
    BY LockKinds DEF AllLegs, Requesting
  <2>2. ~IsDone(k[1], k[2], k[3])
    BY <1>1
  <2> QED BY <2>1, <2>2
<1>5. Held = {}
  BY <1>4 DEF Held
<1>6. Exclusive(Held, lockedAccounts)
  BY <1>3, <1>5 DEF Exclusive
<1>7. DebitedFirst
  <2> SUFFICES ASSUME NEW x \in Transfer PROVE ~IsDone("Set", x, "credit")
    BY DEF DebitedFirst
  <2>1. PICK p \in AllLegs : p = <<x, "credit">>
    BY DEF AllLegs, Legs
  <2> QED BY <1>4, <2>1
<1>8. KnownIn(Balances)
  BY <1>1, <1>2 DEF KnownIn, Known, HeardIn
<1> QED BY <1>1, <1>3, <1>6, <1>7, <1>8 DEF DeadlockInv

LEMMA OrderStarts == DeadlockInit => OrderInv
<1> SUFFICES ASSUME DeadlockInit PROVE OrderInv
  OBVIOUS
<1>1. /\ lockedAccounts = [a \in {} |-> <<>>] /\ round = [x \in Transfer |-> "unsent"]
      /\ queue = [c \in Context |-> <<>>] /\ sending = [c \in Context |-> <<>>]
  BY DEF DeadlockInit, Init
<1>2. Asked = {} /\ OnWay = {} /\ queue[BankDB] = <<>> /\ DOMAIN lockedAccounts = {}
  BY <1>1, ContextKinds DEF Asked, OnWay
<1>3. ASSUME NEW x \in Transfer, NEW y \in Transfer PROVE ~Before(x, y)
  BY <1>2 DEF Before, Ahead, InTurn, Among, Seen
<1>4. PICK f : f = [x \in Transfer |-> 0]
  OBVIOUS
<1>5. OrderedBy(f, 0)
  BY <1>2, <1>3, <1>4 DEF OrderedBy
<1>6. \E g, n : OrderedBy(g, n)
  BY <1>5
<1> QED BY <1>2, <1>6, FS_EmptySet DEF OrderInv

LEMMA DbKeepsOrder ==
  ASSUME DeadlockInv, OrderInv, DeadlockDbStep
  PROVE  DeadlockInv' /\ OrderInv' /\ AbstractStep
<1>h. PICK h, a : h = Head(queue[BankDB]) /\ a = AccountOf(h)
  OBVIOUS
<1>1. CASE DbLock
  <2>1. /\ DeadlockInv' /\ AbstractStep
        /\ Held' \subseteq Held \cup {<<h.id, h.leg>>}
        /\ AccountOf(h) \in DOMAIN lockedAccounts => Held' = Held
    BY <1>h, <1>1, LockKeeps
  <2>2. OrderInv'
    BY <1>h, <1>1, <2>1, LockOrder
  <2> QED BY <2>1, <2>2
<1>2. CASE DbUnlock
  <2>1. DeadlockInv' /\ AbstractStep /\ HeldReleased(a)
    BY <1>h, <1>2, UnlockKeeps
  <2>2. OrderInv'
    BY <1>h, <1>2, <2>1, UnlockOrder
  <2> QED BY <2>1, <2>2
<1>3. CASE (DbSetupAccount \/ DbGet \/ DbSet) /\ UNCHANGED lockedAccounts
  <2>1. LocksSame /\ AbstractStep
    BY <1>3, SetupKeeps, GetKeeps, SetKeeps
  <2> QED BY <1>3, <2>1, DbOrder DEF LocksSame
<1>4. CASE Continue(BankDB) /\ UNCHANGED lockedAccounts
  <2>1. LocksSame /\ AbstractStep
    BY <1>4, ContinueKeeps, ContextKinds
  <2> QED BY <1>4, <2>1, ContinueOrder, ContextKinds DEF LocksSame
<1> QED BY <1>1, <1>2, <1>3, <1>4 DEF DeadlockDbStep, DbStep

LEMMA DeadlockStep == DeadlockInv /\ OrderInv /\ [Next]_vars => DeadlockInv' /\ OrderInv' /\ AbstractStep
<1> SUFFICES ASSUME DeadlockInv, OrderInv, [Next]_vars PROVE DeadlockInv' /\ OrderInv' /\ AbstractStep
  OBVIOUS
<1>1. CASE CustomerStep /\ UNCHANGED lockedAccounts
  BY <1>1, CustomerKeeps, CustomerOrder DEF LocksSame
<1>2. CASE DeadlockDbStep
  BY <1>2, DbKeepsOrder
<1>3. ASSUME NEW t \in Teller, DeadlockTellerStep(t) PROVE DeadlockInv' /\ OrderInv' /\ AbstractStep
  <2>1. LocksSame /\ AbstractStep
    BY <1>3, TellerKeeps
  <2>2. (Continue(t) \/ OnTransferMoney(t) \/ OnResponse(t)) /\ UNCHANGED lockedAccounts /\ t \in Context
    BY <1>3, ContextKinds DEF DeadlockTellerStep, TellerStep
  <2>3. OrderInv'
    BY <2>1, <2>2, ContinueOrder, TransferOrder, ResponseOrder DEF LocksSame
  <2> QED BY <2>1, <2>3 DEF LocksSame
<1>4. CASE UNCHANGED vars
  <2>1. /\ accounts' = accounts /\ queue' = queue /\ sending' = sending /\ round' = round
        /\ heard' = heard /\ unsent' = unsent /\ opened' = opened /\ lockedAccounts' = lockedAccounts
    BY <1>4 DEF vars
  <2>2. PICK W : W = LockPosts(lockedAccounts)
    OBVIOUS
  <2>3. RoundsInv(W) /\ KnownIn(Balances) /\ unsent \subseteq Setup /\ Mailed
    BY <2>2 DEF DeadlockInv, BooksOk, RoundsInv
  <2>4. RoundsInv(W)' /\ Posts' = Posts /\ Mailed'
    BY <2>1, <2>3 DEF RoundsInv, Mailed, Destined, Posts
  <2>5. Answers({})
    BY <2>1, <2>4 DEF Answers, IsDone
  <2>6. Known(Posts', round', heard', Balances) /\ unsent' \subseteq Setup
    BY <2>1, <2>3, <2>4 DEF KnownIn
  <2>7. DeadlockInv' /\ Held' = Held
    BY <2>1, <2>2, <2>4, <2>5, <2>6, QuietKeeps DEF LocksSame
  <2>8. OrderInv'
    <3>1. Asked' = Asked /\ OnWay' = OnWay
      BY <2>1 DEF Asked, OnWay
    <3>2. FewerLocks
      BY <2>1, <3>1 DEF FewerLocks
    <3> QED BY <2>1, <2>7, <3>1, <3>2, QuietOrder
  <2> QED BY <2>1, <2>3, <2>4, <2>5, <2>7, <2>8, QuietStutters
<1> QED BY <1>1, <1>2, <1>3, <1>4 DEF Next

LEMMA LocksExclude == DeadlockInv => DeadlockTypeOK /\ MutualExclusion
<1> SUFFICES ASSUME DeadlockInv PROVE DeadlockTypeOK /\ MutualExclusion
  OBVIOUS
<1>1. RoundsInv(LockPosts(lockedAccounts)) /\ Mailed /\ Exclusive(Held, lockedAccounts) /\ TableOk(lockedAccounts)
  BY DEF DeadlockInv, RoundsInv
<1>2. DeadlockTypeOK
  <2>1. TypeOK
    BY <1>1, TypesFollow DEF DeadlockInv
  <2> QED BY <1>1, <2>1 DEF DeadlockTypeOK, TableOk, LockEvents
<1>3. ASSUME NEW x \in Transfer, NEW l \in Legs PROVE Holds(x, l) <=> <<x, l>> \in Held
  <2>1. "Lock" \in Range(Rounds) /\ "Unlock" \in Range(Rounds)
    BY LockKinds
  <2> QED BY <1>1, <2>1, AnsweredIsDone DEF Holds, Held, IsDone, AllLegs
<1>4. ASSUME NEW a \in Account
      PROVE  Cardinality(Holders(a)) = IF a \in DOMAIN lockedAccounts THEN 1 ELSE 0
  <2>1. CASE a \in DOMAIN lockedAccounts
    <3>1. PICK p \in Held : AccountAt(p) = a
      BY <1>1, <2>1 DEF Exclusive
    <3>2. p \in AllLegs /\ p = <<p[1], p[2]>> /\ p[1] \in Transfer /\ p[2] \in Legs
      BY <3>1 DEF Held, AllLegs
    <3>3. Holders(a) = {p[1]}
      <4>1. ASSUME NEW x \in Holders(a) PROVE x = p[1]
        <5>1. PICK l \in Legs : LegAccount(x, l) = a /\ Holds(x, l) /\ x \in Transfer
          BY DEF Holders
        <5>2. PICK q : q = <<x, l>>
          OBVIOUS
        <5>3. q \in Held /\ AccountAt(q) = a
          BY <1>3, <5>1, <5>2 DEF AccountAt
        <5> QED BY <1>1, <3>1, <5>2, <5>3 DEF Exclusive
      <4>2. p[1] \in Holders(a)
        BY <1>3, <3>1, <3>2 DEF Holders, AccountAt
      <4> QED BY <4>1, <4>2
    <3> QED BY <2>1, <3>3, FS_Singleton
  <2>2. CASE a \notin DOMAIN lockedAccounts
    <3>1. ASSUME NEW x \in Holders(a) PROVE FALSE
      <4>1. PICK l \in Legs : LegAccount(x, l) = a /\ Holds(x, l) /\ x \in Transfer
        BY DEF Holders
      <4>2. PICK q : q = <<x, l>>
        OBVIOUS
      <4>3. q \in Held /\ AccountAt(q) = a
        BY <1>3, <4>1, <4>2 DEF AccountAt
      <4> QED BY <1>1, <2>2, <4>3 DEF Exclusive
    <3>2. Holders(a) = {}
      BY <3>1
    <3> QED BY <2>2, <3>2, FS_EmptySet
  <2> QED BY <2>1, <2>2
<1> QED BY <1>2, <1>4 DEF MutualExclusion

(* In every state, of any accounts, tellers and transfers: an account in   *)
(* the lock table has exactly one holder, whoever its lock was handed to   *)
(* and in whatever order the answers arrive, and one that is not in the    *)
(* table has none.  And when nothing is in flight, every transfer that is  *)
(* not finished waits for a circular wait of two tellers, for a transfer   *)
(* from an account to itself, or for a Get of an account that does not     *)
(* exist: no grant of a lock is ever lost.                                 *)
THEOREM LocksAlwaysSafe == Spec => []LocksSafe
<1>1. DeadlockInv /\ OrderInv /\ [Next]_vars => DeadlockInv' /\ OrderInv'
  BY DeadlockStep
<1>2. DeadlockInv /\ OrderInv => LocksSafe
  BY LocksExclude, StuckFollows DEF LocksSafe
<1> QED BY <1>1, <1>2, DeadlockStarts, OrderStarts, PTL DEF Spec

(* Every behaviour of the bank with locks is one of the abstract bank: as  *)
(* a teller holds both locks from its Gets to its Sets, each Set adds its  *)
(* leg to the balance of that moment, once, the debit first.               *)
THEOREM LocksImplement == Spec => ImplementsBank
<1>1. DeadlockInv /\ OrderInv /\ [Next]_vars => DeadlockInv' /\ OrderInv'
  BY DeadlockStep
<1>2. DeadlockInv /\ OrderInv /\ [Next]_vars => [BK!Next]_(BK!vars)
  BY DeadlockStep DEF AbstractStep
<1>3. DeadlockInit => BK!Init
  <2> SUFFICES ASSUME DeadlockInit PROVE BK!Init
    OBVIOUS
  <2>1. accounts = Nothing /\ opened = Nothing /\ round = [x \in Transfer |-> "unsent"]
    BY DEF DeadlockInit, Init
  <2>2. ASSUME NEW x \in Transfer PROVE Stage(x) = "pending"
    <3>1. Mailed /\ \A k \in Requesting : ~IsDone(k[1], k[2], k[3])
      BY InitRounds DEF DeadlockInit, RoundsInv
    <3>2. ASSUME NEW l \in Legs PROVE ~IsDone("Set", x, l)
      <4>1. PICK k \in Requesting : k = <<"Set", x, l>>
        BY LockKinds DEF Requesting
      <4> QED BY <3>1, <4>1
    <3>3. "credit" \in Legs /\ "debit" \in Legs
      BY DEF Legs
    <3> QED BY <2>1, <3>1, <3>2, <3>3, StageIs DEF StageAt
  <2> QED BY <2>1, <2>2 DEF BK!Init, Nothing
<1> QED BY <1>1, <1>2, <1>3, DeadlockStarts, OrderStarts, PTL DEF Spec, ImplementsBank, BK!Spec

-----------------------------------------------------------------------------
(* What Bank_proofs says of Bank holds for the bank that implements it.    *)
LEMMA SameBank == BK!Spec => BP!Spec
<1>1. BK!Init => BP!Init
  BY DEF BK!Init, BP!Init
<1>2. \A s \in Setup : BK!OpenAccount(s) => BP!OpenAccount(s)
  BY DEF BK!OpenAccount, BP!OpenAccount, BK!WithEntry, BP!WithEntry
<1>3. \A x \in Transfer : BK!Debit(x) => BP!Debit(x)
  BY DEF BK!Debit, BP!Debit, BK!AddToAccount, BP!AddToAccount,
         BK!LegAccount, BP!LegAccount, BK!LegAmt, BP!LegAmt
<1>4. \A x \in Transfer : BK!Credit(x) => BP!Credit(x)
  BY DEF BK!Credit, BP!Credit, BK!AddToAccount, BP!AddToAccount,
         BK!LegAccount, BP!LegAccount, BK!LegAmt, BP!LegAmt
<1>5. \A x \in Transfer : BK!Complete(x) => BP!Complete(x)
  BY DEF BK!Complete, BP!Complete
<1>6. [BK!Next]_(BK!vars) => [BP!Next]_(BP!vars)
  BY <1>2, <1>3, <1>4, <1>5 DEF BK!Next, BP!Next, BK!vars, BP!vars
<1> QED BY <1>1, <1>6, PTL DEF BK!Spec, BP!Spec

LEMMA SameConservation == BP!Conservation => BK!Conservation
  BY DEF BP!Conservation, BK!Conservation, BP!TotalOf, BK!TotalOf,
         BP!InTransit, BK!InTransit, BP!MapThenSumSet, BK!MapThenSumSet,
         BP!MapThenFoldSet, BK!MapThenFoldSet

(* In every state the balances and the money between the two legs of some  *)
(* transfer add up to what the accounts were set up with.                  *)
THEOREM LocksConserveMoney == Spec => []BK!Conservation
<1>1. BP!Spec => []BP!Conservation
  BY BankAssumption, BP!MoneyConserved
<1> QED BY <1>1, LocksImplement, SameBank, SameConservation, PTL DEF ImplementsBank
=============================================================================
