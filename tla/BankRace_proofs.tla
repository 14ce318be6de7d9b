--------------------------- MODULE BankRace_proofs ---------------------------
(***************************************************************************)
(* Proof that the race of BankRace loses updates and does nothing else,    *)
(* for any accounts, tellers and transfers.                                *)
(***************************************************************************)
EXTENDS BankRace, BankRounds_proofs, FiniteSetTheorems

\* For its lemmas on sums over finite sets.
BP == INSTANCE Bank_proofs WITH stage <- [x \in Transfer |-> Stage(x)]

-----------------------------------------------------------------------------
(* The sum of the amounts of a set of legs.                                *)

AmtOf == [p \in AllLegs |-> LegAmt(p[1], p[2])]

LEMMA SameFinite == \A S : BP!IsFiniteSet(S) <=> IsFiniteSet(S)
  BY DEF IsFiniteSet, BP!IsFiniteSet

LEMMA SumIs ==
  ASSUME NEW L \in SUBSET AllLegs, IsFiniteSet(L)
  PROVE  Sum(L) = BP!SumOver(AmtOf, L)
<1> DEFINE Adding(g) == g = [s \in SUBSET L |-> IF s = {} THEN 0
                               ELSE LegAmt(BP!Pick(s)[1], BP!Pick(s)[2]) + g[BP!Rest(s)]]
<1>1. PICK g : BP!Summing(AmtOf, L, g)
  BY BP!SummingExists, BankAssumption, SameFinite
<1>2. BP!SumOver(AmtOf, L) = g[L]
  BY <1>1, BP!SumOverIs, BankAssumption, SameFinite
<1>3. ASSUME NEW h PROVE Adding(h) <=> BP!Summing(AmtOf, L, h)
  <2>1. ASSUME NEW s \in SUBSET L, s # {} PROVE LegAmt(BP!Pick(s)[1], BP!Pick(s)[2]) = AmtOf[BP!Pick(s)]
    <3>1. BP!Pick(s) \in AllLegs
      BY <2>1, BP!PickFacts, BankAssumption
    <3> QED BY <3>1 DEF AmtOf
  <2> QED BY <2>1 DEF BP!Summing
<1>4. ASSUME NEW h, BP!Summing(AmtOf, L, h) PROVE h = g
  <2>1. \A s \in SUBSET L : h[s] = g[s]
    BY <1>1, <1>4, BP!SummingUnique, FS_Subset, BankAssumption, SameFinite
  <2> QED BY <1>1, <1>4, <2>1 DEF BP!Summing
<1>5. (CHOOSE h : Adding(h)) = g
  <2>1. Adding(g) /\ \A h : Adding(h) => h = g
    BY <1>1, <1>3, <1>4
  <2> HIDE DEF Adding
  <2> QED BY <2>1
<1>6. Sum(L) = (CHOOSE h : Adding(h))[L]
  BY DEF Sum, MapThenSumSet, MapThenFoldSet, BP!Pick, BP!Rest
<1> QED BY <1>2, <1>5, <1>6

LEMMA SumAdds ==
  ASSUME NEW L \in SUBSET AllLegs, IsFiniteSet(L), NEW x \in Transfer, NEW l \in Legs, <<x, l>> \notin L
  PROVE  /\ Sum(L \cup {<<x, l>>}) = Sum(L) + LegAmt(x, l)
         /\ IsFiniteSet(L \cup {<<x, l>>}) /\ Sum(L) \in Int
<1>1. <<x, l>> \in AllLegs /\ AmtOf[<<x, l>>] = LegAmt(x, l)
  BY DEF AllLegs, AmtOf
<1>2. \A p \in AllLegs : AmtOf[p] \in Int
  BY BankAssumption DEF AllLegs, AmtOf, LegAmt
<1>3. BP!IntOn(AmtOf, L \cup {<<x, l>>}) /\ BP!SameOn(AmtOf, AmtOf, L)
  BY <1>1, <1>2 DEF BP!IntOn, BP!SameOn
<1>4. /\ BP!SumOver(AmtOf, L \cup {<<x, l>>}) = AmtOf[<<x, l>>] + BP!SumOver(AmtOf, L)
      /\ BP!SumOver(AmtOf, L) \in Int
      /\ IsFiniteSet(L \cup {<<x, l>>})
  <2>1. PICK y : y = <<x, l>>
    OBVIOUS
  <2>2. BP!IsFiniteSet(L) /\ y \notin L /\ BP!IntOn(AmtOf, L \cup {y}) /\ BP!SameOn(AmtOf, AmtOf, L)
    BY <1>3, <2>1, SameFinite
  <2>3. BP!SumOver(AmtOf, L) \in Int /\ BP!IsFiniteSet(L \cup {y})
    BY <2>2, BP!SumOverAdd, BankAssumption
  <2>4. AmtOf[y] \in Int
    BY <2>2 DEF BP!IntOn
  <2>5. BP!SumOver(AmtOf, L \cup {y}) = AmtOf[y] + BP!SumOver(AmtOf, L)
    BY <2>2, <2>3, <2>4, BP!SumOverAdd, BankAssumption
  <2> QED BY <2>1, <2>3, <2>5, SameFinite
<1>5. Sum(L) = BP!SumOver(AmtOf, L)
  BY SumIs
<1>6. Sum(L \cup {<<x, l>>}) = BP!SumOver(AmtOf, L \cup {<<x, l>>})
  BY <1>1, <1>4, SumIs
<1>7. LegAmt(x, l) \in Int
  BY <1>1, <1>2
<1> QED BY <1>1, <1>4, <1>5, <1>6, <1>7

LEMMA SumOfNone == Sum({}) = 0 /\ IsFiniteSet({})
<1>1. IsFiniteSet({}) /\ {} \in SUBSET AllLegs
  BY FS_EmptySet
<1>2. Sum({}) = BP!SumOver(AmtOf, {})
  BY <1>1, SumIs
<1>3. BP!SumOver(AmtOf, {}) = 0
  BY <1>1, BP!SumOverDef, BankAssumption, SameFinite
<1> QED BY <1>1, <1>2, <1>3

-----------------------------------------------------------------------------
(* The invariant.  A balance that a teller has got is what the account was *)
(* set up with plus the amounts of some of the legs done on it, and so is  *)
(* the balance of the account itself.                                      *)

LegDone(x, l) == IsDone("Set", x, l)

DoneLegs(a) == {p \in AllLegs : LegAccount(p[1], p[2]) = a /\ LegDone(p[1], p[2])}

\* v is a balance that account a has or had, after the legs L.
Explains(L, a, v) ==
  L \in SUBSET DoneLegs(a) /\ IsFiniteSet(L) /\ v = opened[a] + Sum(L)

Balances ==
  {t \in Transfer \X Legs \X Int :
     /\ LegAccount(t[1], t[2]) \in DOMAIN accounts
     /\ \E L : Explains(L, LegAccount(t[1], t[2]), t[3])}

\* Once legs have been done on account a, its balance keeps at least one.
Keeps(a) == \E L : Explains(L, a, accounts[a]) /\ (DoneLegs(a) # {} => L # {})

RaceInv ==
  /\ RoundsInv({})
  /\ BooksOk
  /\ \A a \in DOMAIN accounts : Keeps(a)
  /\ \A p \in AllLegs : LegDone(p[1], p[2]) => LegAccount(p[1], p[2]) \in DOMAIN accounts
  /\ KnownIn(Balances)

LEMMA DoneLegsIs == ASSUME RoundsInv({}), NEW a PROVE DoneLegs(a) = LegsDone(a)
<1>1. Mailed /\ "Set" \in Range(Rounds)
  BY RoundKinds DEF RoundsInv
<1>2. ASSUME NEW x \in Transfer, NEW l \in Legs PROVE Answered("Set", x, l) <=> LegDone(x, l)
  BY <1>1, AnsweredIsDone DEF LegDone, IsDone
<1> QED BY <1>2 DEF DoneLegs, LegsDone, AllLegs

LEMMA RaceSafe == RaceInv => LostNeverInvented
<1> SUFFICES ASSUME RaceInv, NEW a \in DOMAIN accounts
             PROVE  \E legs \in SUBSET LegsDone(a) :
                      /\ accounts[a] = opened[a] + Sum(legs)
                      /\ LegsDone(a) # {} => legs # {}
  BY DEF LostNeverInvented
<1>1. DoneLegs(a) = LegsDone(a)
  BY DoneLegsIs DEF RaceInv
<1>2. PICK L : Explains(L, a, accounts[a]) /\ (DoneLegs(a) # {} => L # {})
  BY DEF RaceInv, Keeps
<1> QED BY <1>1, <1>2 DEF Explains

LEMMA RaceInit == Init => RaceInv
<1> SUFFICES ASSUME Init PROVE RaceInv
  OBVIOUS
<1>1. RoundsInv({}) /\ BooksOk /\ Posts = {} /\ \A k \in Requesting : ~IsDone(k[1], k[2], k[3])
  BY InitRounds
<1>2. accounts = Nothing /\ DOMAIN accounts = {} /\ round = [x \in Transfer |-> "unsent"]
  BY DEF Init, Nothing
<1>3. ASSUME NEW p \in AllLegs PROVE ~LegDone(p[1], p[2])
  <2>1. <<"Set", p[1], p[2]>> \in Requesting
    BY RoundKinds DEF AllLegs, Requesting
  <2> QED BY <1>1, <2>1 DEF LegDone
<1>4. KnownIn(Balances)
  BY <1>1, <1>2 DEF KnownIn, Known, HeardIn
<1> QED BY <1>1, <1>2, <1>3, <1>4 DEF RaceInv

\* A step that leaves the accounts alone and answers no Set.
Quiet ==
  /\ accounts' = accounts /\ opened' = opened
  /\ \A p \in AllLegs : LegDone(p[1], p[2])' <=> LegDone(p[1], p[2])

LEMMA QuietStep ==
  ASSUME RaceInv, RoundsInv({})', unsent' \subseteq Setup, Quiet, Known(Posts', round', heard', Balances)
  PROVE  RaceInv'
<1>1. \A a : DoneLegs(a)' = DoneLegs(a)
  BY DEF Quiet, DoneLegs
<1>2. \A L, a, v : Explains(L, a, v)' <=> Explains(L, a, v)
  BY <1>1 DEF Explains, Quiet
<1>3. Balances' = Balances
  BY <1>2 DEF Balances, Quiet
<1>4. KnownIn(Balances)'
  BY <1>3 DEF KnownIn
<1>5. \A a \in DOMAIN accounts' : Keeps(a)'
  BY <1>1, <1>2 DEF RaceInv, Keeps, Quiet
<1> QED BY <1>4, <1>5 DEF RaceInv, Quiet, BooksOk

LEMMA QuietAnswers ==
  ASSUME NEW more, Answers(more), \A k \in more : k[1] # "Set", UNCHANGED <<accounts, opened>>
  PROVE  Quiet
<1>1. ASSUME NEW p \in AllLegs PROVE LegDone(p[1], p[2])' <=> LegDone(p[1], p[2])
  <2>1. PICK k \in Requesting : k = <<"Set", p[1], p[2]>>
    BY RoundKinds DEF AllLegs, Requesting
  <2>2. IsDone(k[1], k[2], k[3])' <=> IsDone(k[1], k[2], k[3])
    BY <2>1 DEF Answers
  <2> QED BY <2>1, <2>2 DEF LegDone
<1> QED BY <1>1 DEF Quiet

LEMMA CustomerKeeps == ASSUME RaceInv, CustomerStep PROVE RaceInv'
<1>1. RoundsInv({}) /\ unsent \subseteq Setup /\ KnownIn(Balances)
  BY DEF RaceInv, BooksOk
<1>2. ASSUME NEW s \in Setup, SendSetupAccount(s) PROVE RaceInv'
  <2>1. RoundsInv({})' /\ Posts' = Posts /\ Answers({})
    BY <1>1, <1>2, SetupSent DEF SendSetupAccount
  <2>2. /\ accounts' = accounts /\ opened' = opened /\ unsent' \subseteq Setup
        /\ round' = round /\ heard' = heard
    BY <1>1, <1>2 DEF SendSetupAccount, tellers
  <2>3. Known(Posts', round', heard', Balances)
    BY <1>1, <2>1, <2>2 DEF KnownIn
  <2> QED BY <2>1, <2>2, <2>3, QuietAnswers, QuietStep
<1>3. ASSUME NEW x \in Transfer, SendTransferMoney(x) PROVE RaceInv'
  <2>1. RoundsInv({})' /\ Answers({})
    BY <1>1, <1>3, TransferSent
  <2>2. accounts' = accounts /\ opened' = opened /\ unsent' \subseteq Setup
    BY <1>1, <1>3 DEF SendTransferMoney, customers
  <2>3. Known(Posts', round', heard', Balances)
    BY <1>1, <1>3, KnownBegun
  <2> QED BY <2>1, <2>2, <2>3, QuietAnswers, QuietStep
<1> QED BY <1>2, <1>3 DEF CustomerStep

LEMMA TellerKeeps == ASSUME RaceInv, NEW t \in Teller, TellerStep(t) PROVE RaceInv'
<1>1. RoundsInv({}) /\ unsent \subseteq Setup /\ KnownIn(Balances) /\ t \in Context
  BY ContextKinds DEF RaceInv, BooksOk
<1>2. /\ accounts' = accounts /\ opened' = opened /\ unsent' \subseteq Setup
  BY <1>1 DEF TellerStep, OnTransferMoney, OnResponse, Continue, customers
<1>3. RoundsInv({})' /\ Answers({}) /\ Known(Posts', round', heard', Balances)
  <2>1. CASE OnTransferMoney(t)
    BY <1>1, <2>1, TransferStarted, KnownAtStart
  <2>2. CASE OnResponse(t)
    BY <1>1, <2>2, ResponseHandled, KnownHeard
  <2>3. CASE Continue(t)
    BY <1>1, <2>3, Continued, KnownContinued
  <2> QED BY <2>1, <2>2, <2>3 DEF TellerStep
<1> QED BY <1>2, <1>3, QuietAnswers, QuietStep

LEMMA ContinueKeeps == ASSUME RaceInv, Continue(BankDB) PROVE RaceInv'
<1>1. RoundsInv({}) /\ unsent \subseteq Setup /\ KnownIn(Balances) /\ BankDB \in Context
  BY ContextKinds DEF RaceInv, BooksOk
<1>2. /\ accounts' = accounts /\ opened' = opened /\ unsent' \subseteq Setup
  BY <1>1 DEF Continue, customers
<1>3. RoundsInv({})' /\ Answers({}) /\ Known(Posts', round', heard', Balances)
  BY <1>1, Continued, KnownContinued
<1> QED BY <1>2, <1>3, QuietAnswers, QuietStep

LEMMA GetKeeps == ASSUME RaceInv, DbGet PROVE RaceInv'
<1> DEFINE h == Head(queue[BankDB])
           a == AccountOf(h)
<1>1. RoundsInv({}) /\ unsent \subseteq Setup /\ KnownIn(Balances) /\ "Get" \in Range(Rounds)
  BY RoundKinds DEF RaceInv, BooksOk
<1>2. /\ accounts' = accounts /\ opened' = opened /\ unsent' \subseteq Setup
      /\ round' = round /\ heard' = heard /\ UNCHANGED tellers /\ H!Takes(BankDB, "Get")
      /\ H!Handle(BankDB, IF a \in DOMAIN accounts THEN <<Reply(h, accounts[a])>> ELSE <<>>)
  BY <1>1 DEF DbGet, customers, tellers
<1>3. CASE a \notin DOMAIN accounts
  <2>1. RoundsInv({})' /\ Answers({}) /\ Posts' = Posts \ {HeadPost(BankDB)}
    <3>1. H!Handle(BankDB, <<>>)
      BY <1>2, <1>3
    <3> QED BY <1>1, <1>2, <3>1, GetDropped
  <2>2. Known(Posts', round', heard', Balances)
    BY <1>1, <1>2, <2>1, KnownLess DEF KnownIn
  <2> QED BY <1>2, <2>1, <2>2, QuietAnswers, QuietStep
<1>4. CASE a \in DOMAIN accounts
  <2>1. H!Handle(BankDB, <<Reply(h, accounts[a])>>)
    BY <1>2, <1>4
  <2>2. accounts[a] \in Int /\ h.id \in Transfer /\ h.leg \in Legs
    BY <1>1, <1>2, <1>4, RequestHead DEF RaceInv, BooksOk
  <2>3. RoundsInv({})' /\ Answers({<<"Get", h.id, h.leg>>})
    BY <1>1, <1>2, <2>1, <2>2, Replied
  <2>4. <<h.id, h.leg, accounts[a]>> \in Balances
    <3>1. PICK L : Explains(L, a, accounts[a])
      BY <1>4 DEF RaceInv, Keeps
    <3> QED BY <1>4, <2>2, <3>1 DEF Balances, AccountOf
  <2>5. Known(Posts', round', heard', Balances)
    BY <1>1, <1>2, <2>1, <2>2, <2>4, KnownReplied
  <2>6. Quiet
    <3>1. \A k \in {<<"Get", h.id, h.leg>>} : k[1] # "Set"
      OBVIOUS
    <3> QED BY <1>2, <2>3, <3>1, QuietAnswers
  <2> QED BY <1>2, <2>3, <2>5, <2>6, QuietStep
<1> QED BY <1>3, <1>4

LEMMA SetupKeeps == ASSUME RaceInv, DbSetupAccount PROVE RaceInv'
<1>0. PICK s : s = Head(queue[BankDB]).setup
  OBVIOUS
<1> DEFINE a == s.account
<1>1. RoundsInv({}) /\ BooksOk /\ KnownIn(Balances)
  BY DEF RaceInv
<1>2. RoundsInv({})' /\ Answers({}) /\ Posts' = Posts /\ a \in Account /\ s.amt \in Int
  BY <1>0, <1>1, SetupHandled, BankAssumption
<1>3. round' = round /\ heard' = heard /\ unsent' = unsent
  BY DEF DbSetupAccount, tellers
<1>4. IF a \in DOMAIN accounts THEN UNCHANGED <<accounts, opened>>
      ELSE /\ accounts' = WithEntry(accounts, a, s.amt)
           /\ opened' = WithEntry(opened, a, s.amt)
  BY <1>0 DEF DbSetupAccount
<1>5. Known(Posts', round', heard', Balances)
  BY <1>1, <1>2, <1>3 DEF KnownIn
<1>6. CASE a \in DOMAIN accounts
  BY <1>1, <1>2, <1>3, <1>4, <1>5, <1>6, QuietAnswers, QuietStep DEF BooksOk
<1>7. CASE a \notin DOMAIN accounts
  <2>1. /\ accounts' = WithEntry(accounts, a, s.amt) /\ opened' = WithEntry(opened, a, s.amt)
        /\ DOMAIN accounts' = DOMAIN accounts \cup {a}
        /\ accounts'[a] = s.amt /\ opened'[a] = s.amt
        /\ \A b \in DOMAIN accounts : accounts'[b] = accounts[b] /\ opened'[b] = opened[b]
    BY <1>1, <1>4, <1>7 DEF WithEntry, BooksOk
  <2>2. BooksOk'
    BY <1>1, <1>2, <1>3, <1>4, <1>7 DEF BooksOk, WithEntry
  <2>3. ASSUME NEW p \in AllLegs PROVE LegDone(p[1], p[2])' <=> LegDone(p[1], p[2])
    <3>1. PICK k \in Requesting : k = <<"Set", p[1], p[2]>>
      BY RoundKinds DEF AllLegs, Requesting
    <3>2. IsDone(k[1], k[2], k[3])' <=> IsDone(k[1], k[2], k[3])
      BY <1>2, <3>1 DEF Answers
    <3> QED BY <3>1, <3>2 DEF LegDone
  <2>4. \A b : DoneLegs(b)' = DoneLegs(b)
    BY <2>3 DEF DoneLegs
  <2>5. ASSUME NEW L, NEW b \in DOMAIN accounts, NEW v, Explains(L, b, v) PROVE Explains(L, b, v)'
    BY <2>1, <2>4, <2>5 DEF Explains
  <2>6. \A b \in DOMAIN accounts' : Keeps(b)'
    <3>1. ASSUME NEW b \in DOMAIN accounts PROVE Keeps(b)'
      <4>1. PICK L : Explains(L, b, accounts[b]) /\ (DoneLegs(b) # {} => L # {})
        BY DEF RaceInv, Keeps
      <4>2. Explains(L, b, accounts[b])' /\ accounts'[b] = accounts[b]
        BY <2>1, <2>5, <4>1
      <4> QED BY <2>4, <4>1, <4>2 DEF Keeps, Explains
    <3>2. Keeps(a)'
      <4>1. DoneLegs(a) = {}
        BY <1>7 DEF RaceInv, DoneLegs
      <4>2. Explains({}, a, accounts[a])'
        BY <1>2, <2>1, <2>4, SumOfNone DEF Explains
      <4> QED BY <2>4, <4>1, <4>2 DEF Keeps
    <3> QED BY <2>1, <3>1, <3>2
  <2>7. Balances \subseteq Balances'
    <3> SUFFICES ASSUME NEW b \in Balances PROVE b \in Balances'
      OBVIOUS
    <3>1. /\ b \in Transfer \X Legs \X Int /\ LegAccount(b[1], b[2]) \in DOMAIN accounts
          /\ \E L : Explains(L, LegAccount(b[1], b[2]), b[3])
      BY DEF Balances
    <3>2. \E L : Explains(L, LegAccount(b[1], b[2]), b[3])'
      BY <2>5, <3>1
    <3> QED BY <2>1, <3>1, <3>2 DEF Balances
  <2>8. KnownIn(Balances)'
    BY <1>5, <2>7 DEF KnownIn, Known, PostIn, HeardIn
  <2>9. \A p \in AllLegs : LegDone(p[1], p[2])' => LegAccount(p[1], p[2]) \in DOMAIN accounts'
    BY <2>1, <2>3 DEF RaceInv
  <2> QED BY <1>2, <2>2, <2>6, <2>8, <2>9 DEF RaceInv
<1> QED BY <1>6, <1>7

LEMMA SetKeeps == ASSUME RaceInv, DbSet PROVE RaceInv'
<1>0. PICK h : h = Head(queue[BankDB])
  OBVIOUS
<1> DEFINE x == h.id
           l == h.leg
           a == LegAccount(x, l)
           p == <<x, l>>
<1>1. RoundsInv({}) /\ BooksOk /\ KnownIn(Balances) /\ "Set" \in Range(Rounds)
  BY RoundKinds DEF RaceInv
<1>2. /\ H!Takes(BankDB, "Set") /\ UNCHANGED tellers /\ UNCHANGED customers
      /\ accounts' = IF a \in DOMAIN accounts THEN [accounts EXCEPT ![a] = h.amt] ELSE accounts
      /\ H!Handle(BankDB, <<Reply(Head(queue[BankDB]), 0)>>)
  BY <1>0 DEF DbSet, AccountOf, AccountsSet
<1>3. /\ h.type = "Set" /\ x \in Transfer /\ l \in Legs /\ h.amt \in Int
      /\ HeadPost(BankDB) \in Posts /\ HeadPost(BankDB).event = h
      /\ ~LegDone(x, l)
  BY <1>0, <1>1, <1>2, RequestHead DEF LegDone
<1>4. PICK v \in Int : <<x, l, v>> \in Balances /\ h.amt = v + LegAmt(x, l)
  BY <1>1, <1>3 DEF KnownIn, Known, PostIn
<1>5. a \in DOMAIN accounts /\ \E L : Explains(L, a, v)
  BY <1>4 DEF Balances
<1>6. RoundsInv({})' /\ Answers({<<"Set", x, l>>})
  <2>1. PICK n \in Int : n = 0
    OBVIOUS
  <2>2. H!Handle(BankDB, <<Reply(Head(queue[BankDB]), n)>>)
    BY <1>2, <2>1
  <2> QED BY <1>0, <1>1, <1>2, <2>2, Replied
<1>7. Known(Posts', round', heard', Balances)
  <2>1. PICK n \in Int : n = 0
    OBVIOUS
  <2>2. H!Handle(BankDB, <<Reply(Head(queue[BankDB]), n)>>)
    BY <1>2, <2>1
  <2>3. "Set" # "Get"
    OBVIOUS
  <2> QED BY <1>1, <1>2, <2>2, <2>3, KnownReplied
<1>8. /\ DOMAIN accounts' = DOMAIN accounts /\ accounts'[a] = h.amt
      /\ \A b \in DOMAIN accounts : b # a => accounts'[b] = accounts[b]
      /\ opened' = opened /\ unsent' = unsent /\ BooksOk'
  BY <1>1, <1>2, <1>3, <1>5 DEF BooksOk, customers
<1>9. p \in AllLegs
  BY <1>3 DEF AllLegs
<1>10. ASSUME NEW q \in AllLegs PROVE LegDone(q[1], q[2])' <=> LegDone(q[1], q[2]) \/ q = p
  <2>1. PICK k \in Requesting : k = <<"Set", q[1], q[2]>>
    BY RoundKinds DEF AllLegs, Requesting
  <2>2. IsDone(k[1], k[2], k[3])' <=> IsDone(k[1], k[2], k[3]) \/ k = <<"Set", x, l>>
    BY <1>6 DEF Answers
  <2>3. k = <<"Set", x, l>> <=> q = p
    BY <2>1 DEF AllLegs
  <2> QED BY <2>1, <2>2, <2>3 DEF LegDone
<1>11. /\ DoneLegs(a)' = DoneLegs(a) \cup {p} /\ p \notin DoneLegs(a)
       /\ \A b : b # a => DoneLegs(b)' = DoneLegs(b)
  BY <1>3, <1>9, <1>10 DEF DoneLegs
<1>12. \A L, b, w : Explains(L, b, w) => Explains(L, b, w)'
  BY <1>8, <1>11 DEF Explains
<1>13. \A b \in DOMAIN accounts' : Keeps(b)'
  <2>1. ASSUME NEW b \in DOMAIN accounts, b # a PROVE Keeps(b)'
    <3>1. PICK L : Explains(L, b, accounts[b]) /\ (DoneLegs(b) # {} => L # {})
      BY DEF RaceInv, Keeps
    <3> QED BY <1>8, <1>11, <1>12, <2>1, <3>1 DEF Keeps
  <2>2. Keeps(a)'
    <3>1. PICK L : Explains(L, a, v)
      BY <1>5
    <3>2. L \in SUBSET AllLegs /\ IsFiniteSet(L) /\ p \notin L /\ L \subseteq DoneLegs(a)
      BY <1>11, <3>1 DEF Explains, DoneLegs
    <3>3. Sum(L \cup {p}) = Sum(L) + LegAmt(x, l) /\ IsFiniteSet(L \cup {p}) /\ Sum(L) \in Int
      BY <1>3, <3>2, SumAdds
    <3>4. opened[a] \in Int /\ LegAmt(x, l) \in Int
      BY <1>1, <1>3, <1>5, BankAssumption DEF BooksOk, LegAmt
    <3>5. h.amt = opened[a] + Sum(L \cup {p})
      BY <1>4, <3>1, <3>3, <3>4 DEF Explains
    <3>6. Explains(L \cup {p}, a, accounts[a])'
      BY <1>8, <1>11, <3>2, <3>3, <3>5 DEF Explains
    <3> QED BY <3>6 DEF Keeps
  <2> QED BY <1>8, <2>1, <2>2
<1>14. Balances \subseteq Balances'
  BY <1>8, <1>12 DEF Balances
<1>15. KnownIn(Balances)'
  BY <1>7, <1>14 DEF KnownIn, Known, PostIn, HeardIn
<1>16. \A q \in AllLegs : LegDone(q[1], q[2])' => LegAccount(q[1], q[2]) \in DOMAIN accounts'
  BY <1>5, <1>8, <1>10 DEF RaceInv
<1> QED BY <1>6, <1>8, <1>13, <1>15, <1>16 DEF RaceInv

LEMMA RaceStep == RaceInv /\ [Next]_vars => RaceInv'
<1> SUFFICES ASSUME RaceInv, [Next]_vars PROVE RaceInv'
  OBVIOUS
<1>1. CASE CustomerStep
  BY <1>1, CustomerKeeps
<1>2. CASE DbStep
  BY <1>2, SetupKeeps, GetKeeps, SetKeeps, ContinueKeeps DEF DbStep
<1>3. ASSUME NEW t \in Teller, TellerStep(t) PROVE RaceInv'
  BY <1>3, TellerKeeps
<1>4. CASE UNCHANGED vars
  <2>1. /\ accounts' = accounts /\ queue' = queue /\ sending' = sending /\ round' = round
        /\ heard' = heard /\ unsent' = unsent /\ opened' = opened
    BY <1>4 DEF vars
  <2>2. RoundsInv({})' /\ Posts' = Posts
    BY <2>1 DEF RaceInv, RoundsInv, Mailed, Destined, Posts
  <2>3. Quiet
    BY <2>1, <2>2 DEF Quiet, LegDone, IsDone
  <2>4. Known(Posts', round', heard', Balances) /\ unsent' \subseteq Setup
    BY <2>1, <2>2 DEF RaceInv, KnownIn, BooksOk
  <2> QED BY <2>2, <2>3, <2>4, QuietStep
<1> QED BY <1>1, <1>2, <1>3, <1>4 DEF Next

(* In every state of any race, every variable has its type: the queues     *)
(* hold messages of the tellers and the database, which are typed.         *)
THEOREM RaceTypes == Spec => []TypeOK
<1>1. RaceInv => TypeOK
  BY TypesFollow DEF RaceInv
<1> QED BY <1>1, RaceInit, RaceStep, PTL DEF Spec

(* In every state of any race, a balance is what the account was set up    *)
(* with plus the amounts of some of the legs done on it, of at least one   *)
(* if there are any: updates are lost, but none is applied twice and none  *)
(* is made up.                                                             *)
THEOREM UpdatesLostNeverInvented == Spec => []LostNeverInvented
  BY RaceInit, RaceStep, RaceSafe, PTL DEF Spec
=============================================================================
