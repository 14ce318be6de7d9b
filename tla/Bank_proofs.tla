----------------------------- MODULE Bank_proofs -----------------------------
(***************************************************************************)
(* Proof that Bank neither makes nor loses money, for any accounts,        *)
(* transfers and SetupAccount events, however many.                        *)
(***************************************************************************)
EXTENDS Bank, FiniteSetTheorems, WellFoundedInduction, TLAPS

-----------------------------------------------------------------------------
(* Sums over finite sets.  MapThenSumSet is a fold: a function that is     *)
(* defined by recursion over the subsets of a set and picks an element of  *)
(* each.  What it says of all finite sets is proved by looking at a        *)
(* smallest set that it would be wrong for.                                *)

Pick(s) == CHOOSE x \in s : TRUE

Rest(s) == s \ {Pick(s)}

(* The function that the fold is defined by.                               *)
Summing(f, S, g) ==
  g = [s \in SUBSET S |-> IF s = {} THEN 0 ELSE f[Pick(s)] + g[Rest(s)]]

SumOver(f, S) == MapThenSumSet(LAMBDA x : f[x], S)

Smallest(s, Sets) == \A u \in SUBSET s : u # s => u \notin Sets

(* Among finite sets there is one that contains no other of them.          *)
LEMMA LeastSubset ==
  ASSUME NEW S, NEW Bad, Bad \subseteq FiniteSubsetsOf(S), Bad # {}
  PROVE  \E s \in Bad : /\ IsFiniteSet(s)
                        /\ s \subseteq S
                        /\ Smallest(s, Bad)
<1>1. IsWellFoundedOn(StrictSubsetOrdering(S), FiniteSubsetsOf(S))
  BY FS_StrictSubsetOrderingWellFounded
<1>2. PICK s \in Bad : \A t \in Bad : ~(<<t, s>> \in StrictSubsetOrdering(S))
  BY <1>1, WFMin
<1>3. s \subseteq S /\ IsFiniteSet(s) /\ Bad \subseteq SUBSET S
  BY DEF FiniteSubsetsOf
<1>4. \A t \in SUBSET s : t # s => t \notin Bad
  <2> SUFFICES ASSUME NEW t \in SUBSET s, t # s, t \in Bad PROVE FALSE
    OBVIOUS
  <2>1. <<t, s>> \in StrictSubsetOrdering(S)
    BY <1>3 DEF StrictSubsetOrdering
  <2> QED BY <2>1, <1>2
<1> QED BY <1>3, <1>4 DEF Smallest

LEMMA PickFacts ==
  ASSUME NEW s, s # {}
  PROVE  Pick(s) \in s /\ Rest(s) \in SUBSET s /\ Rest(s) # s
BY DEF Pick, Rest

(* Any two such functions agree where both are defined,                    *)
LEMMA SummingUnique ==
  ASSUME NEW f, NEW S, NEW T, NEW g, NEW h, Summing(f, S, g), Summing(f, T, h),
         NEW s \in SUBSET S, s \in SUBSET T, IsFiniteSet(s)
  PROVE  g[s] = h[s]
<1> DEFINE Bad == {t \in FiniteSubsetsOf(S \cap T) : g[t] # h[t]}
<1> SUFFICES ASSUME Bad # {} PROVE FALSE
  BY DEF FiniteSubsetsOf
<1>0. Bad \subseteq FiniteSubsetsOf(S \cap T)
  OBVIOUS
<1> HIDE DEF Bad
<1>1. PICK t \in Bad : IsFiniteSet(t) /\ t \subseteq S \cap T /\ Smallest(t, Bad)
  BY <1>0, LeastSubset
<1> USE DEF Bad, Smallest
<1>2. \A u \in SUBSET t : u # t => g[u] = h[u]
  <2> SUFFICES ASSUME NEW u \in SUBSET t, u # t PROVE g[u] = h[u]
    OBVIOUS
  <2>1. IsFiniteSet(u)
    BY FS_Subset DEF FiniteSubsetsOf
  <2> QED BY <1>1, <2>1 DEF FiniteSubsetsOf
<1>3. /\ g[t] = IF t = {} THEN 0 ELSE f[Pick(t)] + g[Rest(t)]
      /\ h[t] = IF t = {} THEN 0 ELSE f[Pick(t)] + h[Rest(t)]
  BY <1>1 DEF Summing
<1> QED BY <1>2, <1>3, PickFacts

(* and there is one for every finite set.                                  *)
LEMMA SummingExists ==
  ASSUME NEW f, NEW S, IsFiniteSet(S)
  PROVE  \E g : Summing(f, S, g)
<1> DEFINE Bad == {s \in FiniteSubsetsOf(S) : ~ \E g : Summing(f, s, g)}
<1> SUFFICES ASSUME Bad # {} PROVE FALSE
  BY DEF FiniteSubsetsOf
<1>0. Bad \subseteq FiniteSubsetsOf(S)
  OBVIOUS
<1> HIDE DEF Bad
<1>1. PICK T \in Bad : IsFiniteSet(T) /\ T \subseteq S /\ Smallest(T, Bad)
  BY <1>0, LeastSubset
<1> USE DEF Bad, Smallest
<1> DEFINE G(s) == CHOOSE g : Summing(f, s, g)
<1>2. \A u \in SUBSET T : u # T => Summing(f, u, G(u)) /\ IsFiniteSet(u)
  <2> SUFFICES ASSUME NEW u \in SUBSET T, u # T PROVE Summing(f, u, G(u)) /\ IsFiniteSet(u)
    OBVIOUS
  <2>1. IsFiniteSet(u) /\ u \in FiniteSubsetsOf(S)
    BY <1>1, FS_Subset DEF FiniteSubsetsOf
  <2>2. \E g : Summing(f, u, g)
    BY <1>1, <2>1
  <2> QED BY <2>1, <2>2
<1> DEFINE V(u) == IF u = {} THEN 0 ELSE f[Pick(u)] + G(Rest(u))[Rest(u)]
           h == [u \in SUBSET T |-> V(u)]
<1>3. \A u \in SUBSET T : u # T => G(u)[u] = V(u)
  <2> SUFFICES ASSUME NEW u \in SUBSET T, u # T PROVE G(u)[u] = V(u)
    OBVIOUS
  <2>1. Summing(f, u, G(u))
    BY <1>2
  <2> HIDE DEF G
  <2>2. G(u)[u] = IF u = {} THEN 0 ELSE f[Pick(u)] + G(u)[Rest(u)]
    BY <2>1 DEF Summing
  <2>3. CASE u # {}
    <3>1. Rest(u) \in SUBSET u /\ Rest(u) \in SUBSET T /\ Rest(u) # T
      BY <2>3, PickFacts
    <3>2. Summing(f, Rest(u), G(Rest(u))) /\ IsFiniteSet(Rest(u))
      BY <1>2, <3>1
    <3>3. G(Rest(u))[Rest(u)] = G(u)[Rest(u)]
      BY <2>1, <3>1, <3>2, SummingUnique
    <3> QED BY <2>2, <2>3, <3>3
  <2> QED BY <2>2, <2>3
<1> HIDE DEF G
<1>4. Summing(f, T, h)
  <2>1. ASSUME NEW u \in SUBSET T, u # {} PROVE h[Rest(u)] = G(Rest(u))[Rest(u)]
    <3>1. Rest(u) \in SUBSET T /\ Rest(u) # T
      BY <2>1, PickFacts
    <3>2. h[Rest(u)] = V(Rest(u))
      BY <3>1
    <3> HIDE DEF V, h
    <3> QED BY <1>3, <3>1, <3>2
  <2>2. \A u \in SUBSET T : h[u] = IF u = {} THEN 0 ELSE f[Pick(u)] + h[Rest(u)]
    BY <2>1
  <2> HIDE DEF V
  <2> QED BY <2>2 DEF Summing
<1> QED BY <1>4

(* So the sum is its value, and follows its equation.                      *)
LEMMA SumOverIs ==
  ASSUME NEW f, NEW S, IsFiniteSet(S), NEW g, Summing(f, S, g)
  PROVE  SumOver(f, S) = g[S]
<1>1. ASSUME NEW h, Summing(f, S, h) PROVE h = g
  <2>1. \A s \in SUBSET S : h[s] = g[s]
    BY <1>1, SummingUnique, FS_Subset
  <2> QED BY <1>1, <2>1 DEF Summing
<1> QED BY <1>1 DEF SumOver, MapThenSumSet, MapThenFoldSet, Summing, Pick, Rest

LEMMA SumOverDef ==
  ASSUME NEW f, NEW S, IsFiniteSet(S)
  PROVE  SumOver(f, S) = IF S = {} THEN 0 ELSE f[Pick(S)] + SumOver(f, Rest(S))
<1>1. PICK g : Summing(f, S, g)
  BY SummingExists
<1>2. SumOver(f, S) = g[S] /\ g[S] = IF S = {} THEN 0 ELSE f[Pick(S)] + g[Rest(S)]
  <2>1. g[S] = IF S = {} THEN 0 ELSE f[Pick(S)] + g[Rest(S)]
    BY <1>1 DEF Summing
  <2> QED BY <1>1, <2>1, SumOverIs
<1>3. CASE S # {}
  <2>1. Rest(S) \in SUBSET S /\ IsFiniteSet(Rest(S))
    BY <1>3, PickFacts, FS_Subset
  <2>2. PICK h : Summing(f, Rest(S), h)
    BY <2>1, SummingExists
  <2>3. SumOver(f, Rest(S)) = g[Rest(S)]
    BY <1>1, <2>1, <2>2, SumOverIs, SummingUnique
  <2> QED BY <1>2, <1>3, <2>3
<1> QED BY <1>2, <1>3

LEMMA SumOverInt ==
  ASSUME NEW f, NEW S, IsFiniteSet(S), \A x \in S : f[x] \in Int
  PROVE  SumOver(f, S) \in Int
<1> DEFINE Bad == {s \in FiniteSubsetsOf(S) : SumOver(f, s) \notin Int}
<1> SUFFICES ASSUME Bad # {} PROVE FALSE
  BY DEF FiniteSubsetsOf
<1>0. Bad \subseteq FiniteSubsetsOf(S)
  OBVIOUS
<1> HIDE DEF Bad
<1>1. PICK s \in Bad : IsFiniteSet(s) /\ s \subseteq S /\ Smallest(s, Bad)
  BY <1>0, LeastSubset
<1> USE DEF Bad, Smallest
<1>2. SumOver(f, s) = IF s = {} THEN 0 ELSE f[Pick(s)] + SumOver(f, Rest(s))
  BY <1>1, SumOverDef
<1>3. CASE s # {}
  <2>1. Rest(s) \notin Bad /\ Rest(s) \in FiniteSubsetsOf(S) /\ Pick(s) \in S
    BY <1>1, <1>3, PickFacts, FS_Subset DEF FiniteSubsetsOf
  <2> QED BY <1>2, <1>3, <2>1
<1> QED BY <1>2, <1>3

(* The order in which elements are picked makes no difference: any of them *)
(* may be taken out first.                                                 *)
LEMMA SumOverRemove ==
  ASSUME NEW f, NEW S, IsFiniteSet(S), \A x \in S : f[x] \in Int, NEW y \in S
  PROVE  SumOver(f, S) = f[y] + SumOver(f, S \ {y})
<1> DEFINE Bad == {s \in FiniteSubsetsOf(S) : \E x \in s : SumOver(f, s) # f[x] + SumOver(f, s \ {x})}
<1> SUFFICES ASSUME Bad # {} PROVE FALSE
  BY DEF FiniteSubsetsOf
<1>0. Bad \subseteq FiniteSubsetsOf(S)
  OBVIOUS
<1> HIDE DEF Bad
<1>1. PICK s \in Bad : IsFiniteSet(s) /\ s \subseteq S /\ Smallest(s, Bad)
  BY <1>0, LeastSubset
<1> USE DEF Bad, Smallest
<1>2. PICK x \in s : SumOver(f, s) # f[x] + SumOver(f, s \ {x})
  OBVIOUS
<1> DEFINE c == Pick(s)
<1>3. /\ SumOver(f, s) = f[c] + SumOver(f, s \ {c}) /\ c \in s
  BY <1>1, <1>2, SumOverDef, PickFacts DEF Rest
<1>4. c # x
  BY <1>2, <1>3
<1>5. \A u \in SUBSET s : IsFiniteSet(u) /\ SumOver(f, u) \in Int /\ u \in FiniteSubsetsOf(S)
  BY <1>1, FS_Subset, SumOverInt DEF FiniteSubsetsOf
<1> HIDE DEF c
<1>6. \A u \in SUBSET s : u # s => \A z \in u : SumOver(f, u) = f[z] + SumOver(f, u \ {z})
  BY <1>1, <1>5
<1>7. SumOver(f, s \ {c}) = f[x] + SumOver(f, (s \ {c}) \ {x})
  BY <1>3, <1>4, <1>6
<1>8. SumOver(f, s \ {x}) = f[c] + SumOver(f, (s \ {x}) \ {c})
  BY <1>2, <1>3, <1>4, <1>6
<1>9. (s \ {c}) \ {x} = (s \ {x}) \ {c}
  OBVIOUS
<1>10. f[x] \in Int /\ f[c] \in Int /\ SumOver(f, (s \ {c}) \ {x}) \in Int
  BY <1>1, <1>3, <1>5
<1>11. /\ SumOver(f, s) = f[c] + (f[x] + SumOver(f, (s \ {c}) \ {x}))
       /\ f[x] + SumOver(f, s \ {x}) = f[x] + (f[c] + SumOver(f, (s \ {c}) \ {x}))
  BY <1>3, <1>7, <1>8, <1>9
<1> HIDE DEF Bad
<1> QED BY <1>2, <1>10, <1>11

(* A sum depends on the values at the elements only.                       *)
LEMMA SumOverSame ==
  ASSUME NEW f, NEW g, NEW S, IsFiniteSet(S), \A x \in S : f[x] = g[x]
  PROVE  SumOver(f, S) = SumOver(g, S)
<1> DEFINE Bad == {s \in FiniteSubsetsOf(S) : SumOver(f, s) # SumOver(g, s)}
<1> SUFFICES ASSUME Bad # {} PROVE FALSE
  BY DEF FiniteSubsetsOf
<1>0. Bad \subseteq FiniteSubsetsOf(S)
  OBVIOUS
<1> HIDE DEF Bad
<1>1. PICK s \in Bad : IsFiniteSet(s) /\ s \subseteq S /\ Smallest(s, Bad)
  BY <1>0, LeastSubset
<1> USE DEF Bad, Smallest
<1>2. /\ SumOver(f, s) = IF s = {} THEN 0 ELSE f[Pick(s)] + SumOver(f, Rest(s))
      /\ SumOver(g, s) = IF s = {} THEN 0 ELSE g[Pick(s)] + SumOver(g, Rest(s))
  BY <1>1, SumOverDef
<1>3. CASE s # {}
  <2>1. Rest(s) \notin Bad /\ Rest(s) \in FiniteSubsetsOf(S) /\ Pick(s) \in S
    BY <1>1, <1>3, PickFacts, FS_Subset DEF FiniteSubsetsOf
  <2> QED BY <1>2, <1>3, <2>1
<1> QED BY <1>2, <1>3

IntOn(f, S) == \A x \in S : f[x] \in Int

SameOn(f, g, S) == \A x \in S : f[x] = g[x]

(* What the sum is of a set with one element more, at which the function   *)
(* may have been undefined before,                                         *)
LEMMA SumOverAdd ==
  ASSUME NEW f, NEW g, NEW S, NEW y, IsFiniteSet(S), y \notin S,
         IntOn(f, S \cup {y}), SameOn(f, g, S)
  PROVE  /\ SumOver(f, S \cup {y}) = f[y] + SumOver(g, S)
         /\ SumOver(f, S \cup {y}) \in Int /\ SumOver(g, S) \in Int
         /\ IsFiniteSet(S \cup {y})
<1> USE DEF IntOn, SameOn
<1>1. IsFiniteSet(S \cup {y}) /\ (S \cup {y}) \ {y} = S
  BY FS_AddElement
<1>2. SumOver(f, S \cup {y}) = f[y] + SumOver(f, S)
  BY <1>1, SumOverRemove
<1>3. SumOver(f, S) = SumOver(g, S)
  BY SumOverSame
<1> QED BY <1>1, <1>2, <1>3, SumOverInt

(* and of a function that has changed by d at one element.                 *)
LEMMA SumOverChange ==
  ASSUME NEW f, NEW g, NEW S, IsFiniteSet(S), NEW y \in S, NEW d \in Int,
         IntOn(f, S), SameOn(g, f, S \ {y}), g[y] = f[y] + d
  PROVE  SumOver(g, S) = SumOver(f, S) + d
<1>1. IntOn(g, S) /\ f[y] \in Int
  BY DEF IntOn, SameOn
<1>2. /\ SumOver(g, S) = g[y] + SumOver(g, S \ {y})
      /\ SumOver(f, S) = f[y] + SumOver(f, S \ {y})
  BY <1>1, SumOverRemove DEF IntOn
<1>3. IsFiniteSet(S \ {y})
  BY FS_Subset
<1>4. SumOver(g, S \ {y}) = SumOver(f, S \ {y}) /\ SumOver(f, S \ {y}) \in Int
  BY <1>3, SumOverSame, SumOverInt DEF IntOn, SameOn
<1> QED BY <1>1, <1>2, <1>4

-----------------------------------------------------------------------------
(* Accounts are opened and transfers are debited one at a time, so that at *)
(* any time finitely many are; no constant of Bank has to be finite.       *)
Inv ==
  /\ TypeOK
  /\ IsFiniteSet(DOMAIN opened)
  /\ IsFiniteSet(InTransit)
  /\ Conservation

(* Conservation, as sums of functions.                                     *)
Sums == SumOver(accounts, DOMAIN opened) + SumOver(Amt, InTransit) = SumOver(opened, DOMAIN opened)

LEMMA ConservationSums == TypeOK => (Conservation <=> Sums)
  BY DEF TypeOK, Conservation, Sums, TotalOf, SumOver

LEMMA InvInit == Init => Inv
<1> SUFFICES ASSUME Init PROVE Inv
  OBVIOUS
<1>1. TypeOK
  BY DEF Init, TypeOK, Stages
<1>2. DOMAIN opened = {} /\ DOMAIN accounts = {} /\ InTransit = {}
  BY DEF Init, InTransit
<1>3. \A f : SumOver(f, {}) = 0
  BY FS_EmptySet, SumOverDef
<1>4. Sums
  BY <1>2, <1>3 DEF Sums
<1> QED BY <1>1, <1>2, <1>4, ConservationSums, FS_EmptySet DEF Inv

LEMMA InvStep == Inv /\ [Next]_vars => Inv'
<1> SUFFICES ASSUME Inv, [Next]_vars PROVE Inv'
  OBVIOUS
<1> USE BankAssumption
<1> DEFINE A == SumOver(accounts, DOMAIN opened)
           T == SumOver(Amt, InTransit)
           O == SumOver(opened, DOMAIN opened)
<1>1. /\ IsFiniteSet(DOMAIN opened) /\ IsFiniteSet(InTransit)
      /\ accounts \in [DOMAIN opened -> Int] /\ opened \in [DOMAIN opened -> Int]
      /\ stage \in [Transfer -> Stages] /\ DOMAIN opened \subseteq Account
  BY DEF Inv, TypeOK
<1>2. A + T = O
  BY ConservationSums DEF Inv, Sums
<1>3. A \in Int /\ T \in Int /\ O \in Int
  BY <1>1, SumOverInt DEF InTransit
<1> DEFINE Goal == /\ TypeOK' /\ IsFiniteSet(DOMAIN opened') /\ IsFiniteSet(InTransit')
                   /\ A' + T' = O'
<1>4. SUFFICES Goal
  <2>1. TypeOK' /\ Sums' => Conservation'
    BY ConservationSums, PTL
  <2> QED BY <2>1 DEF Inv, Sums
<1>5. ASSUME NEW s \in Setup, OpenAccount(s) PROVE Goal
  <2> DEFINE a == s.account
  <2>1. /\ a \in Account /\ s.amt \in Int /\ a \notin DOMAIN opened /\ a \notin DOMAIN accounts
        /\ accounts' = WithEntry(accounts, a, s.amt)
        /\ opened' = WithEntry(opened, a, s.amt) /\ stage' = stage
    BY <1>1, <1>5 DEF OpenAccount
  <2>2. /\ DOMAIN accounts' = DOMAIN accounts \cup {a} /\ DOMAIN opened' = DOMAIN opened \cup {a}
        /\ accounts'[a] = s.amt /\ opened'[a] = s.amt
        /\ SameOn(accounts', accounts, DOMAIN opened) /\ IntOn(accounts', DOMAIN opened \cup {a})
        /\ SameOn(opened', opened, DOMAIN opened) /\ IntOn(opened', DOMAIN opened \cup {a})
    BY <1>1, <2>1 DEF WithEntry, SameOn, IntOn
  <2> HIDE DEF a
  <2>3. A' = s.amt + A /\ O' = s.amt + O /\ IsFiniteSet(DOMAIN opened')
    <3>1. SumOver(accounts', DOMAIN opened \cup {a}) = accounts'[a] + SumOver(accounts, DOMAIN opened)
      BY <1>1, <2>1, <2>2, SumOverAdd
    <3>2. SumOver(opened', DOMAIN opened \cup {a}) = opened'[a] + SumOver(opened, DOMAIN opened)
      BY <1>1, <2>1, <2>2, SumOverAdd
    <3>3. IsFiniteSet(DOMAIN opened \cup {a})
      BY <1>1, FS_AddElement
    <3>4. A' = SumOver(accounts', DOMAIN opened \cup {a}) /\ O' = SumOver(opened', DOMAIN opened \cup {a})
      BY <2>2
    <3> QED BY <2>2, <3>1, <3>2, <3>3, <3>4
  <2>4. InTransit' = InTransit /\ T' = T
    BY <2>1 DEF InTransit
  <2>5. TypeOK'
    BY <1>1, <2>1, <2>2 DEF TypeOK, WithEntry
  <2> QED BY <1>1, <1>2, <1>3, <2>1, <2>3, <2>4, <2>5
<1>6. ASSUME NEW x \in Transfer, NEW l \in Legs, AddToAccount(x, l)
      PROVE  A' = A + LegAmt(x, l) /\ O' = O /\ DOMAIN opened' = DOMAIN opened /\ accounts' \in [DOMAIN opened -> Int]
  <2>1. LegAmt(x, l) \in Int /\ LegAccount(x, l) \in DOMAIN accounts /\ opened' = opened
    BY <1>6 DEF AddToAccount, LegAmt
  <2>2. accounts' = [accounts EXCEPT ![LegAccount(x, l)] = @ + LegAmt(x, l)]
    BY <1>6 DEF AddToAccount
  <2>3. SumOver(accounts', DOMAIN opened) = SumOver(accounts, DOMAIN opened) + LegAmt(x, l)
    <3>1. LegAccount(x, l) \in DOMAIN opened
      BY <1>1, <2>1
    <3>2. /\ IntOn(accounts, DOMAIN opened)
          /\ SameOn(accounts', accounts, DOMAIN opened \ {LegAccount(x, l)})
          /\ accounts'[LegAccount(x, l)] = accounts[LegAccount(x, l)] + LegAmt(x, l)
      BY <1>1, <2>2, <3>1 DEF IntOn, SameOn
    <3>3. IsFiniteSet(DOMAIN opened) /\ LegAmt(x, l) \in Int
      BY <1>1, <2>1
    <3> QED BY <3>1, <3>2, <3>3, SumOverChange
  <2> QED BY <1>1, <2>1, <2>2, <2>3
<1>7. ASSUME NEW x \in Transfer, Debit(x) PROVE Goal
  <2>1. A' = A - Amt[x] /\ O' = O /\ opened' = opened /\ accounts' \in [DOMAIN opened -> Int]
    BY <1>6, <1>7, <1>3 DEF Debit, Legs, LegAmt, AddToAccount
  <2>2. x \notin InTransit /\ InTransit' = InTransit \cup {x}
    BY <1>1, <1>7 DEF Debit, InTransit
  <2>3. T' = Amt[x] + T /\ IsFiniteSet(InTransit')
    <3>1. IntOn(Amt, InTransit \cup {x}) /\ SameOn(Amt, Amt, InTransit)
      BY DEF InTransit, SameOn, IntOn
    <3>2. /\ SumOver(Amt, InTransit \cup {x}) = Amt[x] + SumOver(Amt, InTransit)
          /\ IsFiniteSet(InTransit \cup {x})
      BY <1>1, <2>2, <3>1, SumOverAdd
    <3> QED BY <2>2, <3>2
  <2>4. TypeOK'
    BY <1>1, <1>7, <2>1 DEF Debit, TypeOK, Stages
  <2> QED BY <1>1, <1>2, <1>3, <2>1, <2>3, <2>4
<1>8. ASSUME NEW x \in Transfer, Credit(x) PROVE Goal
  <2>1. A' = A + Amt[x] /\ O' = O /\ opened' = opened /\ accounts' \in [DOMAIN opened -> Int]
    BY <1>6, <1>8 DEF Credit, Legs, LegAmt, AddToAccount
  <2>2. x \notin InTransit' /\ InTransit = InTransit' \cup {x}
    BY <1>1, <1>8 DEF Credit, InTransit
  <2>3. IsFiniteSet(InTransit')
    BY <1>1, <2>2, FS_Subset
  <2>4. T = Amt[x] + T' /\ T' \in Int
    <3>1. IntOn(Amt, InTransit' \cup {x}) /\ SameOn(Amt, Amt, InTransit')
      BY DEF InTransit, SameOn, IntOn
    <3>2. /\ SumOver(Amt, InTransit' \cup {x}) = Amt[x] + SumOver(Amt, InTransit')
          /\ SumOver(Amt, InTransit') \in Int
      BY <2>2, <2>3, <3>1, SumOverAdd
    <3> QED BY <2>2, <3>2
  <2>5. TypeOK'
    BY <1>1, <1>8, <2>1 DEF Credit, TypeOK, Stages
  <2> QED BY <1>1, <1>2, <1>3, <2>1, <2>3, <2>4, <2>5
<1>9. ASSUME NEW x \in Transfer, Complete(x) PROVE Goal
  <2>1. InTransit' = InTransit /\ UNCHANGED <<accounts, opened>>
    BY <1>1, <1>9 DEF Complete, InTransit
  <2>2. TypeOK'
    BY <1>1, <1>9 DEF Complete, TypeOK, Stages
  <2> QED BY <1>1, <1>2, <2>1, <2>2
<1>10. CASE UNCHANGED vars
  BY <1>1, <1>2, <1>10 DEF vars, TypeOK, InTransit
<1> QED BY <1>4, <1>5, <1>7, <1>8, <1>9, <1>10 DEF Next

(* In every state of every bank that follows Bank, the balances and the    *)
(* money in transit add up to what the accounts were set up with.          *)
THEOREM MoneyConserved == Spec => []Conservation
<1>1. Inv => Conservation
  BY DEF Inv
<1> QED BY <1>1, InvInit, InvStep, PTL DEF Spec
=============================================================================
