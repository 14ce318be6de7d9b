---------------------------- MODULE BankDeadlock ----------------------------
(***************************************************************************)
(* epl/concurrency-theory/Bank-deadlock.mon: tellers lock both accounts of *)
(* a transfer with the database, source first, and unlock them after they  *)
(* have set both balances.                                                 *)
(***************************************************************************)
EXTENDS BankRounds, FiniteSets

\* The rounds of this bank.
ASSUME DeadlockRounds == Rounds = <<"Lock", "Get", "Set", "Unlock">>

VARIABLE lockedAccounts \* the Lock requests waiting for each locked account

vars == <<accounts, queue, sending, round, heard, unsent, opened, lockedAccounts>>

DeadlockTypeOK ==
  /\ TypeOK
  /\ DOMAIN lockedAccounts \subseteq Account
  /\ lockedAccounts \in [DOMAIN lockedAccounts -> Seq([type : {"Lock"}, id : Transfer, leg : Legs, amt : {0}])]

DeadlockInit == Init /\ lockedAccounts = [a \in {} |-> <<>>]

-----------------------------------------------------------------------------
(* monitor BankDB                                                          *)

\* Mutant: a lock is granted whether or not it is free.
DbLockNoWait ==
  /\ H!Takes(BankDB, "Lock")
  /\ LET lock == Head(queue[BankDB]) IN
       /\ lockedAccounts' = WithEntry(lockedAccounts, AccountOf(lock), <<>>)
       /\ H!Handle(BankDB, <<Reply(lock, 0)>>)
  /\ UNCHANGED <<accounts, tellers, customers>>

DbLock ==
  /\ H!Takes(BankDB, "Lock")
  /\ LET lock == Head(queue[BankDB])
         act == AccountOf(lock)
     IN \/ /\ act \in DOMAIN lockedAccounts
           /\ lockedAccounts' = [lockedAccounts EXCEPT ![act] = Append(@, lock)]
           /\ H!Handle(BankDB, <<>>)
        \/ /\ act \notin DOMAIN lockedAccounts
           /\ lockedAccounts' = WithEntry(lockedAccounts, act, <<>>)
           /\ H!Handle(BankDB, <<Reply(lock, 0)>>)
  /\ UNCHANGED <<accounts, tellers, customers>>

WithoutEntry(f, k) == [j \in DOMAIN f \ {k} |-> f[j]]

\* Without an entry the account is free.  Mutant of HandOver: it is free
\* although somebody waits for it.
FreeAccount(unlock, act) ==
  /\ lockedAccounts' = WithoutEntry(lockedAccounts, act)
  /\ H!Handle(BankDB, <<Reply(unlock, 0)>>)

\* Mutant: an Unlock is answered only if nobody waits.
HandOverUnanswered(unlock, act) ==
  /\ lockedAccounts' = [lockedAccounts EXCEPT ![act] = Tail(@)]
  /\ H!Handle(BankDB, <<Reply(Head(lockedAccounts[act]), 0)>>)

\* The account stays locked, for the request that has waited longest.
HandOver(unlock, act) ==
  /\ lockedAccounts' = [lockedAccounts EXCEPT ![act] = Tail(@)]
  /\ H!Handle(BankDB, <<Reply(unlock, 0), Reply(Head(lockedAccounts[act]), 0)>>)

DbUnlock ==
  /\ H!Takes(BankDB, "Unlock")
  /\ LET unlock == Head(queue[BankDB])
         act == AccountOf(unlock)
     IN \/ /\ act \in DOMAIN lockedAccounts
           /\ lockedAccounts[act] # <<>>
           /\ HandOver(unlock, act)
        \/ /\ act \in DOMAIN lockedAccounts
           /\ lockedAccounts[act] = <<>>
           /\ FreeAccount(unlock, act)
        \/ /\ act \notin DOMAIN lockedAccounts      \* an error is logged
           /\ H!Handle(BankDB, <<>>)
           /\ UNCHANGED lockedAccounts
  /\ UNCHANGED <<accounts, tellers, customers>>

-----------------------------------------------------------------------------
DeadlockDbStep == DbLock \/ DbUnlock \/ (DbStep /\ UNCHANGED lockedAccounts)

DeadlockTellerStep(t) == TellerStep(t) /\ UNCHANGED lockedAccounts

Next ==
  \/ CustomerStep /\ UNCHANGED lockedAccounts
  \/ DeadlockDbStep
  \/ \E t \in Teller : DeadlockTellerStep(t)

Fairness == WF_vars(DeadlockDbStep) /\ \A t \in Teller : WF_vars(DeadlockTellerStep(t))

Spec == DeadlockInit /\ [][Next]_vars /\ Fairness

-----------------------------------------------------------------------------
\* From the answer to its Lock to the answer to its Unlock.
Holds(x, l) == Answered("Lock", x, l) /\ ~Answered("Unlock", x, l)

Holders(a) == {x \in Transfer : \E l \in Legs : LegAccount(x, l) = a /\ Holds(x, l)}

\* The lock table and the tellers agree: an account in the table has one
\* holder, counted from the answer to its Lock to the answer to its
\* Unlock, and an account that is not in the table has none.
MutualExclusion ==
  \A a \in Account : Cardinality(Holders(a)) = IF a \in DOMAIN lockedAccounts THEN 1 ELSE 0

(* Holding both locks makes the two Gets and the two Sets of a transfer    *)
(* one transaction: no update is lost and none is applied twice.           *)
ImplementsBank == BK!Spec

\* x waits in the lock table for an account that y holds.
WaitsFor(x, y) ==
  \E a \in DOMAIN lockedAccounts :
    y \in Holders(a) /\ \E lock \in Range(lockedAccounts[a]) : lock.id = x

\* What x waits for, directly or down a chain of held locks: what is in every
\* set that has what x and its own members wait for.
Waits(x) ==
  {y \in Transfer :
     \A S \in SUBSET Transfer :
       (\A w \in S \cup {x}, z \in Transfer : WaitsFor(w, z) => z \in S) => y \in S}

\* Two transfers of different tellers wait for each other.  (One order of
\* the accounts does not prevent it: a teller asks for the second lock before
\* it is granted the first, so that two transfers from a to b may do it.  The
\* Lock requests of one teller reach the database transfer by transfer.)
InCircularWait(x) ==
  \E y \in Waits(x) : x \in Waits(y) /\ TellerOf[x] # TellerOf[y]

\* A transfer from an account to itself never gets its second lock.
WaitsForItself(x) == From[x] = To[x] /\ WaitsFor(x, x)

\* When nothing is in flight: its Get is not answered, as the account was not
\* set up then.
GetUnanswered(x) == round[x] = "Get"

Quiescent == \A c \in Context : InFlight(c) = {}

Unfinished(x) == round[x] \notin {"unsent", "complete"}

\* When nothing is left to be done, what is still unfinished waits, down a
\* chain of held locks, for a transfer that is in a circular wait, waits
\* for itself, or asked for the balance of an account that was not set up:
\* there is no other way to get stuck, no grant of a lock is lost.
StuckOnlyByDesign ==
  Quiescent =>
    \A x \in Transfer : Unfinished(x) =>
      \E y \in {x} \cup Waits(x) :
        InCircularWait(y) \/ WaitsForItself(y) \/ GetUnanswered(y)

(* The locks are exclusive, whoever a lock is handed to and in whatever    *)
(* order the answers arrive, and no grant of a lock is lost: the bank gets *)
(* stuck in a circular wait or behind an account that is not set up, and   *)
(* in no other way.                                                        *)
LocksSafe == DeadlockTypeOK /\ MutualExclusion /\ StuckOnlyByDesign

\* Both its locks are granted, and both its accounts exist.
MayProceed(x) ==
  /\ round[x] = "Lock"
  /\ \A l \in Legs : Holds(x, l) /\ LegAccount(x, l) \in DOMAIN accounts

(* A transfer that holds both locks and whose accounts are set up is       *)
(* completed, whoever else is stuck.                                       *)
HoldersComplete == \A x \in Transfer : MayProceed(x) ~> (round[x] = "complete")
=============================================================================
