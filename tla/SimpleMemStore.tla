--------------------------- MODULE SimpleMemStore ---------------------------
(***************************************************************************)
(* epl/memorystore/SimpleMemStore.mon: each PrepareInMemory event spawns   *)
(* an instance that prepares a store and a table and then has several      *)
(* contexts add one to the same row, optimistically: a commit is refused   *)
(* when another came between, and is tried again on the current row.       *)
(*                                                                         *)
(* The MemoryStore is modelled by what the sample relies on: preparations  *)
(* finish later, with or without success; a row that was got is a copy;    *)
(* tryCommitOrUpdate commits it if the row in the table is still the one   *)
(* it was copied from, and otherwise copies the row again.                 *)
(***************************************************************************)
EXTENDS Naturals, FiniteSets

CONSTANTS
  Preparation,          \* the PrepareInMemory events
  Store, StoreOf,       \* the stores they name
  UpdateContext         \* the contexts an instance spawns modifyRow to

ASSUME StoreAssumption == StoreOf \in [Preparation -> Store]

Updater == Preparation \X UpdateContext
RowOf == [u \in Updater |-> StoreOf[u[1]]]

VARIABLES
  main,                 \* whether the monitor's first instance is alive
  preparing,            \* where the instance of each preparation is
  table,                \* the row "my-example-key" of each store's table
  pc,                   \* where each updater is in modifyRow
  row,                  \* its copy of the row
  commitAttempts,
  committed             \* history: the updaters whose commit succeeded

memStoreVars == <<main, preparing, table, pc, row, commitAttempts, committed>>
updaters == <<table, pc, row, commitAttempts, committed>>

\* A row: its "value", and the number of commits that made it.
Row == [value : Nat, version : Nat]
NewRow == [value |-> 0, version |-> 0]

MemStoreInit ==
  /\ main = TRUE
  /\ preparing = [p \in Preparation |-> "unsent"]
  /\ table = [s \in Store |-> NewRow]
  /\ pc = [u \in Updater |-> "none"]
  /\ row = [u \in Updater |-> NewRow]
  /\ commitAttempts = [u \in Updater |-> 0]
  /\ committed = {}

-----------------------------------------------------------------------------
(* The monitor's own context.                                              *)

\* PrepareInMemory: nobody listens once the first instance is dead.
Prepare(p) ==
  /\ preparing[p] = "unsent"
  /\ preparing' = [preparing EXCEPT ![p] = IF main THEN "preparingStore" ELSE "ignored"]
  /\ UNCHANGED <<main, updaters>>

\* Finished(success=false) kills the instance that waits for it, and the
\* first one, which listens for every failure.
Fail(p) ==
  /\ preparing[p] \in {"preparingStore", "preparingTable"}
  /\ preparing' = [preparing EXCEPT ![p] = "dead"]
  /\ main' = FALSE
  /\ UNCHANGED updaters

StoreReady(p) ==
  /\ preparing[p] = "preparingStore"
  /\ preparing' = [preparing EXCEPT ![p] = "preparingTable"]
  /\ UNCHANGED <<main, updaters>>

TableReady(p) ==
  /\ preparing[p] = "preparingTable"
  /\ preparing' = [preparing EXCEPT ![p] = "open"]
  /\ pc' = [u \in Updater |-> IF u[1] = p THEN "get" ELSE pc[u]]
  /\ UNCHANGED <<main, table, row, commitAttempts, committed>>

-----------------------------------------------------------------------------
(* modifyRow, in a context of its own.                                     *)

Get(u) ==
  /\ pc[u] = "get"
  /\ row' = [row EXCEPT ![u] = table[RowOf[u]]]
  /\ pc' = [pc EXCEPT ![u] = "modify"]
  /\ UNCHANGED <<main, preparing, table, commitAttempts, committed>>

Modify(u) ==
  /\ pc[u] = "modify"
  /\ row' = [row EXCEPT ![u].value = @ + 1]
  /\ commitAttempts' = [commitAttempts EXCEPT ![u] = @ + 1]
  /\ pc' = [pc EXCEPT ![u] = "commit"]
  /\ UNCHANGED <<main, preparing, table, committed>>

Current(u) == row[u].version = table[RowOf[u]].version

\* Mutant: a forced commit.
ForceCommit(u) ==
  /\ pc[u] = "commit"
  /\ table' = [table EXCEPT ![RowOf[u]] =
                 [value |-> row[u].value, version |-> @.version + 1]]
  /\ committed' = committed \cup {u}
  /\ pc' = [pc EXCEPT ![u] = "done"]
  /\ UNCHANGED <<main, preparing, row, commitAttempts>>

\* tryCommitOrUpdate returns true.
Commit(u) ==
  /\ pc[u] = "commit"
  /\ Current(u)
  /\ table' = [table EXCEPT ![RowOf[u]] =
                 [value |-> row[u].value, version |-> @.version + 1]]
  /\ committed' = committed \cup {u}
  /\ pc' = [pc EXCEPT ![u] = "done"]
  /\ UNCHANGED <<main, preparing, row, commitAttempts>>

\* Mutant: the version is brought up to date, and the value is not.
UpdateVersion(u) ==
  /\ pc[u] = "commit"
  /\ ~Current(u)
  /\ row' = [row EXCEPT ![u].version = table[RowOf[u]].version]
  /\ pc' = [pc EXCEPT ![u] = "modify"]
  /\ UNCHANGED <<main, preparing, table, commitAttempts, committed>>

\* Mutant: the loop ends at the first refusal.
GiveUp(u) ==
  /\ pc[u] = "commit"
  /\ ~Current(u)
  /\ pc' = [pc EXCEPT ![u] = "done"]
  /\ UNCHANGED <<main, preparing, table, row, commitAttempts, committed>>

\* tryCommitOrUpdate returns false.
Update(u) ==
  /\ pc[u] = "commit"
  /\ ~Current(u)
  /\ row' = [row EXCEPT ![u] = table[RowOf[u]]]
  /\ pc' = [pc EXCEPT ![u] = "modify"]
  /\ UNCHANGED <<main, preparing, table, commitAttempts, committed>>

-----------------------------------------------------------------------------

Finish(p) == StoreReady(p) \/ TableReady(p) \/ Fail(p)
Run(u) == Get(u) \/ Modify(u) \/ Commit(u) \/ Update(u)

MemStoreNext ==
  \/ \E p \in Preparation : Prepare(p) \/ Finish(p)
  \/ \E u \in Updater : Run(u)

MemStoreSpec == MemStoreInit /\ [][MemStoreNext]_memStoreVars

-----------------------------------------------------------------------------
(* Properties.                                                             *)

\* Every variable keeps its type.
MemStoreTypeOK ==
  /\ main \in BOOLEAN
  /\ preparing \in [Preparation -> {"unsent", "ignored", "preparingStore",
                                    "preparingTable", "open", "dead"}]
  /\ table \in [Store -> Row]
  /\ pc \in [Updater -> {"none", "get", "modify", "commit", "done"}]
  /\ row \in [Updater -> Row]
  /\ commitAttempts \in [Updater -> Nat]
  /\ committed \subseteq Updater

\* Each updater adds one to its store's row, once and atomically: no update
\* is lost, although between the get and the commit all contexts may run.
Counted == INSTANCE Tally WITH
  Passer <- Updater, Place <- Store, PlaceOf <- RowOf,
  value <- [s \in Store |-> table[s].value], passed <- committed
ImplementsTally == Counted!Spec

\* A copy that would be committed is of the current row: its value is the
\* table's, or one more once it is modified.  A copy is never newer.
CopiesAgree ==
  \A u \in Updater : pc[u] \in {"modify", "commit"} =>
    /\ row[u].version <= table[RowOf[u]].version
    /\ Current(u) => row[u].value = table[RowOf[u]].value
                                      + (IF pc[u] = "commit" THEN 1 ELSE 0)

CommittedTo(s) == {u \in committed : RowOf[u] = s}

\* A retry has a reason: an updater has tried at most once more than other
\* updaters of its row have committed.
RetriesHaveReason ==
  \A u \in Updater :
    commitAttempts[u] <= 1 + Cardinality(CommittedTo(RowOf[u]) \ {u})

\* The retries come to an end: none is without a reason, and every updater
\* whose table has been opened commits in the end.  Each context runs, and the MemoryStore answers
\* every request.
UpdatersCommit ==
  /\ []RetriesHaveReason
  /\ <>[](\A u \in Updater : preparing[u[1]] = "open" => u \in committed)

=============================================================================
