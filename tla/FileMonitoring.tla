--------------------------- MODULE FileMonitoring ---------------------------
(***************************************************************************)
(* correlator_plugin/python/FileMonitoring: a plug-in whose threads poll   *)
(* directories, one thread for each MonitorDirectory event, and report     *)
(* what has been added and deleted.                                        *)
(*                                                                         *)
(* The threads share the dictionary searchDirs with the monitor, which     *)
(* calls the plug-in from the correlator's thread.  Python may switch      *)
(* threads between any two statements: a poll is a step for each use of    *)
(* the file system, the dictionary or the correlator.  The file system     *)
(* changes by itself.                                                      *)
(***************************************************************************)
EXTENDS Integers, FiniteSets

CONSTANTS
  Directory, File,
  Poller,               \* the polling threads that can be started: a bound
  Missing,              \* no directory, no listing, no thread
  MaxChanges            \* bounds the changes of the file system

ASSUME FileMonitoringAssumption ==
  /\ Missing \notin File \cup Poller \cup Directory
  /\ \A files \in SUBSET File : files # Missing

VARIABLES
  contents,             \* the files of each directory, or Missing
  changes,              \* how often the file system has changed
  searchDirs,           \* the last listing of each directory, or Missing
  running,
  thread,               \* the last thread that was started
  monitor,              \* where the monitor is
  directory,            \* the directory of a call of monitorDirectory
  OrigSeqFiles,         \* its listing
  poll,                 \* where each thread is
  searchDir,            \* the directory it polls
  currentSeqFiles,      \* its listing
  additions, deleted,   \* its report
  told                  \* history: for each directory and file, what was
                        \* listed at first, and added, less what was deleted

fileVars == <<contents, changes, searchDirs, running, thread, monitor, directory,
              OrigSeqFiles, poll, searchDir, currentSeqFiles, additions,
              deleted, told>>

FileMonitoringInit ==
  /\ contents \in [Directory -> SUBSET File]
  /\ changes = 0
  /\ searchDirs = [d \in Directory |-> Missing]
  /\ running = TRUE
  /\ thread = Missing
  /\ monitor = "up"
  /\ directory = Missing
  /\ OrigSeqFiles = {}
  /\ poll = [p \in Poller |-> "none"]
  /\ searchDir = [p \in Poller |-> Missing]
  /\ currentSeqFiles = [p \in Poller |-> {}]
  /\ additions = [p \in Poller |-> {}]
  /\ deleted = [p \in Poller |-> {}]
  /\ told = [d \in Directory |-> [f \in File |-> 0]]

\* How often each file is in a set.
Once(files) == [f \in File |-> IF f \in files THEN 1 ELSE 0]

reports == <<currentSeqFiles, additions, deleted>>

-----------------------------------------------------------------------------
(* The file system.                                                        *)

AddOrDelete(d, f) ==
  /\ contents[d] # Missing
  /\ contents' = [contents EXCEPT ![d] = IF f \in @ THEN @ \ {f} ELSE @ \cup {f}]

RemoveOrMakeDirectory(d) ==
  contents' = [contents EXCEPT ![d] = IF @ = Missing THEN {} ELSE Missing]

Change(d) ==
  /\ changes < MaxChanges
  /\ changes' = changes + 1
  /\ (\E f \in File : AddOrDelete(d, f)) \/ RemoveOrMakeDirectory(d)
  /\ UNCHANGED <<searchDirs, running, thread, monitor, directory, OrigSeqFiles,
                 poll, searchDir, reports, told>>

-----------------------------------------------------------------------------
(* The monitor, in the correlator's thread.                                *)

\* monitorDirectory lists the directory.  One that does not exist is not
\* monitored.
MonitorDirectory(d) ==
  /\ monitor = "up"
  /\ contents[d] # Missing
  /\ \E p \in Poller : poll[p] = "none"
  /\ OrigSeqFiles' = contents[d]
  /\ directory' = d
  /\ monitor' = "starting"
  /\ UNCHANGED <<contents, changes, searchDirs, running, thread, poll,
                 searchDir, reports, told>>

\* The rest of monitorDirectory.
StartThread(p) ==
  /\ monitor = "starting"
  /\ poll[p] = "none"
  /\ searchDirs' = [searchDirs EXCEPT ![directory] = OrigSeqFiles]
  /\ thread' = p
  /\ poll' = [poll EXCEPT ![p] = "sleeping"]
  /\ searchDir' = [searchDir EXCEPT ![p] = directory]
  /\ told' = IF searchDirs[directory] = Missing
             THEN [told EXCEPT ![directory] = Once(OrigSeqFiles)] ELSE told
  /\ monitor' = "up"
  /\ directory' = Missing
  /\ OrigSeqFiles' = {}
  /\ UNCHANGED <<contents, changes, running, reports>>

\* onunload calls shutdown, which fails when no thread was ever started.
ShutdownPlugin ==
  /\ monitor = "up"
  /\ running' = FALSE
  /\ monitor' = IF thread = Missing THEN "failed" ELSE "joining"
  /\ UNCHANGED <<contents, changes, searchDirs, thread, directory, OrigSeqFiles,
                 poll, searchDir, reports, told>>

Join ==
  /\ monitor = "joining"
  /\ poll[thread] = "ended"
  /\ monitor' = "down"
  /\ UNCHANGED <<contents, changes, searchDirs, running, thread, directory,
                 OrigSeqFiles, poll, searchDir, reports, told>>

-----------------------------------------------------------------------------
(* A polling thread.                                                       *)

\* The listing of a directory that does not exist throws, and is tried again.
List(p) ==
  /\ poll[p] = "sleeping"
  /\ running
  /\ contents[searchDir[p]] # Missing
  /\ currentSeqFiles' = [currentSeqFiles EXCEPT ![p] = contents[searchDir[p]]]
  /\ poll' = [poll EXCEPT ![p] = "listed"]
  /\ UNCHANGED <<contents, changes, searchDirs, running, thread, monitor, directory,
                 OrigSeqFiles, searchDir, additions, deleted, told>>

End(p) ==
  /\ poll[p] = "sleeping"
  /\ ~running
  /\ poll' = [poll EXCEPT ![p] = "ended"]
  /\ UNCHANGED <<contents, changes, searchDirs, running, thread, monitor, directory,
                 OrigSeqFiles, searchDir, reports, told>>

\* Mutant: only additions make a difference.
CompareAdditions(p) ==
  /\ poll[p] = "listed"
  /\ LET origSet == searchDirs[searchDir[p]]
         added == currentSeqFiles[p] \ origSet
     IN /\ additions' = [additions EXCEPT ![p] = added]
        /\ deleted' = [deleted EXCEPT ![p] = origSet \ currentSeqFiles[p]]
        /\ poll' = [poll EXCEPT ![p] = IF added # {} THEN "changed" ELSE "sleeping"]
  /\ UNCHANGED <<contents, changes, searchDirs, running, thread, monitor, directory,
                 OrigSeqFiles, searchDir, currentSeqFiles, told>>

Compare(p) ==
  /\ poll[p] = "listed"
  /\ LET origSet == searchDirs[searchDir[p]]
         changed == currentSeqFiles[p] # origSet
     IN /\ additions' = [additions EXCEPT ![p] = currentSeqFiles[p] \ origSet]
        /\ deleted' = [deleted EXCEPT ![p] = origSet \ currentSeqFiles[p]]
        /\ poll' = [poll EXCEPT ![p] = IF changed THEN "changed" ELSE "sleeping"]
  /\ UNCHANGED <<contents, changes, searchDirs, running, thread, monitor, directory,
                 OrigSeqFiles, searchDir, currentSeqFiles, told>>

SendChanges(p) ==
  /\ poll[p] = "changed"
  /\ told' = [told EXCEPT ![searchDir[p]] =
       [f \in File |-> @[f] + Once(additions[p])[f] - Once(deleted[p])[f]]]
  /\ poll' = [poll EXCEPT ![p] = "sent"]
  /\ UNCHANGED <<contents, changes, searchDirs, running, thread, monitor, directory,
                 OrigSeqFiles, searchDir, reports>>

\* Mutant: the listing kept is a new one.
UpdateListedAgain(p) ==
  /\ poll[p] = "sent"
  /\ contents[searchDir[p]] # Missing
  /\ searchDirs' = [searchDirs EXCEPT ![searchDir[p]] = contents[searchDir[p]]]
  /\ poll' = [poll EXCEPT ![p] = "sleeping"]
  /\ UNCHANGED <<contents, changes, running, thread, monitor, directory,
                 OrigSeqFiles, searchDir, reports, told>>

UpdateFiles(p) ==
  /\ poll[p] = "sent"
  /\ searchDirs' = [searchDirs EXCEPT ![searchDir[p]] = currentSeqFiles[p]]
  /\ poll' = [poll EXCEPT ![p] = "sleeping"]
  /\ UNCHANGED <<contents, changes, running, thread, monitor, directory,
                 OrigSeqFiles, searchDir, reports, told>>

PollerStep(p) ==
  \/ List(p)
  \/ End(p)
  \/ Compare(p)
  \/ SendChanges(p)
  \/ UpdateFiles(p)

FileMonitoringNext ==
  \/ \E d \in Directory : Change(d) \/ MonitorDirectory(d)
  \/ \E p \in Poller : StartThread(p) \/ PollerStep(p)
  \/ ShutdownPlugin
  \/ Join

FileMonitoringSpec == FileMonitoringInit /\ [][FileMonitoringNext]_fileVars

-----------------------------------------------------------------------------
(* Properties.                                                             *)

PollersOf(d) == {p \in Poller : searchDir[p] = d}

\* A directory that one thread polls: the reports add up to the listing that
\* the thread compares with, from the first one on; while it has reported and
\* not yet stored its new listing, to that one.  Nothing is reported twice,
\* and nothing that has come and gone between two polls is made up.
ReportsAddUp ==
  \A d \in Directory : \A p \in Poller :
    PollersOf(d) = {p} =>
      told[d] = Once(IF poll[p] = "sent" THEN currentSeqFiles[p] ELSE searchDirs[d])

\* Once shutdown has returned, the thread it waited for sends nothing any
\* more.  The threads of other directories may.
QuietOnceJoined ==
  [][monitor = "down" /\ told' # told =>
       \E p \in Poller \ {thread} : poll[p] = "changed"]_fileVars

\* What happens to a directory that one thread polls is reported in the end,
\* as long as the plug-in runs and the directory is there.
ChangesReported ==
  \A d \in Directory :
    <>[](running /\ contents[d] # Missing /\ Cardinality(PollersOf(d)) = 1
           => told[d] = Once(contents[d]))

\* All threads end after shutdown, those too that it does not wait for.
ThreadsEnd == ~running ~> \A p \in Poller : poll[p] \in {"none", "ended"}

\* Threads report what there is to report and, once they are told to, end.
PollersFinish == QuietOnceJoined /\ ChangesReported /\ ThreadsEnd
=============================================================================
