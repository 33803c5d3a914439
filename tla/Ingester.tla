------------------------------- MODULE Ingester -------------------------------
(*****************************************************************************)
(* Ingester (companion/crates/server/src/ingest): the documents of a folder, *)
(* indexed when the companion starts, when a watched folder goes quiet and   *)
(* when the page asks.  One job at a time walks the folder, reads what is    *)
(* new or changed, replaces its rows one statement after another, forgets    *)
(* what it did not find, and makes the configured model the active one; the  *)
(* person's files change under it all the while.                             *)
(*                                                                           *)
(* One folder stands for each: a job scans them one after another and they   *)
(* share no file.  Two versions of a file are as long as each other, so that *)
(* only the time of modification tells them apart unread, and no two         *)
(* versions carry the same time.                                             *)
(*****************************************************************************)
EXTENDS FiniteSetsExt, Integers

CONSTANTS
  Paths,     \* the files of the folder, numbered in path order
  Texts,     \* what a file may say
  Models,    \* the embedding models that may be configured
  None,      \* no file, no row, no model
  MaxEdits,  \* bound: how often the person changes a file
  MaxFaults  \* bound: how often, together, something fails or the companion stops

ASSUME IngesterAssumption ==
  /\ Paths \subseteq Nat
  /\ None \notin Models \cup [text : Texts, stamp : Nat, model : Models \cup {None}]
  /\ {MaxEdits, MaxFaults} \subseteq Nat

VARIABLES
  files,       \* the folder on disk: what each file says, and since when
  index,       \* the documents' rows: what was read, as of which time, by which model
  configured,  \* the model in documents.json, read when the companion starts
  active,      \* the model whose vectors a search reads
  slot,        \* the companion's job slot: whether it runs, a job, a rerun asked for
  job,         \* the job under way
  again,       \* a job that has ended is about to scan once more
  noticed,     \* a change of the folder the watcher has not acted on
  unheard,     \* a change since the last walk began that a running companion was not told of
  gone,        \* the files that were absent at some time since the job began
  spoiled,     \* something failed since the last job began
  edits, faults

vars == <<files, index, configured, active, slot, job, again, noticed, unheard, gone, spoiled,
          edits, faults>>

NoJob == [at |-> "none", unseen |-> {}, found |-> {}, stamps |-> [p \in Paths |-> 0],
          unreadable |-> {}, missed |-> {}, text |-> None]

Stopped == [up |-> FALSE, running |-> FALSE, rerun |-> FALSE]

Init ==
  /\ files \in [Paths -> {None} \cup [text : Texts, stamp : {0}]]
  /\ index = [p \in Paths |-> None]
  /\ configured = None
  /\ active = None
  /\ slot = Stopped
  /\ job = NoJob
  /\ again = FALSE
  /\ noticed = FALSE
  /\ unheard = FALSE
  /\ gone = {}
  /\ spoiled = FALSE
  /\ edits = 0
  /\ faults = 0

-------------------------------------------------------------------------------
(* Asking for a scan.                                                        *)

\* Mutant: a change seen while a job runs is taken for part of it.
ScanIsEnough(trigger) ==
  IF slot.running
    THEN UNCHANGED <<slot, job, gone, spoiled>>
    ELSE /\ slot' = [up |-> TRUE, running |-> TRUE, rerun |-> FALSE]
         /\ job' = [NoJob EXCEPT !.at = "prepare"]
         /\ gone' = {p \in Paths : files[p] = None}
         /\ spoiled' = FALSE

\* A scan asked for while one runs is that one; a watched change asks for one
\* more when it ends.
scan(trigger) ==
  IF slot.running
    THEN /\ slot' = [slot EXCEPT !.rerun = @ \/ trigger = "watch"]
         /\ UNCHANGED <<job, gone, spoiled>>
    ELSE /\ slot' = [up |-> TRUE, running |-> TRUE, rerun |-> FALSE]
         /\ job' = [NoJob EXCEPT !.at = "prepare"]
         /\ gone' = {p \in Paths : files[p] = None}
         /\ spoiled' = FALSE

\* The companion starts, with what documents.json now says: it watches if that
\* says so and a watcher can be had, and scans.  Whether it watches shows in the
\* changes it is told of, and nowhere else.
Start ==
  /\ ~slot.up
  /\ configured' \in Models \cup {None}
  /\ scan("start")
  /\ UNCHANGED <<files, index, active, again, noticed, unheard, edits, faults>>

\* The companion stops: nothing it was doing is remembered.
Stop ==
  /\ slot.up
  /\ faults < MaxFaults
  /\ faults' = faults + 1
  /\ slot' = Stopped
  /\ job' = NoJob
  /\ gone' = {}
  /\ again' = FALSE
  /\ noticed' = FALSE
  /\ unheard' = FALSE
  /\ UNCHANGED <<files, index, configured, active, spoiled, edits>>

\* POST /ingest/scan.
Request ==
  /\ slot.up
  /\ scan("request")
  /\ UNCHANGED <<files, index, configured, active, again, noticed, unheard, edits, faults>>

\* The watched folder has been quiet for long enough.
Quiet ==
  /\ noticed
  /\ noticed' = FALSE
  /\ scan("watch")
  /\ UNCHANGED <<files, index, configured, active, again, unheard, edits, faults>>

\* The scan a job asks for once it has given the slot up.
ScanAgain ==
  /\ again
  /\ again' = FALSE
  /\ scan("watch")
  /\ UNCHANGED <<files, index, configured, active, noticed, unheard, edits, faults>>

\* The person writes, touches or removes a file.  A companion that runs is told
\* only if it watches, and not of what the watcher fails to read or reports as no
\* more than a reason to look again.
Change ==
  /\ edits < MaxEdits
  /\ edits' = edits + 1
  /\ \E p \in Paths, to \in {None} \cup [text : Texts, stamp : {edits'}] :
       /\ to # files[p]
       /\ files' = [files EXCEPT ![p] = to]
       /\ gone' = IF to = None /\ slot.running THEN gone \cup {p} ELSE gone
  /\ \E told \in {FALSE, slot.up} :
       /\ noticed' = (noticed \/ told)
       /\ unheard' = (unheard \/ (slot.up /\ ~told))
  /\ UNCHANGED <<index, configured, active, slot, job, again, spoiled, faults>>

-------------------------------------------------------------------------------
(* The job.                                                                  *)

Fault ==
  /\ faults < MaxFaults
  /\ faults' = faults + 1
  /\ spoiled' = TRUE

NoFault == UNCHANGED <<faults, spoiled>>

\* Everything but the job itself, the index and the active model; and what the
\* walk makes up for.
BesidesTheJob == UNCHANGED <<files, configured, slot, again, noticed, gone, edits>>

JobOnly == BesidesTheJob /\ UNCHANGED unheard

Goes(phase) == job' = [job EXCEPT !.at = phase]

\* The model is registered, and active if none is.
Prepare ==
  /\ job.at = "prepare"
  /\ active' = IF active = None THEN configured ELSE active
  /\ Goes("walk")
  /\ NoFault
  /\ JobOnly
  /\ UNCHANGED index

\* The folder cannot be read at all: it is left alone.
FolderUnreadable ==
  /\ job.at = "walk"
  /\ Goes("activate")
  /\ Fault
  /\ JobOnly
  /\ UNCHANGED <<index, active>>

Present == {p \in Paths : files[p] # None}

\* The walk lists the folder and those below; one of those may be unreadable.
walk ==
  /\ job.at = "walk"
  /\ \/ /\ NoFault
        /\ job' = [job EXCEPT !.at = "look", !.unseen = Present]
     \/ /\ Fault
        /\ \E p \in Paths :
             job' = [job EXCEPT !.at = "look", !.unseen = Present \ {p}, !.unreadable = {p}]
  /\ unheard' = FALSE
  /\ BesidesTheJob
  /\ UNCHANGED <<index, active>>

\* It looks at what it listed; a file that has just been removed is one it cannot
\* look at, as is one whose metadata cannot be had.
Look ==
  /\ job.at = "look"
  /\ \E p \in job.unseen :
       \/ /\ files[p] # None
          /\ NoFault
          /\ job' = [job EXCEPT !.unseen = @ \ {p}, !.found = @ \cup {p},
                                !.stamps[p] = files[p].stamp]
       \/ /\ IF files[p] = None THEN NoFault ELSE Fault
          /\ job' = [job EXCEPT !.unseen = @ \ {p}, !.unreadable = @ \cup {p}]
  /\ JobOnly
  /\ UNCHANGED <<index, active>>

\* What has a row in the index.
Known(p) == index[p] # None

\* Mutant: what could not be read counts as gone.
MissedOrUnreadable == {p \in Paths : Known(p)} \ job.found

\* What the walk did not find, unless it is where the walk could not look.
Missed == {p \in Paths : Known(p)} \ (job.found \cup job.unreadable)

\* The rows of the folder are listed; the index has no other writer.
Listed ==
  /\ job.at = "look"
  /\ job.unseen = {}
  /\ job' = [job EXCEPT !.at = "files", !.missed = Missed, !.unreadable = {}]
  /\ NoFault
  /\ JobOnly
  /\ UNCHANGED <<index, active>>

file == Min(job.found)

\* Same size, same time, same model: not even read.
Unchanged(p) ==
  /\ Known(p)
  /\ index[p].stamp = job.stamps[p]
  /\ index[p].model = configured

SkipFile ==
  /\ job.at = "files"
  /\ job.found # {}
  /\ Unchanged(file)
  /\ job' = [job EXCEPT !.found = @ \ {file}]
  /\ NoFault
  /\ JobOnly
  /\ UNCHANGED <<index, active>>

\* A file that is no longer there, or that cannot be read or understood, keeps
\* its rows and is reported.
FileFails ==
  /\ job.at = "files"
  /\ job.found # {}
  /\ ~Unchanged(file)
  /\ IF files[file] = None THEN NoFault ELSE Fault
  /\ job' = [job EXCEPT !.found = @ \ {file}]
  /\ JobOnly
  /\ UNCHANGED <<index, active>>

\* The file is read, and embedded if its words or the model are new.
ReadFile ==
  /\ job.at = "files"
  /\ job.found # {}
  /\ ~Unchanged(file)
  /\ files[file] # None
  /\ LET same == /\ Known(file)
                 /\ index[file].model = configured
                 /\ index[file].text = files[file].text
     IN  job' = [job EXCEPT !.at = IF same THEN "touch" ELSE "embed",
                            !.text = files[file].text]
  /\ NoFault
  /\ JobOnly
  /\ UNCHANGED <<index, active>>

\* The words are what was indexed: only the time is brought up to date.
Touch ==
  /\ job.at = "touch"
  /\ index' = [index EXCEPT ![file].stamp = job.stamps[file]]
  /\ job' = [job EXCEPT !.at = "files", !.found = @ \ {file}]
  /\ NoFault
  /\ JobOnly
  /\ UNCHANGED active

Embedded ==
  /\ job.at = "embed"
  /\ Goes("delete")
  /\ NoFault
  /\ JobOnly
  /\ UNCHANGED <<index, active>>

\* The old rows go, in a statement of their own ...
Delete ==
  /\ job.at = "delete"
  /\ index' = [index EXCEPT ![file] = None]
  /\ Goes("insert")
  /\ NoFault
  /\ JobOnly
  /\ UNCHANGED active

\* ... and the new ones come, whole or not at all, with the walk's time.
Row(p) == [text |-> job.text, stamp |-> job.stamps[p], model |-> configured]

Insert ==
  /\ job.at = "insert"
  /\ index' = [index EXCEPT ![file] = Row(file)]
  /\ job' = [job EXCEPT !.at = "files", !.found = @ \ {file}, !.text = None]
  /\ NoFault
  /\ JobOnly
  /\ UNCHANGED active

\* What is gone from the folder goes from the index, a row at a time.
Forget ==
  /\ job.at = "files"
  /\ job.found = {}
  /\ \E p \in job.missed :
       /\ index' = [index EXCEPT ![p] = None]
       /\ job' = [job EXCEPT !.missed = @ \ {p}]
  /\ NoFault
  /\ JobOnly
  /\ UNCHANGED active

FilesDone ==
  /\ job.at = "files"
  /\ job.found \cup job.missed = {}
  /\ Goes("activate")
  /\ NoFault
  /\ JobOnly
  /\ UNCHANGED <<index, active>>

\* Searches now read what this job embedded.
Activate ==
  /\ job.at = "activate"
  /\ active' = IF configured = None THEN active ELSE configured
  /\ Goes("over")
  /\ NoFault
  /\ JobOnly
  /\ UNCHANGED index

\* The database or the embedding endpoint refuses, or the job panics.
JobFails ==
  /\ job.at \notin {"none", "over"}
  /\ Goes("over")
  /\ Fault
  /\ JobOnly
  /\ UNCHANGED <<index, active>>

\* The job's task has ended: the slot is free, and a rerun asked for is taken.
Finish ==
  /\ job.at = "over"
  /\ job' = NoJob
  /\ slot' = [slot EXCEPT !.running = FALSE, !.rerun = FALSE]
  /\ again' = slot.rerun
  /\ gone' = {}
  /\ UNCHANGED <<files, index, configured, active, noticed, unheard, spoiled, edits, faults>>

Proceed ==
  \/ Prepare \/ walk \/ Look \/ Listed \/ SkipFile \/ FileFails \/ ReadFile \/ Touch \/ Embedded
  \/ Delete \/ Insert \/ Forget \/ FilesDone \/ Activate \/ Finish

Next ==
  \/ Start \/ Stop \/ Request \/ Quiet \/ ScanAgain \/ Change
  \/ Proceed \/ FolderUnreadable \/ JobFails

Spec == Init /\ [][Next]_vars

\* A job goes on, the task that ended one scans again, and a folder the person
\* leaves alone is quiet in the end.
Fairness == WF_vars(Proceed) /\ WF_vars(ScanAgain) /\ WF_vars(Quiet)

FairSpec == Spec /\ Fairness

-------------------------------------------------------------------------------
(* Properties.                                                               *)

\* Every document's row is what the file says, as of when it was last written,
\* by the model the configuration names.
UpToDate ==
  /\ \A p \in Paths :
       IF files[p] = None
         THEN index[p] = None
         ELSE index[p] = [text |-> files[p].text, stamp |-> files[p].stamp,
                          model |-> configured]
  /\ configured # None => active = configured

\* Every change the companion is told of, or that a walk comes after, is indexed in
\* the end, whenever it comes: before the walk, under it, between a file's reading
\* and its row, while the slot changes hands, or while the companion is not running
\* - unless it is not running still, or something failed since the last scan began
\* (a failed scan is not retried).
ChangeIsIndexed == <>[](slot.up /\ ~spoiled /\ ~unheard => UpToDate)

\* A document leaves the index only because its file was gone at some time
\* since the scan began, or because its new words are read and embedded and come
\* next: a folder that cannot be read, a file that cannot, and an endpoint that
\* is down leave what was there.
OnlyGoneIsForgotten ==
  [][\A p \in Paths :
       index[p] # None /\ index'[p] = None =>
         \/ p \in gone
         \/ job'.at = "insert" /\ file' = p /\ Row(p)' # index[p]]_vars
=============================================================================
