---------------------------- MODULE IngesterProofs ----------------------------
(*****************************************************************************)
(* What holds of Ingester for every folder, every model and however many     *)
(* edits, failures and restarts there are, proved with the TLA+ proof        *)
(* system: nothing is forgotten but what was gone, and a companion with      *)
(* nothing left to do has indexed every change it was told of, or walked      *)
(* after.                                                                    *)
(*****************************************************************************)
EXTENDS Ingester, WellFoundedInduction, TLAPS

-----------------------------------------------------------------------------
(* The invariant.                                                            *)

Phases == {"prepare", "walk", "look", "files", "touch", "embed", "delete", "insert",
           "activate", "over"}

Rows == [text : Texts, stamp : Nat, model : Models \cup {None}]

Slots == [up : BOOLEAN, running : BOOLEAN, rerun : BOOLEAN]

Jobs == [at : Phases \cup {"none"}, unseen : SUBSET Paths, found : SUBSET Paths,
         stamps : [Paths -> Nat], unreadable : SUBSET Paths, missed : SUBSET Paths,
         text : Texts \cup {None}]

TypeOK ==
  /\ files \in [Paths -> {None} \cup [text : Texts, stamp : Nat]]
  /\ index \in [Paths -> {None} \cup Rows]
  /\ configured \in Models \cup {None}
  /\ slot \in Slots
  /\ job \in Jobs
  /\ edits \in Nat

\* A file is in hand: it has been read, and its rows are not yet as they will be.
InHand == job.at \in {"touch", "embed", "delete", "insert"}

\* A job runs exactly while the slot says so, and only in a companion that runs.
SlotOK ==
  /\ slot.running <=> job.at # "none"
  /\ slot.running => slot.up
  /\ InHand => job.found # {} /\ job.text \in Texts
  /\ job.at \in {"prepare", "walk"} => job.found = {} /\ job.unreadable = {}

\* The time of modification tells the versions of a file apart, though a row has
\* the time of the walk and the words of a later reading.
StampsTell ==
  /\ \A p \in Paths : files[p] # None => files[p].stamp <= edits
  /\ \A p \in Paths : index[p] # None => index[p].stamp <= edits
  /\ \A p \in Paths : job.stamps[p] <= edits
  /\ \A p \in Paths :
       files[p] # None /\ index[p] # None /\ index[p].stamp = files[p].stamp =>
         index[p].text = files[p].text
  /\ InHand /\ files[file] # None /\ job.stamps[file] = files[file].stamp =>
       job.text = files[file].text

\* Why the file in hand is: its words are those of its row, or the row has others
\* or another model's vectors.
SameWords(p) == index[p] # None /\ index[p].model = configured /\ index[p].text = job.text

HandOK ==
  /\ job.at = "touch" => SameWords(file)
  /\ job.at \in {"embed", "delete"} => ~SameWords(file)

\* What the job takes for gone was gone at some time since it began.
GoneOK ==
  /\ slot.running => \A p \in Paths : files[p] = None => p \in gone
  /\ job.at = "look" => Paths \ (job.unseen \cup job.found \cup job.unreadable) \subseteq gone
  /\ job.missed \subseteq gone

\* The row is what the file says, as of when it was last written.
Fresh(p) ==
  IF files[p] = None
    THEN index[p] = None
    ELSE index[p] = [text |-> files[p].text, stamp |-> files[p].stamp, model |-> configured]

\* What a job has come to in a folder that nobody has changed since it began, if
\* nothing failed in it.
Walked == job.found \subseteq Present /\ \A p \in job.found : job.stamps[p] = files[p].stamp

JobOK ==
  /\ job.at = "look" =>
       /\ Walked
       /\ job.unseen \cup job.found = Present
       /\ job.unreadable = {}
  /\ job.at \in {"files", "touch", "embed", "delete", "insert"} =>
       /\ Walked
       /\ job.missed \intersect Present = {}
       /\ \A p \in Paths \ (job.found \cup job.missed) : Fresh(p)
  /\ job.at \in {"activate", "over"} => \A p \in Paths : Fresh(p)
  /\ job.at = "over" /\ configured # None => active = configured

\* Whatever changes after the walk has been noticed, or has a rerun asked for, if
\* the companion was told of it at all.
WorkOK == slot.running /\ ~spoiled /\ ~noticed /\ ~slot.rerun /\ ~unheard => JobOK

\* A companion that runs and has nothing left to do (no job, none to follow, no
\* change it has not acted on, no failure in its last scan), and was told of every
\* change since that scan's walk, has indexed every file as it is, and searches
\* read the configured model's vectors.
IdleIsUpToDate ==
  slot.up /\ ~slot.running /\ ~again /\ ~noticed /\ ~spoiled /\ ~unheard => UpToDate

IInv ==
  /\ TypeOK /\ SlotOK /\ StampsTell /\ HandOK /\ GoneOK /\ WorkOK /\ IdleIsUpToDate

-----------------------------------------------------------------------------
(* The file in hand.                                                         *)

LEMMA LeastIsThere ==
  ASSUME NEW S, S \subseteq Nat, S # {}
  PROVE  Min(S) \in S
<1>1. PICK x \in S : \A y \in S : <<y, x>> \notin OpToRel(<, Nat)
  BY NatLessThanWellFounded, WFMin, Zenon
<1>2. \A y \in S : ~ (y < x)
  BY <1>1, Zenon DEF OpToRel
<1>3. \A y \in S : x <= y
  BY <1>2
<1> QED
  BY <1>3 DEF Min

LEMMA FileIsFound ==
  ASSUME TypeOK, job.found # {}
  PROVE  file \in job.found /\ file \in Paths
BY LeastIsThere, IngesterAssumption DEF file, TypeOK, Jobs

LEMMA SameFile ==
  ASSUME job'.found = job.found
  PROVE  file' = file
BY DEF file

LEMMA TouchedRow ==
  ASSUME TypeOK, Touch
  PROVE  index' = [index EXCEPT ![file] = [index[file] EXCEPT !.stamp = job.stamps[file]]]
BY DEF Touch

-----------------------------------------------------------------------------
(* Types, and the slot.                                                      *)

LEMMA InitTyped == Init => TypeOK /\ SlotOK
BY IngesterAssumption DEF Init, TypeOK, SlotOK, NoJob, Stopped, InHand, Phases, Slots, Jobs

LEMMA ScanDoes ==
  ASSUME slot \in Slots, NEW trigger, scan(trigger)
  PROVE  /\ slot' \in Slots /\ slot'.running
         /\ \/ /\ slot.running /\ slot'.up = slot.up
               /\ slot'.rerun <=> slot.rerun \/ trigger = "watch"
               /\ UNCHANGED <<job, gone, spoiled>>
            \/ /\ ~slot.running /\ slot'.up /\ ~slot'.rerun /\ ~spoiled'
               /\ job' \in Jobs /\ job'.at = "prepare" /\ job'.text = None
               /\ job'.stamps = [p \in Paths |-> 0]
               /\ job'.unseen = {} /\ job'.found = {} /\ job'.unreadable = {} /\ job'.missed = {}
               /\ gone' = {p \in Paths : files[p] = None}
<1>1. CASE slot.running
  <2> DEFINE asked == slot.rerun \/ trigger = "watch"
  <2>1. slot' = [slot EXCEPT !.rerun = asked] /\ UNCHANGED <<job, gone, spoiled>>
    BY <1>1 DEF scan
  <2>2. asked \in BOOLEAN
    OBVIOUS
  <2> HIDE DEF asked
  <2>3. slot' \in Slots /\ slot'.running = slot.running /\ slot'.up = slot.up
        /\ slot'.rerun = asked
    BY <2>1, <2>2 DEF Slots
  <2> QED
    BY <1>1, <2>1, <2>3, Zenon DEF asked
<1>2. CASE ~slot.running
  <2>1. slot' = [up |-> TRUE, running |-> TRUE, rerun |-> FALSE]
    BY <1>2 DEF scan
  <2>2. ~spoiled' /\ gone' = {p \in Paths : files[p] = None}
    BY <1>2 DEF scan
  <2>3. job' = [NoJob EXCEPT !.at = "prepare"]
    BY <1>2 DEF scan
  <2>4. /\ job'.at = "prepare" /\ job'.stamps = [p \in Paths |-> 0] /\ job'.text = None
        /\ job'.unseen = {} /\ job'.found = {} /\ job'.unreadable = {} /\ job'.missed = {}
        /\ job' \in Jobs
    BY <2>3 DEF NoJob, Jobs, Phases
  <2> QED
    BY <1>2, <2>1, <2>2, <2>4 DEF Slots
<1> QED
  BY <1>1, <1>2

LEMMA NextTyped ==
  ASSUME TypeOK, SlotOK, HandOK, [Next]_vars
  PROVE  TypeOK' /\ SlotOK'
<1> USE DEF TypeOK, SlotOK, Phases, InHand, Rows, Slots, Jobs
<1>1. CASE Start \/ Request \/ Quiet \/ ScanAgain
  <2>1. PICK trigger : scan(trigger)
    BY <1>1 DEF Start, Request, Quiet, ScanAgain
  <2>2. configured' \in Models \cup {None} /\ UNCHANGED <<files, index, edits>>
    BY <1>1 DEF Start, Request, Quiet, ScanAgain
  <2>3. slot.running => slot'.up
    BY <1>1, <2>1, ScanDoes DEF Slots
  <2> QED
    BY <2>1, <2>2, <2>3, ScanDoes DEF Jobs, Slots
<1>2. CASE Stop
  BY <1>2 DEF Stop, Stopped, NoJob
<1>3. CASE Change
  BY <1>3 DEF Change
<1>4. CASE Prepare \/ FolderUnreadable \/ Embedded \/ FilesDone \/ Activate \/ JobFails
  BY <1>4 DEF Prepare, FolderUnreadable, Embedded, FilesDone, Activate, JobFails, Goes, JobOnly,
     BesidesTheJob
<1>5. CASE walk
  <2>1. Present \subseteq Paths
    BY DEF Present
  <2>2. CASE job' = [job EXCEPT !.at = "look", !.unseen = Present]
    BY <1>5, <2>1, <2>2 DEF walk, JobOnly, BesidesTheJob
  <2>3. ASSUME NEW p \in Paths,
               job' = [job EXCEPT !.at = "look", !.unseen = Present \ {p}, !.unreadable = {p}]
        PROVE  TypeOK' /\ SlotOK'
    BY <1>5, <2>1, <2>3 DEF walk, JobOnly, BesidesTheJob
  <2> QED
    BY <1>5, <2>2, <2>3 DEF walk
<1>6. CASE Look
  <2>1. PICK p \in Paths :
          \/ job' = [job EXCEPT !.unseen = @ \ {p}, !.found = @ \cup {p},
                                !.stamps[p] = files[p].stamp] /\ files[p] # None
          \/ job' = [job EXCEPT !.unseen = @ \ {p}, !.unreadable = @ \cup {p}]
    BY <1>6 DEF Look
  <2>2. CASE job' = [job EXCEPT !.unseen = @ \ {p}, !.unreadable = @ \cup {p}]
    BY <1>6, <2>2 DEF Look, JobOnly, BesidesTheJob
  <2>3. CASE job' = [job EXCEPT !.unseen = @ \ {p}, !.found = @ \cup {p},
                                !.stamps[p] = files[p].stamp] /\ files[p] # None
    <3>1. files[p].stamp \in Nat
      BY <2>3
    <3> QED
      BY <1>6, <2>3, <3>1 DEF Look, JobOnly, BesidesTheJob
  <2> QED
    BY <2>1, <2>2, <2>3
<1>7. CASE Listed
  BY <1>7 DEF Listed, Missed, Known, JobOnly, BesidesTheJob
<1>8. CASE SkipFile \/ FileFails
  BY <1>8 DEF SkipFile, FileFails, JobOnly, BesidesTheJob
<1>9. CASE ReadFile
  <2>1. file \in Paths
    BY <1>9, FileIsFound DEF ReadFile
  <2> QED
    BY <1>9, <2>1 DEF ReadFile, JobOnly, BesidesTheJob
<1>10. CASE Touch
  <2>1. file \in Paths
    BY <1>10, FileIsFound DEF Touch
  <2>2. index[file] \in Rows
    BY <1>10, <2>1 DEF Touch, HandOK, SameWords
  <2>3. [index[file] EXCEPT !.stamp = job.stamps[file]] \in Rows
    BY <2>1, <2>2
  <2>4. index' \in [Paths -> {None} \cup Rows]
    BY <1>10, <2>1, <2>3, TouchedRow
  <2>5. job' \in Jobs /\ job'.at = "files"
    BY <1>10 DEF Touch
  <2> QED
    BY <1>10, <2>4, <2>5 DEF Touch, JobOnly, BesidesTheJob
<1>11. CASE Delete \/ Forget
  BY <1>11 DEF Delete, Forget, Goes, JobOnly, BesidesTheJob
<1>12. CASE Insert
  <2>1. file \in Paths
    BY <1>12, FileIsFound DEF Insert
  <2>2. Row(file) \in Rows
    BY <1>12, <2>1 DEF Insert, Row
  <2> QED
    BY <1>12, <2>2 DEF Insert, JobOnly, BesidesTheJob
<1>13. CASE Finish
  BY <1>13 DEF Finish, NoJob
<1>14. CASE UNCHANGED vars
  BY <1>14 DEF vars
<1> QED
  BY <1>1, <1>2, <1>3, <1>4, <1>5, <1>6, <1>7, <1>8, <1>9, <1>10, <1>11, <1>12, <1>13, <1>14
     DEF Next, Proceed

-----------------------------------------------------------------------------
(* The times of modification.                                                *)

LEMMA NextTells ==
  ASSUME TypeOK, SlotOK, HandOK, StampsTell, [Next]_vars
  PROVE  StampsTell'
<1> USE DEF TypeOK, StampsTell, InHand, Rows, Jobs
<1>1. CASE Start \/ Request \/ Quiet \/ ScanAgain
  <2>1. PICK trigger : scan(trigger)
    BY <1>1 DEF Start, Request, Quiet, ScanAgain
  <2>2. UNCHANGED <<files, index, edits>>
    BY <1>1 DEF Start, Request, Quiet, ScanAgain
  <2>3. CASE job' = job
    BY <2>2, <2>3, SameFile
  <2>4. CASE job'.at = "prepare" /\ job'.stamps = [p \in Paths |-> 0]
    BY <2>2, <2>4
  <2> QED
    BY <2>1, <2>3, <2>4, ScanDoes
<1>2. CASE Stop \/ Finish
  BY <1>2 DEF Stop, Finish, NoJob
<1>3. CASE Change
  <2>1. PICK p \in Paths, to \in {None} \cup [text : Texts, stamp : {edits'}] :
          files' = [files EXCEPT ![p] = to]
    BY <1>3 DEF Change
  <2>2. UNCHANGED <<index, job>> /\ edits' = edits + 1 /\ file' = file
    BY <1>3, SameFile DEF Change
  <2>3. \A q \in Paths : files'[q] = files[q] \/ (files'[q] # None => files'[q].stamp = edits + 1)
    BY <2>1, <2>2
  <2>4. job.found # {} => file \in Paths
    BY FileIsFound
  <2>5. \A q \in Paths : files[q] # None => files[q].stamp \in Nat
    OBVIOUS
  <2>6. \A q \in Paths : index[q] # None => index[q].stamp \in Nat
    OBVIOUS
  <2> QED
    BY <2>2, <2>3, <2>4, <2>5, <2>6 DEF SlotOK
<1>4. CASE Prepare \/ FolderUnreadable \/ FilesDone \/ Activate \/ JobFails
  BY <1>4 DEF Prepare, FolderUnreadable, FilesDone, Activate, JobFails, Goes, JobOnly, BesidesTheJob
<1>5. CASE walk \/ Listed \/ SkipFile \/ FileFails
  <2>1. job'.stamps = job.stamps /\ job'.at \in {"look", "files"}
    <3>1. CASE walk
      BY <3>1 DEF walk
    <3>2. CASE Listed
      BY <3>2 DEF Listed
    <3>3. CASE SkipFile
      BY <3>3 DEF SkipFile
    <3>4. CASE FileFails
      BY <3>4 DEF FileFails
    <3> QED
      BY <1>5, <3>1, <3>2, <3>3, <3>4
  <2>2. UNCHANGED <<files, index, edits>>
    BY <1>5 DEF walk, Listed, SkipFile, FileFails, JobOnly, BesidesTheJob
  <2> QED
    BY <2>1, <2>2
<1>6. CASE Look
  <2>1. PICK p \in Paths :
          \/ /\ job' = [job EXCEPT !.unseen = @ \ {p}, !.found = @ \cup {p},
                                   !.stamps[p] = files[p].stamp]
             /\ files[p] # None
          \/ job' = [job EXCEPT !.unseen = @ \ {p}, !.unreadable = @ \cup {p}]
    BY <1>6 DEF Look
  <2>2. job'.at = "look" /\ UNCHANGED <<files, index, edits>>
    BY <1>6, <2>1 DEF Look, JobOnly, BesidesTheJob
  <2>3. \A q \in Paths : job'.stamps[q] = job.stamps[q]
                         \/ (files[q] # None /\ job'.stamps[q] = files[q].stamp)
    <3>1. \/ job'.stamps = job.stamps
          \/ job'.stamps = [job.stamps EXCEPT ![p] = files[p].stamp] /\ files[p] # None
      BY <2>1
    <3> QED
      BY <3>1
  <2> QED
    BY <2>2, <2>3
<1>7. CASE ReadFile
  <2>1. job'.found = job.found /\ job'.stamps = job.stamps /\ job'.text = files[file].text
    BY <1>7 DEF ReadFile
  <2>2. file' = file /\ UNCHANGED <<files, index, edits>>
    BY <1>7, <2>1, SameFile DEF ReadFile, JobOnly, BesidesTheJob
  <2> QED
    BY <2>1, <2>2
<1>8. CASE Touch
  <2>1. file \in Paths /\ index[file] \in Rows /\ index[file].text = job.text
    BY <1>8, FileIsFound DEF Touch, SlotOK, HandOK, SameWords
  <2>2. /\ index'[file].stamp = job.stamps[file] /\ index'[file].text = job.text
        /\ \A q \in Paths : q # file => index'[q] = index[q]
    BY <1>8, <2>1, TouchedRow
  <2>3. job'.at = "files" /\ job'.stamps = job.stamps /\ UNCHANGED <<files, edits>>
    BY <1>8 DEF Touch, JobOnly, BesidesTheJob
  <2>4. files[file] # None /\ job.stamps[file] = files[file].stamp => job.text = files[file].text
    BY <1>8 DEF Touch
  <2> QED
    BY <2>1, <2>2, <2>3, <2>4
<1>9. CASE Embedded
  <2>1. job'.found = job.found /\ job'.stamps = job.stamps /\ job'.text = job.text
    BY <1>9 DEF Embedded, Goes
  <2>2. file' = file /\ UNCHANGED <<files, index, edits>>
    BY <1>9, <2>1, SameFile DEF Embedded, JobOnly, BesidesTheJob
  <2> QED
    BY <1>9, <2>1, <2>2 DEF Embedded
<1>10. CASE Delete
  <2>1. job'.found = job.found /\ job'.stamps = job.stamps /\ job'.text = job.text
    BY <1>10 DEF Delete, Goes
  <2>2. file' = file /\ UNCHANGED <<files, edits>>
    BY <1>10, <2>1, SameFile DEF Delete, JobOnly, BesidesTheJob
  <2>3. \A q \in Paths : index'[q] = index[q] \/ index'[q] = None
    BY <1>10 DEF Delete
  <2> QED
    BY <1>10, <2>1, <2>2, <2>3 DEF Delete
<1>11. CASE Forget
  <2>1. \A q \in Paths : index'[q] = index[q] \/ index'[q] = None
    BY <1>11 DEF Forget
  <2>2. job'.at = "files" /\ job'.stamps = job.stamps /\ UNCHANGED <<files, edits>>
    BY <1>11 DEF Forget, JobOnly, BesidesTheJob
  <2> QED
    BY <2>1, <2>2
<1>12. CASE Insert
  <2>1. file \in Paths
    BY <1>12, FileIsFound DEF Insert, SlotOK
  <2>2. /\ index'[file].stamp = job.stamps[file] /\ index'[file].text = job.text
        /\ \A q \in Paths : q # file => index'[q] = index[q]
    BY <1>12, <2>1 DEF Insert, Row
  <2>3. job'.at = "files" /\ job'.stamps = job.stamps /\ UNCHANGED <<files, edits>>
    BY <1>12 DEF Insert, JobOnly, BesidesTheJob
  <2>4. files[file] # None /\ job.stamps[file] = files[file].stamp => job.text = files[file].text
    BY <1>12 DEF Insert
  <2> QED
    BY <2>1, <2>2, <2>3, <2>4
<1>13. CASE UNCHANGED vars
  BY <1>13, SameFile DEF vars
<1> QED
  BY <1>1, <1>2, <1>3, <1>4, <1>5, <1>6, <1>7, <1>8, <1>9, <1>10, <1>11, <1>12, <1>13
     DEF Next, Proceed

-----------------------------------------------------------------------------
(* What is taken for gone, and why a file is in hand.                        *)

LEMMA NextHeld ==
  ASSUME TypeOK, SlotOK, HandOK, GoneOK, [Next]_vars
  PROVE  HandOK' /\ GoneOK'
<1> USE DEF TypeOK, HandOK, GoneOK, SlotOK, Jobs
<1>1. CASE Start \/ Request \/ Quiet \/ ScanAgain
  <2>1. PICK trigger : scan(trigger)
    BY <1>1 DEF Start, Request, Quiet, ScanAgain
  <2>2. UNCHANGED <<files, index>> /\ (slot.running => configured' = configured)
    BY <1>1 DEF Start, Request, Quiet, ScanAgain
  <2>3. CASE slot.running /\ UNCHANGED <<job, gone>>
    BY <2>1, <2>2, <2>3, SameFile, ScanDoes DEF SameWords
  <2>4. CASE /\ job'.at = "prepare" /\ job'.missed = {}
             /\ gone' = {p \in Paths : files[p] = None}
    BY <2>2, <2>4
  <2> QED
    BY <2>1, <2>3, <2>4, ScanDoes
<1>2. CASE Stop \/ Finish
  <2>1. job' = NoJob /\ ~slot'.running
    <3>1. CASE Stop
      BY <3>1 DEF Stop, Stopped
    <3>2. CASE Finish
      BY <3>2 DEF Finish, Slots
    <3> QED
      BY <1>2, <3>1, <3>2
  <2> QED
    BY <2>1 DEF NoJob
<1>3. CASE Change
  <2>1. PICK p \in Paths, to \in {None} \cup [text : Texts, stamp : {edits'}] :
          /\ files' = [files EXCEPT ![p] = to]
          /\ gone' = IF to = None /\ slot.running THEN gone \cup {p} ELSE gone
    BY <1>3 DEF Change
  <2>2. UNCHANGED <<index, job, configured, slot>> /\ file' = file
    BY <1>3, SameFile DEF Change
  <2>3. gone \subseteq gone' /\ \A q \in Paths : files'[q] = None /\ slot.running =>
          files[q] = None \/ q \in gone'
    BY <2>1
  <2> QED
    BY <2>2, <2>3 DEF SameWords
<1>4. CASE Prepare \/ FolderUnreadable \/ FilesDone \/ Activate \/ JobFails
  BY <1>4 DEF Prepare, FolderUnreadable, FilesDone, Activate, JobFails, Goes, JobOnly, BesidesTheJob
<1>5. CASE walk
  <2>1. Paths \ Present \subseteq gone
    BY <1>5 DEF walk, Present
  <2>2. /\ job'.at = "look" /\ job'.missed = job.missed
        /\ Present \subseteq job'.unseen \cup job'.unreadable
    BY <1>5 DEF walk
  <2> QED
    BY <1>5, <2>1, <2>2 DEF walk, JobOnly, BesidesTheJob
<1>6. CASE Look
  <2>1. /\ job'.at = "look" /\ job'.missed = job.missed
        /\ job.unseen \cup job.found \cup job.unreadable
             \subseteq job'.unseen \cup job'.found \cup job'.unreadable
    <3>1. PICK p \in job.unseen :
            \/ job' = [job EXCEPT !.unseen = @ \ {p}, !.found = @ \cup {p},
                                  !.stamps[p] = files[p].stamp]
            \/ job' = [job EXCEPT !.unseen = @ \ {p}, !.unreadable = @ \cup {p}]
      BY <1>6 DEF Look
    <3>2. job.at = "look"
      BY <1>6 DEF Look
    <3>3. CASE job' = [job EXCEPT !.unseen = @ \ {p}, !.unreadable = @ \cup {p}]
      BY <3>2, <3>3
    <3>4. CASE job' = [job EXCEPT !.unseen = @ \ {p}, !.found = @ \cup {p},
                                  !.stamps[p] = files[p].stamp]
      <4>1. /\ job'.unseen = job.unseen \ {p} /\ job'.found = job.found \cup {p}
            /\ job'.unreadable = job.unreadable /\ job'.missed = job.missed
            /\ job'.at = job.at
        BY <3>4
      <4> QED
        BY <3>2, <4>1
    <3> QED
      BY <3>1, <3>3, <3>4
  <2> QED
    BY <1>6, <2>1 DEF Look, JobOnly, BesidesTheJob
<1>7. CASE Listed
  BY <1>7 DEF Listed, Missed, Known, JobOnly, BesidesTheJob
<1>8. CASE SkipFile \/ FileFails
  BY <1>8 DEF SkipFile, FileFails, JobOnly, BesidesTheJob
<1>9. CASE ReadFile
  <2>1. /\ job'.found = job.found /\ job'.missed = job.missed
        /\ job'.text = files[file].text
        /\ job'.at = IF /\ Known(file)
                        /\ index[file].model = configured
                        /\ index[file].text = files[file].text
                       THEN "touch" ELSE "embed"
    BY <1>9 DEF ReadFile
  <2>2. file' = file /\ UNCHANGED <<files, index, configured, slot, gone>>
    BY <1>9, <2>1, SameFile DEF ReadFile, JobOnly, BesidesTheJob
  <2> QED
    BY <1>9, <2>1, <2>2 DEF SameWords, Known, ReadFile
<1>10. CASE Touch \/ Insert
  BY <1>10 DEF Touch, Insert, JobOnly, BesidesTheJob
<1>11. CASE Embedded
  <2>1. job'.found = job.found /\ job'.missed = job.missed /\ job'.text = job.text
    BY <1>11 DEF Embedded, Goes
  <2>2. file' = file /\ UNCHANGED <<files, index, configured, slot, gone>>
    BY <1>11, <2>1, SameFile DEF Embedded, JobOnly, BesidesTheJob
  <2> QED
    BY <1>11, <2>1, <2>2 DEF SameWords, Embedded, Goes
<1>12. CASE Delete \/ Forget
  BY <1>12 DEF Delete, Forget, Goes, JobOnly, BesidesTheJob
<1>13. CASE UNCHANGED vars
  BY <1>13, SameFile DEF vars, SameWords
<1> QED
  BY <1>1, <1>2, <1>3, <1>4, <1>5, <1>6, <1>7, <1>8, <1>9, <1>10, <1>11, <1>12, <1>13
     DEF Next, Proceed

-----------------------------------------------------------------------------
(* What a job comes to.                                                      *)

LEMMA NextWorks ==
  ASSUME TypeOK, SlotOK, StampsTell, HandOK, WorkOK, [Next]_vars
  PROVE  WorkOK'
<1> DEFINE Calm == slot.running /\ ~spoiled /\ ~noticed /\ ~slot.rerun /\ ~unheard
<1> USE DEF TypeOK, WorkOK, JobOK, Walked, SlotOK, Jobs, Present, Fresh
<1>1. CASE Start \/ Request \/ Quiet \/ ScanAgain
  <2>1. PICK trigger : scan(trigger) /\ (Quiet \/ ScanAgain => trigger = "watch")
    BY <1>1 DEF Start, Request, Quiet, ScanAgain
  <2>2. CASE slot.running /\ UNCHANGED <<job, spoiled>> /\ ~slot'.rerun
    <3>1. Request
      BY <1>1, <2>1, <2>2, ScanDoes DEF Start
    <3>2. UNCHANGED <<files, index, configured, active, noticed, unheard>> /\ ~slot.rerun
      BY <2>1, <2>2, <3>1, ScanDoes DEF Request
    <3> QED
      BY <2>2, <3>2
  <2>3. CASE job'.at = "prepare"
    BY <2>3
  <2> QED
    BY <2>1, <2>2, <2>3, ScanDoes
<1>2. CASE Stop \/ Finish
  BY <1>2 DEF Stop, Finish, NoJob, Stopped, Slots
<1>3. CASE Change
  BY <1>3 DEF Change
<1>4. CASE FolderUnreadable \/ JobFails
  BY <1>4 DEF FolderUnreadable, JobFails, Fault
<1>5. CASE Prepare
  BY <1>5 DEF Prepare, Goes
<1>6. ASSUME Proceed, Calm', ~Prepare, ~Finish
      PROVE  JobOK'
  <2>1. UNCHANGED <<files, configured, slot, noticed>>
    BY <1>6 DEF Proceed, walk, Look, Listed, SkipFile, FileFails, ReadFile, Touch, Embedded,
       Delete, Insert, Forget, FilesDone, Activate, JobOnly, BesidesTheJob
  <2>2. UNCHANGED <<spoiled>>
    BY <1>6 DEF Proceed, walk, Look, Listed, SkipFile, FileFails, ReadFile, Touch, Embedded,
       Delete, Insert, Forget, FilesDone, Activate, NoFault, Fault
  <2>3. JobOK
    <3>1. CASE walk
      BY <3>1 DEF walk
    <3>2. CASE ~walk
      <4>1. UNCHANGED unheard
        BY <1>6, <3>2 DEF Proceed, Look, Listed, SkipFile, FileFails, ReadFile, Touch,
           Embedded, Delete, Insert, Forget, FilesDone, Activate, JobOnly
      <4> QED
        BY <1>6, <2>1, <2>2, <4>1
    <3> QED
      BY <3>1, <3>2
  <2>4. CASE walk
    BY <1>6, <2>1, <2>4 DEF walk, Fault
  <2>5. CASE Look
    <3>1. PICK p \in job.unseen :
            job' = [job EXCEPT !.unseen = @ \ {p}, !.found = @ \cup {p},
                               !.stamps[p] = files[p].stamp]
      BY <1>6, <2>3, <2>5 DEF Look, Fault
    <3>2. /\ job'.at = "look" /\ job'.unseen = job.unseen \ {p}
          /\ job'.found = job.found \cup {p} /\ job'.unreadable = job.unreadable
          /\ job'.stamps = [job.stamps EXCEPT ![p] = files[p].stamp]
      BY <2>5, <3>1 DEF Look
    <3> QED
      BY <2>1, <2>3, <2>5, <3>2 DEF Look
  <2>6. CASE Listed
    BY <2>1, <2>3, <2>6 DEF Listed, Missed, Known
  <2>7. CASE SkipFile
    <3>1. file \in job.found /\ file \in Paths
      BY <2>7, FileIsFound DEF SkipFile
    <3>2. index[file] \in Rows /\ files[file] # None
      BY <2>3, <2>7, <3>1 DEF SkipFile, Unchanged, Known
    <3>3. /\ index[file].text = files[file].text /\ index[file].stamp = files[file].stamp
          /\ index[file].model = configured
      BY <2>3, <2>7, <3>1, <3>2 DEF SkipFile, Unchanged, Known, StampsTell
    <3>4. Fresh(file)
      BY <3>2, <3>3 DEF Rows
    <3>5. /\ job'.found = job.found \ {file} /\ job'.missed = job.missed
          /\ job'.stamps = job.stamps /\ job'.at = "files" /\ index' = index
      BY <2>7 DEF SkipFile
    <3> QED
      BY <2>1, <2>3, <2>7, <3>4, <3>5 DEF SkipFile
  <2>8. CASE FileFails
    <3>1. file \in job.found
      BY <2>8, FileIsFound DEF FileFails
    <3> QED
      BY <1>6, <2>3, <2>8, <3>1 DEF FileFails, Fault
  <2>9. CASE ReadFile
    BY <2>1, <2>3, <2>9 DEF ReadFile
  <2>10. CASE Touch \/ Insert
    <3>1. file \in job.found /\ file \in Paths /\ files[file] # None
          /\ job.stamps[file] = files[file].stamp
      BY <2>3, <2>10, FileIsFound DEF Touch, Insert, InHand
    <3>2. job.text = files[file].text
      BY <2>10, <3>1 DEF StampsTell, Touch, Insert, InHand
    <3>3. /\ job'.found = job.found \ {file} /\ job'.missed = job.missed
          /\ job'.stamps = job.stamps /\ job'.at = "files"
      BY <2>10 DEF Touch, Insert
    <3>4. index' = [index EXCEPT ![file] = [text |-> files[file].text,
                      stamp |-> files[file].stamp, model |-> configured]]
      <4>1. CASE Insert
        BY <3>1, <3>2, <4>1 DEF Insert, Row
      <4>2. CASE Touch
        <5>1. index[file] \in Rows /\ SameWords(file)
          BY <3>1, <4>2 DEF HandOK, SameWords, Touch
        <5>2. [index[file] EXCEPT !.stamp = job.stamps[file]]
                = [text |-> files[file].text, stamp |-> files[file].stamp, model |-> configured]
          BY <3>1, <3>2, <5>1 DEF SameWords, Rows
        <5> QED
          BY <4>2, <5>2, TouchedRow
      <4> QED
        BY <2>10, <4>1, <4>2
    <3> QED
      BY <2>1, <2>3, <2>10, <3>1, <3>3, <3>4 DEF Touch, Insert
  <2>11. CASE Embedded
    BY <2>1, <2>3, <2>11 DEF Embedded, Goes
  <2>12. CASE Delete
    <3>1. file \in job.found
      BY <2>12, FileIsFound DEF Delete, InHand
    <3>2. /\ job'.found = job.found /\ job'.missed = job.missed
          /\ job'.stamps = job.stamps /\ job'.at = "insert"
      BY <2>12 DEF Delete, Goes
    <3>3. \A q \in Paths : q # file => index'[q] = index[q]
      BY <2>12 DEF Delete
    <3> QED
      BY <2>1, <2>3, <2>12, <3>1, <3>2, <3>3 DEF Delete
  <2>13. CASE Forget
    <3>1. PICK p \in job.missed : /\ index' = [index EXCEPT ![p] = None]
                                  /\ job' = [job EXCEPT !.missed = @ \ {p}]
      BY <2>13 DEF Forget
    <3>2. files[p] = None /\ p \in Paths
      BY <2>3, <2>13, <3>1 DEF Forget
    <3> QED
      BY <2>1, <2>3, <2>13, <3>1, <3>2 DEF Forget
  <2>14. CASE FilesDone
    BY <2>1, <2>3, <2>14 DEF FilesDone, Goes
  <2>15. CASE Activate
    BY <2>1, <2>3, <2>15 DEF Activate, Goes
  <2> QED
    BY <1>6, <2>4, <2>5, <2>6, <2>7, <2>8, <2>9, <2>10, <2>11, <2>12, <2>13, <2>14, <2>15
       DEF Proceed
<1>7. CASE UNCHANGED vars
  BY <1>7 DEF vars
<1> QED
  BY <1>1, <1>2, <1>3, <1>4, <1>5, <1>6, <1>7 DEF Next

LEMMA NextIdles ==
  ASSUME SlotOK, WorkOK, IdleIsUpToDate, TypeOK, [Next]_vars
  PROVE  IdleIsUpToDate'
<1> USE DEF IdleIsUpToDate
<1>1. CASE Start \/ Request \/ Quiet \/ ScanAgain
  BY <1>1, ScanDoes DEF Start, Request, Quiet, ScanAgain, TypeOK
<1>2. CASE Stop
  BY <1>2 DEF Stop, Stopped
<1>3. CASE Change
  BY <1>3 DEF Change
<1>4. CASE Finish
  <2>1. ASSUME ~again', ~noticed', ~spoiled', ~unheard'
        PROVE  (\A p \in Paths : Fresh(p)) /\ (configured # None => active = configured)
    BY <1>4, <2>1 DEF Finish, WorkOK, JobOK, SlotOK
  <2> QED
    BY <1>4, <2>1 DEF Finish, UpToDate, Fresh
<1>5. CASE FolderUnreadable \/ JobFails \/ (Proceed /\ ~Finish)
  <2>1. slot' = slot /\ job.at # "none"
    BY <1>5 DEF FolderUnreadable, JobFails, Proceed, Prepare, walk, Look, Listed, SkipFile,
       FileFails, ReadFile, Touch, Embedded, Delete, Insert, Forget, FilesDone, Activate, JobOnly,
       BesidesTheJob
  <2> QED
    BY <2>1 DEF SlotOK
<1>6. CASE UNCHANGED vars
  BY <1>6 DEF vars, UpToDate
<1> QED
  BY <1>1, <1>2, <1>3, <1>4, <1>5, <1>6 DEF Next

-----------------------------------------------------------------------------
(* The theorems.                                                             *)

\* The inductive invariant: what a job takes for gone was gone, a file's time tells
\* its versions apart, and a job after whose walk nothing changed leaves the index as
\* the folder is (ingest/mod.rs, ingest/walk.rs).
THEOREM IngesterInvariant == Spec => []IInv
<1>1. Init => IInv
  <2>1. ASSUME Init
        PROVE  StampsTell /\ HandOK /\ GoneOK /\ WorkOK /\ IdleIsUpToDate
    BY <2>1 DEF Init, StampsTell, HandOK, GoneOK, WorkOK, IdleIsUpToDate, InHand, NoJob, Stopped
  <2> QED
    BY <2>1, InitTyped DEF IInv
<1>2. IInv /\ [Next]_vars => IInv'
  BY NextTyped, NextTells, NextHeld, NextWorks, NextIdles DEF IInv
<1> QED
  BY <1>1, <1>2, PTL DEF Spec

\* A document leaves the index only because its file was gone at some time since
\* the scan began, or because its new words come next: unreadable folders and
\* files, edits under the walk, failures and restarts lose none, for any number
\* of files (ingest/mod.rs, removed and delete_document).
THEOREM AlwaysOnlyGoneIsForgotten == Spec => OnlyGoneIsForgotten
<1>1. ASSUME IInv, [Next]_vars
      PROVE  [\A p \in Paths :
                index[p] # None /\ index'[p] = None =>
                  \/ p \in gone
                  \/ job'.at = "insert" /\ file' = p /\ Row(p)' # index[p]]_vars
  <2> USE DEF IInv, TypeOK
  <2>1. CASE Forget
    BY <1>1, <2>1 DEF Forget, GoneOK, Jobs
  <2>2. CASE Delete
    <3>1. /\ job'.found = job.found /\ job'.text = job.text /\ job'.stamps = job.stamps
          /\ job'.at = "insert"
      BY <1>1, <2>2 DEF Delete, Goes, Jobs
    <3>2. file' = file /\ configured' = configured
      BY <2>2, <3>1, SameFile DEF Delete, JobOnly, BesidesTheJob
    <3>3. index[file] # None => Row(file)' # index[file]
      BY <1>1, <2>2, <3>1, <3>2 DEF Row, HandOK, SameWords, Delete
    <3>4. \A p \in Paths : p # file => index'[p] = index[p]
      BY <1>1, <2>2 DEF Delete
    <3> QED
      BY <3>1, <3>2, <3>3, <3>4
  <2>3. CASE Touch \/ Insert
    <3>1. file \in Paths
      BY <1>1, <2>3, FileIsFound DEF Touch, Insert, SlotOK, InHand
    <3>2. index'[file] \in Rows
      <4>1. CASE Insert
        BY <1>1, <3>1, <4>1 DEF Insert, Row, Rows, Jobs, SlotOK, InHand
      <4>2. CASE Touch
        <5>1. index[file] \in Rows
          BY <1>1, <3>1, <4>2 DEF HandOK, SameWords, Touch
        <5>2. index'[file] \in Rows
          <6>1. [index[file] EXCEPT !.stamp = job.stamps[file]] \in Rows
            BY <1>1, <3>1, <5>1 DEF Rows, Jobs
          <6> QED
            BY <1>1, <3>1, <4>2, <6>1, TouchedRow
        <5> QED
          BY <5>2
      <4> QED
        BY <2>3, <4>1, <4>2
    <3>3. None \notin Rows
      BY IngesterAssumption DEF Rows
    <3>4. \A p \in Paths : p # file => index'[p] = index[p]
      BY <1>1, <2>3, TouchedRow DEF Insert
    <3> QED
      BY <3>2, <3>3, <3>4
  <2>4. CASE UNCHANGED index
    BY <2>4
  <2>5. Forget \/ Delete \/ Touch \/ Insert \/ UNCHANGED index
    BY <1>1 DEF Next, Proceed, vars, Start, Stop, Request, Quiet, ScanAgain, Change, Prepare,
       FolderUnreadable, JobFails, walk, Look, Listed, SkipFile, FileFails, ReadFile, Embedded,
       FilesDone, Activate, Finish
  <2> QED
    BY <2>1, <2>2, <2>3, <2>4, <2>5
<1> QED
  BY <1>1, IngesterInvariant, PTL DEF Spec, OnlyGoneIsForgotten

\* A companion that has nothing left to do, and was told of every change since its
\* last walk, has indexed the folder as it is: however edits, scans, restarts and
\* failures overlapped, no such change is lost between the walk, the rows and the
\* handing over of the slot.  Of a change nobody told it of (no watcher, an event it
\* drops) nothing is said until something else has it scan (ingest/mod.rs).
THEOREM IdleMeansIndexed == Spec => []IdleIsUpToDate
<1>1. IInv => IdleIsUpToDate
  BY DEF IInv
<1> QED
  BY <1>1, IngesterInvariant, PTL
=============================================================================
