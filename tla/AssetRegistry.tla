--------------------------- MODULE AssetRegistry ---------------------------
(* Community apps (ota/AssetRegistry.cpp): the catalogue a badge fetches, the
   installs and removals its screens ask for, and what is on flash and in NVS
   afterwards.  Two tasks: the Arduino loop, which runs OTAService and the
   screens in turn, and the worker registry_refresh; a third, ota_check, only
   matters as long as it runs.  Both tasks refresh with the same code.       *)
EXTENDS Naturals, Sequences, SequencesExt

CONSTANTS
  Assets, Versions,
  Catalogues,     \* what may be published: sequences of <<asset, version>>
  Count,          \* Count[a]: the files of an app, 0 for a single file
  Sized,          \* the <<asset, file>> whose size tells its versions apart
  Given,          \* the assets a badge comes with on flash, unknown to NVS
  None,           \* no file, no version
  MaxKicks,       \* manual refreshes
  MaxEvents       \* publications, power cuts and failures of NVS

Width(a) == IF Count[a] = 0 THEN 1 ELSE Count[a]

ASSUME CatalogueAssumption ==
  /\ Count \in [Assets -> Nat]
  /\ Given \subseteq Assets /\ Sized \subseteq Assets \X (Nat \ {0})
  /\ Catalogues \subseteq Seq(Assets \X Versions)
  /\ \A c \in Catalogues : \A i, j \in DOMAIN c : c[i][1] = c[j][1] => i = j
  /\ None \notin Versions /\ Versions # {}
  /\ MaxKicks \in Nat /\ MaxEvents \in Nat

Loop == "loop"
Worker == "registry_refresh"

VARIABLES
  published,   \* what the server has
  wifi,
  slots,       \* sAssets: [id, ver, first, n] per slot, those past the count too
  count,       \* sAssetCount
  pool,        \* sFiles, those past the cursor too
  used,        \* sFileCount
  at,          \* where each task is
  body,        \* what each has still to take from the document it parsed
  refreshing, installing, checking,     \* sRefreshing, sInstalling, sCheckRunning
  phase,       \* sPostConnectPhase
  detail,      \* the detail screen is open
  cur,         \* the slot sActiveAsset, or the entry of installAll, points to;
               \* 0 when neither is in use
  batch,       \* the loop is in "Download all"
  queue,       \* those of its pendingIds that are still to come
  rest,        \* the snapshot of the files that are still to come
  disk,        \* disk[a][f]: what is at the path of file f, or None
  marker,      \* NVS: the version installed, or None
  kicks, events

table   == <<slots, count, pool, used>>
flags   == <<refreshing, installing, checking, phase>>
screens == <<detail, cur, batch, queue, rest>>
stored  == <<disk, marker>>
bounds  == <<kicks, events>>
vars    == <<published, wifi, table, at, body, flags, screens, stored, bounds>>

-----------------------------------------------------------------------------
Record(a, v, f) == [id |-> a, ver |-> v, file |-> f]

\* What an entry says its files are: its own fields, or its part of the pool.
FilesOf(e) == IF e.n = 0 THEN <<Record(e.id, e.ver, 1)>>
                         ELSE [f \in 1..e.n |-> pool[e.first + f - 1]]

\* A file is believed by its size, or, where that says nothing, by being there.
Matches(c, r) == c # None /\ (<<r.id, r.file>> \in Sized => c = r)

DestFullyPresent(e) == \A r \in ToSet(FilesOf(e)) : Matches(disk[e.id][r.file], r)

Installed(e) == marker[e.id] = e.ver /\ DestFullyPresent(e)

Entries == {slots[i] : i \in 1..count}

\* What "Download all" would install.
Pending == {e.id : e \in {x \in Entries : ~Installed(x)}}

Go(t, place) == at' = [at EXCEPT ![t] = place]

Booted == [t \in {Loop, Worker} |-> IF t = Loop THEN "service" ELSE "off"]

Init ==
  /\ published \in Catalogues
  /\ wifi = FALSE /\ slots = <<>> /\ count = 0 /\ pool = <<>> /\ used = 0
  /\ at = Booted /\ body = [t \in {Loop, Worker} |-> <<>>]
  /\ refreshing = FALSE /\ installing = FALSE /\ checking = FALSE /\ phase = 0
  /\ detail = FALSE /\ cur = 0 /\ batch = FALSE /\ queue = {} /\ rest = <<>>
  /\ disk = [a \in Assets |-> [f \in 1..Width(a) |->
               IF a \in Given THEN Record(a, CHOOSE v \in Versions : TRUE, f) ELSE None]]
  /\ marker = [a \in Assets |-> None]
  /\ kicks = 0 /\ events = 0

\* NVS opens, or counts as one of the events.
NvsOpens == UNCHANGED events
NvsFails == events < MaxEvents /\ events' = events + 1

\* persistInstalledVersion, which nobody looks at.
Persist(a, v) ==
  \/ NvsOpens /\ marker' = [marker EXCEPT ![a] = v]
  \/ NvsFails /\ UNCHANGED marker

-----------------------------------------------------------------------------
(* refresh(), in either task.                                                *)
Start(t) ==
  /\ at[t] = "start" /\ ~installing
  /\ Go(t, "get")
  /\ UNCHANGED <<published, wifi, table, body, flags, screens, stored, bounds>>

\* The request and the parse; a document that parsed empties the table.
Get(t) ==
  /\ at[t] = "get"
  /\ \/ /\ wifi
        /\ body' = [body EXCEPT ![t] = published]
        /\ count' = 0 /\ used' = 0
        /\ Go(t, "fill")
     \/ Go(t, "end") /\ UNCHANGED <<body, count, used>>
  /\ UNCHANGED <<published, wifi, slots, pool, flags, screens, stored, bounds>>

Put(s, i, x) == IF i <= Len(s) THEN [s EXCEPT ![i] = x] ELSE Append(s, x)

\* The pool with the files of an app written behind its cursor.
Pooled(a, v) ==
  LET end == used + Count[a]
  IN  [i \in 1..(IF Len(pool) < end THEN end ELSE Len(pool)) |->
         IF i \in used + 1..end THEN Record(a, v, i - used) ELSE pool[i]]

\* The next entry; one that is incomplete is dropped.
Fill(t) ==
  /\ at[t] = "fill" /\ body[t] # <<>>
  /\ LET a == Head(body[t])[1]
         v == Head(body[t])[2] IN
     \/ /\ slots' = Put(slots, count + 1,
                        [id |-> a, ver |-> v, first |-> used + 1, n |-> Count[a]])
        /\ count' = count + 1
        /\ pool' = Pooled(a, v) /\ used' = used + Count[a]
     \/ UNCHANGED table
  /\ body' = [body EXCEPT ![t] = Tail(@)]
  /\ UNCHANGED <<published, wifi, at, flags, screens, stored, bounds>>

\* adoptInstalledFromDisk.
Adopted ==
  [a \in Assets |->
     IF marker[a] = None /\ \E e \in Entries : e.id = a /\ DestFullyPresent(e)
       THEN (CHOOSE e \in Entries : e.id = a /\ DestFullyPresent(e)).ver
       ELSE marker[a]]

Adopt(t) ==
  /\ at[t] = "fill" /\ body[t] = <<>>
  /\ \/ NvsOpens /\ marker' = Adopted
     \/ NvsFails /\ \E a \in Assets : marker' = [Adopted EXCEPT ![a] = marker[a]]
  /\ Go(t, "end")
  /\ UNCHANGED <<published, wifi, table, body, flags, screens, disk, kicks>>

\* Mutant: a refresh over WiFi that went away leaves sRefreshing set.
EndForgets(t) ==
  /\ at[t] = "end"
  /\ IF t = Worker THEN refreshing' = (refreshing /\ ~wifi) /\ Go(t, "off") /\ UNCHANGED batch
       ELSE /\ batch' = (Pending # {}) /\ UNCHANGED refreshing
            /\ Go(t, IF Pending = {} THEN "service" ELSE "hold")
  /\ UNCHANGED <<published, wifi, table, body, installing, checking, phase, detail, cur,
                 queue, rest, stored, bounds>>

\* refreshTask ends; in the loop, "Download all" goes on if anything is pending.
End(t) ==
  /\ at[t] = "end"
  /\ IF t = Worker THEN refreshing' = FALSE /\ Go(t, "off") /\ UNCHANGED batch
       ELSE /\ batch' = (Pending # {}) /\ UNCHANGED refreshing
            /\ Go(t, IF Pending = {} THEN "service" ELSE "hold")
  /\ UNCHANGED <<published, wifi, table, body, installing, checking, phase, detail, cur,
                 queue, rest, stored, bounds>>

Refresh(t) == Start(t) \/ Get(t) \/ Fill(t) \/ Adopt(t) \/ End(t)

\* Mutant: the flag stays set when the task does not start.
BeginRefreshAsyncAnyway(next) ==
  \/ ~refreshing /\ refreshing' = TRUE
     /\ at' = [at EXCEPT ![Loop] = next, ![Worker] = "start"]
  \/ Go(Loop, next) /\ refreshing' = TRUE

(* beginRefreshAsync, called by the loop, which then goes on to "next"; the
   task may fail to start, and one that is running already is left alone.     *)
BeginRefreshAsync(next) ==
  \/ ~refreshing /\ refreshing' = TRUE
     /\ at' = [at EXCEPT ![Loop] = next, ![Worker] = "start"]
  \/ Go(Loop, next) /\ UNCHANGED refreshing

-----------------------------------------------------------------------------
(* OTAService::service: one check and one refresh per connection, the check
   not before a delay (kWifiOtaDeferMs).                                     *)
Service ==
  /\ at[Loop] = "service"
  /\ \/ ~wifi /\ phase' = 0 /\ Go(Loop, "gui") /\ UNCHANGED <<refreshing, checking>>
     \/ wifi /\ phase = 0 /\ phase' = 1 /\ Go(Loop, "gui")
        /\ UNCHANGED <<refreshing, checking>>
     \/ /\ wifi /\ phase = 1 /\ ~refreshing
        /\ checking' \in {checking, TRUE}
        /\ phase' = 2 /\ Go(Loop, "gui") /\ UNCHANGED refreshing
     \/ /\ wifi /\ phase = 2 /\ ~checking
        /\ BeginRefreshAsync("gui") /\ phase' = 3 /\ UNCHANGED checking
     \/ /\ wifi /\ phase = 3 /\ ~refreshing
        /\ phase' = 4 /\ Go(Loop, "gui") /\ UNCHANGED <<refreshing, checking>>
     \/ /\ wifi
        /\ phase \in {1, 4} \/ (phase = 2 /\ checking) \/ (phase = 3 /\ refreshing)
        /\ Go(Loop, "gui") /\ UNCHANGED <<phase, refreshing, checking>>
  /\ UNCHANGED <<published, wifi, table, body, installing, screens, stored, bounds>>

CheckEnds ==
  /\ checking /\ checking' = FALSE
  /\ UNCHANGED <<published, wifi, table, at, body, refreshing, installing, phase,
                 screens, stored, bounds>>

-----------------------------------------------------------------------------
(* The screens' turn.                                                        *)
Turn == at[Loop] = "gui"

NoInput ==
  /\ Turn /\ Go(Loop, "service")
  /\ UNCHANGED <<published, wifi, table, body, flags, screens, stored, bounds>>

\* Mutant: a check that runs does not matter.
DoRefreshAnyway ==
  /\ Turn /\ ~detail /\ kicks < MaxKicks
  /\ wifi /\ ~installing
  /\ BeginRefreshAsync("service")
  /\ kicks' = kicks + 1
  /\ UNCHANGED <<published, wifi, table, body, installing, checking, phase, screens,
                 stored, events>>

\* doRefresh: entering an empty list, or X.
DoRefresh ==
  /\ Turn /\ ~detail /\ kicks < MaxKicks
  /\ wifi /\ ~installing /\ ~checking
  /\ BeginRefreshAsync("service")
  /\ kicks' = kicks + 1
  /\ UNCHANGED <<published, wifi, table, body, installing, checking, phase, screens,
                 stored, events>>

Select(i) ==
  /\ Turn /\ ~detail /\ i \in 1..count
  /\ cur' = i /\ detail' = TRUE
  /\ Go(Loop, "service")
  /\ UNCHANGED <<published, wifi, table, body, flags, batch, queue, rest, stored, bounds>>

Back ==
  /\ Turn /\ detail /\ detail' = FALSE /\ cur' = 0
  /\ Go(Loop, "service")
  /\ UNCHANGED <<published, wifi, table, body, flags, batch, queue, rest, stored, bounds>>

\* Confirm on an installed asset: remove() of what the slot says now.
RunRemove ==
  /\ Turn /\ detail /\ Installed(slots[cur])
  /\ LET e == slots[cur] IN
     /\ disk' = [disk EXCEPT ![e.id] = [f \in DOMAIN @ |->
                   IF \E r \in ToSet(FilesOf(e)) : r.file = f THEN None ELSE @[f]]]
     /\ Persist(e.id, None)
  /\ detail' = FALSE /\ cur' = 0
  /\ Go(Loop, "service")
  /\ UNCHANGED <<published, wifi, table, body, flags, batch, queue, rest, kicks>>

\* Confirm on any other.
RunInstall ==
  /\ Turn /\ detail /\ ~Installed(slots[cur])
  /\ Go(Loop, "hold")
  /\ UNCHANGED <<published, wifi, table, body, flags, screens, stored, bounds>>

\* "Download all" waits for the worker, and refreshes in this task if it can.
DownloadAll ==
  /\ Turn /\ ~detail /\ count > 0
  /\ batch' = TRUE
  /\ Go(Loop, IF wifi THEN "wait" ELSE "hold")
  /\ UNCHANGED <<published, wifi, table, body, flags, detail, cur, queue, rest, stored,
                 bounds>>

Waited ==
  /\ at[Loop] = "wait" /\ ~refreshing
  /\ Go(Loop, "start")
  /\ UNCHANGED <<published, wifi, table, body, flags, screens, stored, bounds>>

-----------------------------------------------------------------------------
(* install() and installAll().                                               *)
\* Mutant: a refresh that runs is not waited for.
HoldAtOnce ==
  /\ at[Loop] = "hold"
  /\ installing' = TRUE
  /\ IF batch THEN queue' = Pending /\ Go(Loop, "next")
              ELSE UNCHANGED queue /\ Go(Loop, "install")
  /\ UNCHANGED <<published, wifi, table, body, refreshing, checking, phase, detail, cur,
                 batch, rest, stored, bounds>>

\* InstallHold; installAll then snapshots the ids.
Hold ==
  /\ at[Loop] = "hold" /\ ~refreshing
  /\ installing' = TRUE
  /\ IF batch THEN queue' = Pending /\ Go(Loop, "next")
              ELSE UNCHANGED queue /\ Go(Loop, "install")
  /\ UNCHANGED <<published, wifi, table, body, refreshing, checking, phase, detail, cur,
                 batch, rest, stored, bounds>>

\* The hold is given up, and the loop has its screens back.
Release ==
  /\ installing' = FALSE /\ batch' = FALSE /\ detail' = FALSE /\ cur' = 0
  /\ Go(Loop, "service")

HoldTimeout ==
  /\ at[Loop] = "hold" /\ refreshing
  /\ Release
  /\ UNCHANGED <<published, wifi, table, body, refreshing, checking, phase, queue, rest,
                 stored, bounds>>

NextPending ==
  /\ at[Loop] = "next"
  /\ \/ queue = {} /\ Release /\ UNCHANGED queue
     \/ \E i \in 1..count :
          /\ slots[i].id \in queue /\ \A j \in 1..i - 1 : slots[j].id \notin queue
          /\ cur' = i /\ queue' = queue \ {slots[i].id}
          /\ Go(Loop, "install")
          /\ UNCHANGED <<installing, batch, detail>>
  /\ UNCHANGED <<published, wifi, table, body, refreshing, checking, phase, rest, stored,
                 bounds>>

\* One install is over.
Done == IF batch THEN Go(Loop, "next") /\ UNCHANGED <<installing, batch, detail, cur>>
                 ELSE Release

\* The files are there already; or there is no room, no memory or no good URL;
\* or the files are snapshot and downloaded.
Install ==
  /\ at[Loop] = "install"
  /\ LET e == slots[cur] IN
     \/ /\ DestFullyPresent(e)
        /\ Persist(e.id, e.ver)
        /\ Done /\ UNCHANGED rest
     \/ ~DestFullyPresent(e) /\ Done /\ UNCHANGED <<marker, rest, events>>
     \/ /\ ~DestFullyPresent(e)
        /\ rest' = FilesOf(e) /\ Go(Loop, "file")
        /\ UNCHANGED <<marker, installing, batch, detail, cur, events>>
  /\ UNCHANGED <<published, wifi, table, body, refreshing, checking, phase, queue,
                 disk, kicks>>

\* Mutant: a file that fails does not end the install.
InstallFileOn ==
  /\ at[Loop] = "file" /\ rest # <<>>
  /\ LET r == Head(rest)
         a == slots[cur].id IN
     disk' \in {disk, [disk EXCEPT ![a] = [f \in DOMAIN @ |-> IF f = r.file THEN r ELSE @[f]]]}
  /\ rest' = Tail(rest)
  /\ UNCHANGED <<published, wifi, table, at, body, flags, detail, cur, batch, queue,
                 marker, bounds>>

\* installFileToPath; a rename that fails leaves nothing at the path.
InstallFile ==
  /\ at[Loop] = "file" /\ rest # <<>>
  /\ LET r == Head(rest)
         a == slots[cur].id IN
     \/ /\ disk' = [disk EXCEPT ![a] = [f \in DOMAIN @ |-> IF f = r.file THEN r ELSE @[f]]]
        /\ rest' = Tail(rest)
        /\ UNCHANGED <<at, installing, batch, detail, cur>>
     \/ /\ disk' = [disk EXCEPT ![a] = [f \in DOMAIN @ |-> IF f = r.file THEN None ELSE @[f]]]
        /\ rest' = <<>> /\ Done
     \/ rest' = <<>> /\ Done /\ UNCHANGED disk
  /\ UNCHANGED <<published, wifi, table, body, refreshing, checking, phase, queue,
                 marker, bounds>>

InstallDone ==
  /\ at[Loop] = "file" /\ rest = <<>>
  /\ Persist(slots[cur].id, slots[cur].ver)
  /\ Done
  /\ UNCHANGED <<published, wifi, table, body, refreshing, checking, phase, queue,
                 rest, disk, kicks>>

-----------------------------------------------------------------------------
(* What happens around the badge.                                            *)
Publish ==
  /\ events < MaxEvents /\ events' = events + 1
  /\ published' \in Catalogues
  /\ UNCHANGED <<wifi, table, at, body, flags, screens, stored, kicks>>

WifiChanges ==
  /\ wifi' = ~wifi
  /\ UNCHANGED <<published, table, at, body, flags, screens, stored, bounds>>

\* Between the unlink and the rename of a file there is nothing at its path.
PowerCut ==
  /\ events < MaxEvents /\ events' = events + 1
  /\ wifi' = FALSE /\ slots' = <<>> /\ count' = 0 /\ pool' = <<>> /\ used' = 0
  /\ at' = Booted /\ body' = [t \in {Loop, Worker} |-> <<>>]
  /\ refreshing' = FALSE /\ installing' = FALSE /\ checking' = FALSE /\ phase' = 0
  /\ detail' = FALSE /\ cur' = 0 /\ batch' = FALSE /\ queue' = {} /\ rest' = <<>>
  /\ \/ UNCHANGED disk
     \/ /\ at[Loop] = "file" /\ rest # <<>>
        /\ disk' = [disk EXCEPT ![slots[cur].id] =
                      [f \in DOMAIN @ |-> IF f = Head(rest).file THEN None ELSE @[f]]]
  /\ UNCHANGED <<published, marker, kicks>>

-----------------------------------------------------------------------------
Installing == Waited \/ Hold \/ NextPending \/ Install \/ InstallFile \/ InstallDone

Screen == NoInput \/ DoRefresh \/ (\E i \in 1..count : Select(i)) \/ Back \/ RunRemove
            \/ RunInstall \/ DownloadAll

LoopTask == Service \/ Screen \/ Installing \/ Refresh(Loop)

Environment ==
  \/ Publish \/ WifiChanges \/ PowerCut
  \/ HoldTimeout

Next == LoopTask \/ Refresh(Worker) \/ CheckEnds \/ Environment

Spec == Init /\ [][Next]_vars

\* The tasks go on, the delay after a connection ends, and no wait is ended by its
\* time limit.
FairSpec ==
  /\ Spec
  /\ WF_vars(LoopTask) /\ WF_vars(Refresh(Worker)) /\ WF_vars(CheckEnds)
  /\ SF_vars(Service /\ phase = 1 /\ phase' = 2)
-----------------------------------------------------------------------------
Tasks   == {Loop, Worker}
Places  == {"off", "service", "gui", "wait", "start", "get", "fill", "end", "hold", "next",
            "install", "file"}
Entry   == [id : Assets, ver : Versions, first : Nat, n : Nat]
File    == [id : Assets, ver : Versions, file : Nat]

FlagType ==
  /\ wifi \in BOOLEAN /\ refreshing \in BOOLEAN /\ installing \in BOOLEAN
  /\ checking \in BOOLEAN /\ detail \in BOOLEAN /\ batch \in BOOLEAN
  /\ phase \in 0..4 /\ at \in [Tasks -> Places]

TableType ==
  /\ slots \in Seq(Entry) /\ count \in 0..Len(slots)
  /\ pool \in Seq(File) /\ used \in 0..Len(pool)
  /\ published \in Seq(Assets \X Versions)
  /\ body \in [Tasks -> Seq(Assets \X Versions)]

InstallType ==
  /\ cur \in 0..Len(slots) /\ queue \subseteq Assets /\ rest \in Seq(File)
  /\ marker \in [Assets -> Versions \union {None}]
  /\ DOMAIN disk = Assets
  /\ \A a \in Assets : disk[a] \in [1..Width(a) -> File \union {None}]

TypeOK ==
  /\ FlagType /\ TableType /\ InstallType
  /\ kicks \in 0..MaxKicks /\ events \in 0..MaxEvents

(* AssetRegistry.cpp:295-315, 1210-1213: while an install holds the registry,
   nothing of what it reads is rewritten.                                    *)
ReadsStandStill == [][installing /\ installing' => UNCHANGED table]_vars

(* OTAService.cpp:83-105, AssetLibraryScreen.cpp:66-98: the worker that checks
   for firmware and the one that fetches the catalogue never run together.   *)
NeverBoth == ~(refreshing /\ checking)

(* AssetRegistry.cpp:976-1222, 655-676: a version recorded as installed, by a
   download, by "Download all" or by adoption, is not always what is on flash, as
   OTA-MAINTAINER.md:275-276 has it: after an update that failed between two files
   the next install finds every file there with the size it wants, and fetches
   none.  The size is the only excuse, whatever was published, refreshed, failed
   or cut off before: a file of another version is there, cannot be told by its
   size, and was adopted; when the files were fetched, all are of that version.
   Left out is a single install of an entry that has dropped out of the table.  *)
OldOnlyBySize ==
  [][\A a \in Assets :
       /\ marker'[a] # marker[a] /\ marker'[a] # None
       /\ at[Loop] \notin {"install", "file"} \/ cur <= count
       => \A f \in 1..Width(a) :
            \/ disk'[a][f] = Record(a, marker'[a], f)
            \/ /\ at[Loop] # "file" /\ <<a, f>> \notin Sized
               /\ disk'[a][f] # None]_vars

(* OTAService.cpp:83-124: a connection that lasts gets through its sequence,
   whatever else the screens start meanwhile.                                *)
SettlesAfterConnect == phase \in 1..3 ~> phase \in {0, 4}

(* AssetRegistry.cpp:298-327, AssetLibraryScreen.cpp:323-343: the waits for each
   other's flags end without their time limits; the screens come back.       *)
LoopComesBack == at[Loop] \notin {"service", "gui"} ~> at[Loop] = "service"
=============================================================================
