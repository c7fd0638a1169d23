------------------------------- MODULE Journal -------------------------------
(***************************************************************************)
(* The boop journal (firmware/src/boops/BoopsJournal.cpp): the rows in RAM, *)
(* their file /boops.json written through AtomicFile, saves that fail, and  *)
(* power cuts with the load that begin() does at the next boot.             *)
(*                                                                         *)
(* Only irTask writes the journal, under BoopsLock, which it holds for the  *)
(* whole of a call; a power cut can still fall between any two operations   *)
(* of the file system.                                                      *)
(***************************************************************************)
EXTENDS Naturals, FiniteSets

CONSTANTS
  Uids, Self,    \* the badges whose UIDs recordBoop may be given, and our own
  Names,         \* the values a contact's fields take
  MaxRecords,    \* kMaxBoopRecords
  MaxBoops       \* bound: how often one peer is booped

CONSTANTS Blank, Absent, Torn, Lost, Free, NoPeer

Row      == [boops : 0 .. MaxBoops, name : Names \cup {Blank}]
Journals == [Uids -> Row]
NoRow    == [boops |-> 0, name |-> Blank]
Empty    == [p \in Uids |-> NoRow]
Task     == "irTask"

ASSUME JournalAssumption ==
  /\ MaxRecords \in Nat /\ MaxBoops \in Nat /\ IsFiniteSet(Uids)
  /\ Blank \notin Names /\ NoPeer \notin Uids
  /\ {Absent, Torn, Lost} \cap Journals = {}
  /\ Absent # Torn /\ Absent # Lost /\ Torn # Lost /\ Free # Task

VARIABLES
  doc,         \* s_doc, a row with no boops being none
  up,          \* begin() has run since the power came
  merging,     \* the peer and name that recordBoopEx still has to merge
  live, tmp, holder, step, wanted, answer, before, syncFailed   \* of AtomicFile

file == <<live, tmp, holder, step, wanted, answer, before, syncFailed>>
vars == <<doc, up, merging, file>>

Disk == INSTANCE AtomicFile WITH Tasks <- {Task}, Contents <- Journals

NotMerging == [peer |-> NoPeer, name |-> Blank]

TypeOK ==
  /\ doc \in Journals /\ up \in BOOLEAN
  /\ merging \in [peer : Uids \cup {NoPeer}, name : Names \cup {Blank}]
  /\ Disk!TypeOK

Init ==
  /\ doc = Empty /\ up = FALSE /\ merging = NotMerging
  /\ live = Absent /\ tmp = Absent /\ holder = Free
  /\ step = [t \in {Task} |-> "out"] /\ wanted = [t \in {Task} |-> Empty]
  /\ answer = [t \in {Task} |-> "none"] /\ before = [t \in {Task} |-> Absent]
  /\ syncFailed = [t \in {Task} |-> FALSE]

-----------------------------------------------------------------------------
Rows(j)      == {p \in Uids : j[p].boops > 0}
Saving       == step[Task] # "out"
AtRest       == up /\ ~Saving /\ merging = NotMerging

\* saveToDisk: the document goes to the file, unless it overflowed, is too long or
\* there is no memory to serialise it in.
SaveSkipped == /\ answer' = [answer EXCEPT ![Task] = "false"]
               /\ UNCHANGED <<live, tmp, holder, step, wanted, before, syncFailed>>

\* Mutant: the file gets the rows from before the change.
SaveOld(j) == SaveSkipped \/ Disk!Call(Task, doc)

Save(j) == SaveSkipped \/ Disk!Call(Task, j)

\* Mutant: a blank name overwrites too.
NamedBlank(row, name) == [row EXCEPT !.name = name]

\* A name that is not blank overwrites, a blank one does not.
Named(row, name) == [row EXCEPT !.name = IF name # Blank THEN name ELSE @]

\* Mutant: a full journal is not noticed.
RefusedSelf(p) == p = Self

\* recordBoop's early returns: a boop with ourselves, or a full journal.
Refused(p) == p = Self \/ (doc[p].boops = 0 /\ Cardinality(Rows(doc)) >= MaxRecords)

WithBoop(p, name) ==
  LET row == Named(doc[p], name)
  IN  [doc EXCEPT ![p] = [row EXCEPT !.boops = row.boops + 1]]

\* What recordBoop leaves for its caller to do is `rest`.
RecordBoop(p, name, rest) ==
  /\ ~Refused(p) /\ doc[p].boops < MaxBoops
  /\ doc' = WithBoop(p, name)
  /\ Save(doc')
  /\ merging' = rest
  /\ UNCHANGED up

\* The boop is counted when the beacons meet their threshold.
Boop(p) == AtRest /\ RecordBoop(p, Blank, NotMerging)

\* recordBoopEx on a row that exists.
MergeCard(p, name) ==
  /\ doc[p].boops > 0
  /\ doc' = [doc EXCEPT ![p] = Named(@, name)]
  /\ Save(doc')
  /\ merging' = NotMerging
  /\ UNCHANGED up

\* recordBoopEx: a row that does not exist is made, and saved, first.
BoopEx(p, name) ==
  /\ AtRest
  /\ \/ MergeCard(p, name)
     \/ /\ doc[p].boops = 0
        /\ RecordBoop(p, name, [peer |-> p, name |-> name])

FinishBoopEx ==
  /\ up /\ ~Saving /\ merging # NotMerging
  /\ MergeCard(merging.peer, merging.name)

SaveStep == up /\ Disk!Step(Task) /\ UNCHANGED <<doc, up, merging>>

-----------------------------------------------------------------------------
PowerCut ==
  /\ Disk!PowerCut
  /\ doc' = Empty /\ up' = FALSE /\ merging' = NotMerging

\* begin(): the .tmp is removed, if that works; on a full partition the journal goes
\* too; what is left is loaded, and removed if it does not parse.  An empty or
\* unreadable file is no journal, but stays.
Boot ==
  /\ ~up /\ up' = TRUE
  /\ tmp' \in {tmp, Absent}
  /\ \E found \in {live, Absent} :
       \/ found \in Journals /\ doc' = found /\ live' = found
       \/ found \in {Absent, Torn, Lost} /\ doc' = Empty /\ live' \in {found, Absent}
       \/ found \in Journals /\ doc' = Empty /\ live' = found
  /\ UNCHANGED <<merging, holder, step, wanted, answer, before, syncFailed>>

Next ==
  \/ \E p \in Uids : Boop(p) \/ \E name \in Names \cup {Blank} : BoopEx(p, name)
  \/ FinishBoopEx \/ SaveStep \/ PowerCut \/ Boot

Spec == Init /\ [][Next]_vars

-----------------------------------------------------------------------------
(* Properties. *)

\* A save that succeeds makes up for all that failed before it: the file then holds
\* every row in RAM (saveToDisk, BoopsJournal.cpp:149-180), unless f_sync or f_close
\* failed in it, which writeFileAtomic does not tell.
SavedIsAll ==
  AtRest /\ answer[Task] = "true" => live = doc \/ (syncFailed[Task] /\ live = Lost)

\* The journal keeps to its limit, in RAM and on disk, however its rows come about.
WithinLimit ==
  /\ Cardinality(Rows(doc)) <= MaxRecords
  /\ live \in Journals => Cardinality(Rows(live)) <= MaxRecords

\* While the badge is up neither a boop nor a name it has of a peer goes away.
NothingForgotten ==
  [][up /\ up' => \A p \in Uids :
       /\ doc'[p].boops >= doc[p].boops
       /\ doc[p].name # Blank => doc'[p].name # Blank]_vars

=============================================================================
