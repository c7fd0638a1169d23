--------------------------- MODULE Journal_proofs ---------------------------
(* Proofs about Journal, for any number of badges, rows and boops. *)
EXTENDS Journal, FiniteSetTheorems, TLAPS

\* What a row becomes.
LEMMA NamedRow ==
  ASSUME NEW row \in Row, NEW name \in Names \cup {Blank}
  PROVE  /\ Named(row, name) \in Row /\ Named(row, name).boops = row.boops
         /\ row.name # Blank => Named(row, name).name # Blank
  BY JournalAssumption DEF Named, Row

LEMMA BoopRow ==
  ASSUME doc \in Journals, NEW p \in Uids, NEW name \in Names \cup {Blank},
         doc[p].boops < MaxBoops
  PROVE  /\ WithBoop(p, name) \in Journals
         /\ WithBoop(p, name)[p].boops = doc[p].boops + 1
         /\ doc[p].name # Blank => WithBoop(p, name)[p].name # Blank
         /\ \A q \in Uids \ {p} : WithBoop(p, name)[q] = doc[q]
<1>1. doc[p] \in Row /\ DOMAIN doc = Uids
  BY DEF Journals
<1> DEFINE named == Named(doc[p], name)
<1>2. /\ named \in Row /\ named.boops = doc[p].boops
      /\ doc[p].name # Blank => named.name # Blank
  BY <1>1, NamedRow
<1> HIDE DEF named
<1> DEFINE new == [named EXCEPT !.boops = named.boops + 1]
<1>3. /\ new \in Row /\ new.boops = doc[p].boops + 1 /\ new.name = named.name
  BY <1>1, <1>2, JournalAssumption DEF Row
<1>4. WithBoop(p, name) = [doc EXCEPT ![p] = new]
  BY <1>1 DEF WithBoop, named
<1> HIDE DEF new
<1>5. [doc EXCEPT ![p] = new] \in Journals
  BY <1>3 DEF Journals
<1> QED
  BY <1>1, <1>2, <1>3, <1>4, <1>5

LEMMA MergeRow ==
  ASSUME doc \in Journals, NEW p \in Uids, NEW name \in Names \cup {Blank},
         NEW j, j = [doc EXCEPT ![p] = Named(@, name)]
  PROVE  /\ j \in Journals /\ j[p].boops = doc[p].boops
         /\ doc[p].name # Blank => j[p].name # Blank
         /\ \A q \in Uids \ {p} : j[q] = doc[q]
<1>1. doc[p] \in Row /\ DOMAIN doc = Uids
  BY DEF Journals
<1> DEFINE named == Named(doc[p], name)
<1>2. /\ named \in Row /\ named.boops = doc[p].boops
      /\ doc[p].name # Blank => named.name # Blank
  BY <1>1, NamedRow
<1>3. j = [doc EXCEPT ![p] = named]
  BY <1>1
<1> HIDE DEF named
<1>4. j \in Journals
  BY <1>2, <1>3 DEF Journals
<1> QED
  BY <1>1, <1>2, <1>3, <1>4

-----------------------------------------------------------------------------
(* What the actions come down to: the journal changes by a boop or a merge and
   a save begins, or the file takes a step, or the badge goes down or comes up. *)
Booped(p, name) ==
  /\ AtRest /\ ~Refused(p) /\ doc[p].boops < MaxBoops
  /\ doc' = WithBoop(p, name)

Merged(p, name) ==
  /\ up /\ ~Saving /\ doc[p].boops > 0
  /\ doc' = [doc EXCEPT ![p] = Named(@, name)]

\* What recordBoopEx still has to merge is of a peer.
MergingType == merging \in {NotMerging} \cup [peer : Uids, name : Names \cup {Blank}]

LEMMA Cases ==
  ASSUME MergingType, Next
  PROVE  \/ /\ \E p \in Uids, name \in Names \cup {Blank} : Booped(p, name) \/ Merged(p, name)
            /\ Save(doc') /\ UNCHANGED up /\ MergingType'
         \/ SaveStep \/ PowerCut \/ Boot
<1>1. ASSUME NEW p \in Uids, Boop(p)
      PROVE  Booped(p, Blank) /\ Save(doc') /\ UNCHANGED up /\ MergingType'
  BY <1>1 DEF Boop, RecordBoop, Booped, MergingType
<1>2. ASSUME NEW p \in Uids, NEW name \in Names \cup {Blank}, BoopEx(p, name)
      PROVE  (Booped(p, name) \/ Merged(p, name)) /\ Save(doc') /\ UNCHANGED up /\ MergingType'
  <2>1. CASE MergeCard(p, name)
    BY <1>2, <2>1 DEF BoopEx, MergeCard, Merged, AtRest, MergingType
  <2>2. CASE RecordBoop(p, name, [peer |-> p, name |-> name])
    <3>1. MergingType'
      BY <2>2 DEF RecordBoop, MergingType
    <3> QED BY <1>2, <2>2, <3>1 DEF BoopEx, RecordBoop, Booped
  <2> QED BY <1>2, <2>1, <2>2 DEF BoopEx
<1>3. ASSUME FinishBoopEx
      PROVE  \E p \in Uids, name \in Names \cup {Blank} :
               Merged(p, name) /\ Save(doc') /\ UNCHANGED up /\ MergingType'
  <2>1. merging.peer \in Uids /\ merging.name \in Names \cup {Blank}
    BY <1>3 DEF FinishBoopEx, MergingType
  <2>2. Merged(merging.peer, merging.name) /\ Save(doc') /\ UNCHANGED up /\ MergingType'
    BY <1>3 DEF FinishBoopEx, MergeCard, Merged, MergingType
  <2> QED BY <2>1, <2>2
<1> QED
  BY <1>1, <1>2, <1>3, Zenon DEF Next

-----------------------------------------------------------------------------
(* Types.                                                                    *)
TypeInv == doc \in Journals /\ up \in BOOLEAN /\ MergingType /\ Disk!TypeOK

LEMMA NewDoc ==
  ASSUME doc \in Journals, NEW p \in Uids, NEW name \in Names \cup {Blank},
         Booped(p, name) \/ Merged(p, name)
  PROVE  doc' \in Journals /\ up /\ ~Saving
<1>1. CASE Booped(p, name)
  BY <1>1, BoopRow DEF Booped, AtRest
<1>2. CASE Merged(p, name)
  BY <1>2, MergeRow DEF Merged
<1> QED BY <1>1, <1>2

LEMMA EmptyType == Empty \in Journals
  BY JournalAssumption DEF Empty, Journals, NoRow, Row

LEMMA SaveType ==
  ASSUME Disk!TypeOK, NEW j \in Journals, Save(j) PROVE Disk!TypeOK'
<1> USE DEF Disk!TypeOK, Disk!File
<1>1. CASE SaveSkipped
  BY <1>1 DEF SaveSkipped
<1>2. CASE Disk!Call(Task, j)
  BY <1>2, JournalAssumption DEF Disk!Call, Disk!Goto
<1> QED BY <1>1, <1>2 DEF Save

LEMMA StepType ==
  ASSUME Disk!TypeOK, Disk!Step(Task) PROVE Disk!TypeOK'
<1> USE JournalAssumption DEF Disk!TypeOK, Disk!File, Disk!Goto, Disk!Return, Disk!Continue
<1>1. CASE Disk!CreateTmp(Task)
  BY <1>1 DEF Disk!CreateTmp
<1>2. CASE Disk!WriteTmp(Task)
  BY <1>2 DEF Disk!WriteTmp
<1>3. CASE Disk!SyncTmp(Task)
  BY <1>3 DEF Disk!SyncTmp
<1>4. CASE Disk!UnlinkLive(Task)
  BY <1>4 DEF Disk!UnlinkLive
<1>5. CASE Disk!Rename(Task)
  BY <1>5 DEF Disk!Rename
<1> QED BY <1>1, <1>2, <1>3, <1>4, <1>5 DEF Disk!Step

LEMMA TypeInit == Init => TypeInv
  BY EmptyType, JournalAssumption
     DEF Init, TypeInv, MergingType, Disk!TypeOK, Disk!File

LEMMA TypeStep ==
  ASSUME TypeInv, [Next]_vars PROVE TypeInv'
<1>0. doc \in Journals /\ up \in BOOLEAN /\ MergingType /\ Disk!TypeOK
  BY DEF TypeInv
<1>1. ASSUME NEW p \in Uids, NEW name \in Names \cup {Blank},
             Booped(p, name) \/ Merged(p, name), Save(doc'), UNCHANGED up, MergingType'
      PROVE  TypeInv'
  <2>1. doc' \in Journals
    BY <1>0, <1>1, NewDoc
  <2> QED BY <1>0, <1>1, <2>1, SaveType DEF TypeInv
<1>2. CASE SaveStep
  <2>1. Disk!TypeOK'
    BY <1>0, <1>2, StepType DEF SaveStep
  <2> QED BY <1>0, <1>2, <2>1 DEF SaveStep, TypeInv, MergingType
<1>3. CASE PowerCut
  <2>1. Disk!TypeOK'
    BY <1>0, <1>3, JournalAssumption DEF PowerCut, Disk!PowerCut, Disk!TypeOK
  <2> QED BY <1>0, <1>3, <2>1, EmptyType DEF PowerCut, TypeInv, MergingType
<1>4. CASE Boot
  <2>1. doc' \in Journals /\ live' \in Journals \cup {Absent, Torn, Lost}
    BY <1>0, <1>4, EmptyType DEF Boot, Disk!TypeOK, Disk!File
  <2>2. Disk!TypeOK'
    BY <1>0, <1>4, <2>1 DEF Boot, Disk!TypeOK, Disk!File
  <2> QED BY <1>0, <1>4, <2>1, <2>2 DEF Boot, TypeInv, MergingType
<1>5. CASE UNCHANGED vars
  BY <1>0, <1>5 DEF vars, file, TypeInv, MergingType, Disk!TypeOK
<1> QED
  BY <1>0, <1>1, <1>2, <1>3, <1>4, <1>5, Cases

LEMMA TypeHolds == Spec => []TypeInv
  BY TypeInit, TypeStep, PTL DEF Spec

\* The journal, its file and whatever waits to be merged keep their types.
THEOREM TypeCorrect == Spec => []TypeOK
<1>1. TypeInv => TypeOK
  BY DEF TypeInv, TypeOK, MergingType, NotMerging
<1> QED
  BY <1>1, TypeHolds, PTL

-----------------------------------------------------------------------------
(* A save.  While it goes on the file system has the rows in RAM; past the sync
   they are in the .tmp; and whoever was told "true" finds them in the file: both
   but for a sync that failed in this save.                                  *)
SaveInv ==
  /\ Saving => up /\ wanted[Task] = doc
  /\ step[Task] \in {"unlink", "rename"} =>
       tmp = wanted[Task] \/ (syncFailed[Task] /\ tmp = Lost)
  /\ answer[Task] = "true" =>
       up /\ ~Saving /\ (live = doc \/ (syncFailed[Task] /\ live = Lost))

LEMMA SaveBegins ==
  ASSUME TypeInv, SaveInv, ~Saving, up, Save(doc'), UNCHANGED up PROVE SaveInv'
<1>1. /\ answer \in [{Task} -> {"none", "true", "false"}]
      /\ wanted \in [{Task} -> Journals]
      /\ step \in [{Task} -> {"out", "create", "write", "sync", "unlink", "rename"}]
  BY DEF TypeInv, Disk!TypeOK
<1>2. CASE SaveSkipped
  BY <1>1, <1>2 DEF SaveSkipped, SaveInv, Saving
<1>3. CASE Disk!Call(Task, doc')
  BY <1>1, <1>3 DEF Disk!Call, Disk!Goto, SaveInv, Saving
<1> QED BY <1>2, <1>3 DEF Save

LEMMA SaveGoesOn ==
  ASSUME TypeInv, SaveInv, SaveStep PROVE SaveInv'
<1>1. /\ answer \in [{Task} -> {"none", "true", "false"}]
      /\ syncFailed \in [{Task} -> BOOLEAN]
      /\ step \in [{Task} -> {"out", "create", "write", "sync", "unlink", "rename"}]
  BY DEF TypeInv, Disk!TypeOK
<1>2. up /\ UNCHANGED <<doc, up>>
  BY DEF SaveStep
<1> USE DEF SaveInv, Saving, Disk!Goto, Disk!Return, Disk!Continue
<1>3. CASE Disk!CreateTmp(Task)
  BY <1>1, <1>2, <1>3 DEF Disk!CreateTmp
<1>4. CASE Disk!WriteTmp(Task)
  BY <1>1, <1>2, <1>4 DEF Disk!WriteTmp
<1>5. CASE Disk!SyncTmp(Task)
  BY <1>1, <1>2, <1>5 DEF Disk!SyncTmp
<1>6. CASE Disk!UnlinkLive(Task)
  BY <1>1, <1>2, <1>6 DEF Disk!UnlinkLive
<1>7. CASE Disk!Rename(Task)
  BY <1>1, <1>2, <1>7 DEF Disk!Rename
<1> QED BY <1>3, <1>4, <1>5, <1>6, <1>7 DEF SaveStep, Disk!Step

LEMMA SaveInit == Init => SaveInv
  BY DEF Init, SaveInv, Saving

LEMMA SaveKept ==
  ASSUME TypeInv, SaveInv, [Next]_vars PROVE SaveInv'
<1>0. doc \in Journals /\ MergingType
  BY DEF TypeInv
<1>1. ASSUME NEW p \in Uids, NEW name \in Names \cup {Blank},
             Booped(p, name) \/ Merged(p, name), Save(doc'), UNCHANGED up
      PROVE  SaveInv'
  BY <1>0, <1>1, NewDoc, SaveBegins
<1>2. CASE SaveStep
  BY <1>2, SaveGoesOn
<1>3. CASE PowerCut
  BY <1>3 DEF PowerCut, Disk!PowerCut, SaveInv, Saving
<1>4. CASE Boot
  BY <1>4 DEF Boot, SaveInv, Saving
<1>5. CASE UNCHANGED vars
  BY <1>5 DEF vars, file, SaveInv, Saving
<1> QED
  BY <1>0, <1>1, <1>2, <1>3, <1>4, <1>5, Cases

\* A save that succeeds makes up for all that failed before it, unless f_sync or
\* f_close failed in it.
THEOREM SavesMakeUp == Spec => []SavedIsAll
<1>1. SaveInv => SavedIsAll
  BY DEF SaveInv, SavedIsAll
<1>2. TypeInv /\ SaveInv /\ [Next]_vars => SaveInv'
  BY SaveKept
<1> QED
  BY <1>1, <1>2, SaveInit, TypeHolds, PTL DEF Spec

-----------------------------------------------------------------------------
(* The limit, in RAM, in what a save writes and in both files.               *)
Fits(j) == Cardinality(Rows(j)) <= MaxRecords

LimitInv ==
  /\ Fits(doc) /\ Fits(wanted[Task])
  /\ live \in Journals => Fits(live)
  /\ tmp \in Journals => Fits(tmp)

LEMMA RowsFinite ==
  ASSUME NEW j PROVE IsFiniteSet(Rows(j)) /\ Cardinality(Rows(j)) \in Nat
<1>1. Rows(j) \subseteq Uids
  BY DEF Rows
<1> QED BY <1>1, JournalAssumption, FS_Subset, FS_CardinalityType

LEMMA EmptyFits == Fits(Empty)
<1>1. Rows(Empty) = {}
  BY DEF Rows, Empty, NoRow
<1> QED BY <1>1, FS_EmptySet, JournalAssumption DEF Fits

\* A boop adds a row where there is room, and a merge adds none.
LEMMA NewDocFits ==
  ASSUME doc \in Journals, Fits(doc), NEW p \in Uids, NEW name \in Names \cup {Blank},
         Booped(p, name) \/ Merged(p, name)
  PROVE  Fits(doc')
<1>0. \A q \in Uids : doc[q].boops \in Nat
  BY JournalAssumption DEF Journals, Row
<1>1. CASE Booped(p, name)
  <2>1. /\ doc'[p].boops = doc[p].boops + 1
        /\ \A q \in Uids \ {p} : doc'[q] = doc[q]
    BY <1>1, BoopRow DEF Booped
  <2>2. Rows(doc') = Rows(doc) \cup {p}
    BY <1>0, <2>1 DEF Rows
  <2>3. CASE doc[p].boops = 0
    <3>1. p \notin Rows(doc) /\ ~(Cardinality(Rows(doc)) >= MaxRecords)
      BY <1>1, <2>3 DEF Rows, Booped, Refused
    <3>2. Cardinality(Rows(doc')) = Cardinality(Rows(doc)) + 1
      BY <2>2, <3>1, RowsFinite, FS_AddElement
    <3> QED BY <3>1, <3>2, RowsFinite, JournalAssumption DEF Fits
  <2>4. CASE doc[p].boops # 0
    <3>1. Rows(doc') = Rows(doc)
      BY <1>0, <2>2, <2>4 DEF Rows
    <3> QED BY <3>1 DEF Fits
  <2> QED BY <2>3, <2>4
<1>2. CASE Merged(p, name)
  <2>1. doc'[p].boops = doc[p].boops /\ \A q \in Uids \ {p} : doc'[q] = doc[q]
    BY <1>2, MergeRow DEF Merged
  <2>2. Rows(doc') = Rows(doc)
    BY <2>1 DEF Rows
  <2> QED BY <2>2 DEF Fits
<1> QED BY <1>1, <1>2

LEMMA SaveFits ==
  ASSUME TypeInv, LimitInv, NEW j, Fits(j), Save(j), Fits(doc') PROVE LimitInv'
<1>1. wanted \in [{Task} -> Journals]
  BY DEF TypeInv, Disk!TypeOK
<1>2. CASE SaveSkipped
  BY <1>2 DEF SaveSkipped, LimitInv
<1>3. CASE Disk!Call(Task, j)
  BY <1>1, <1>3 DEF Disk!Call, LimitInv
<1> QED BY <1>2, <1>3 DEF Save

LEMMA StepFits ==
  ASSUME LimitInv, SaveStep PROVE LimitInv'
<1>1. UNCHANGED doc
  BY DEF SaveStep
<1> USE <1>1, JournalAssumption DEF LimitInv
<1>2. CASE Disk!CreateTmp(Task)
  BY <1>2 DEF Disk!CreateTmp
<1>3. CASE Disk!WriteTmp(Task)
  BY <1>3 DEF Disk!WriteTmp
<1>4. CASE Disk!SyncTmp(Task)
  BY <1>4 DEF Disk!SyncTmp
<1>5. CASE Disk!UnlinkLive(Task)
  BY <1>5 DEF Disk!UnlinkLive
<1>6. CASE Disk!Rename(Task)
  BY <1>6 DEF Disk!Rename
<1> QED BY <1>2, <1>3, <1>4, <1>5, <1>6 DEF SaveStep, Disk!Step

LEMMA LimitStep ==
  ASSUME TypeInv, LimitInv, [Next]_vars PROVE LimitInv'
<1>0. doc \in Journals /\ MergingType /\ Fits(doc)
  BY DEF TypeInv, LimitInv
<1>1. ASSUME NEW p \in Uids, NEW name \in Names \cup {Blank},
             Booped(p, name) \/ Merged(p, name), Save(doc')
      PROVE  LimitInv'
  <2>1. Fits(doc')
    BY <1>0, <1>1, NewDocFits
  <2> QED BY <1>1, <2>1, SaveFits
<1>2. CASE SaveStep
  BY <1>2, StepFits
<1>3. CASE PowerCut
  BY <1>3, EmptyFits DEF PowerCut, Disk!PowerCut, LimitInv
<1>4. CASE Boot
  BY <1>4, EmptyFits, JournalAssumption DEF Boot, LimitInv
<1>5. CASE UNCHANGED vars
  BY <1>5 DEF vars, file, LimitInv
<1> QED
  BY <1>0, <1>1, <1>2, <1>3, <1>4, <1>5, Cases

\* The journal keeps to its limit in RAM and on disk, however its rows come about.
THEOREM LimitHolds == Spec => []WithinLimit
<1>1. Init => LimitInv
  BY EmptyFits, JournalAssumption DEF Init, LimitInv
<1>2. LimitInv => WithinLimit
  BY DEF LimitInv, WithinLimit, Fits
<1>3. TypeInv /\ LimitInv /\ [Next]_vars => LimitInv'
  BY LimitStep
<1> QED
  BY <1>1, <1>2, <1>3, TypeHolds, PTL DEF Spec

-----------------------------------------------------------------------------
\* While the badge is up neither a boop nor a name it has of a peer goes away.
THEOREM NothingIsForgotten == Spec => NothingForgotten
<1> DEFINE Kept(p) == doc'[p].boops >= doc[p].boops
                      /\ (doc[p].name # Blank => doc'[p].name # Blank)
<1>1. ASSUME TypeInv, [Next]_vars, up, up', NEW p \in Uids
      PROVE  Kept(p)
  <2>0. doc \in Journals /\ MergingType /\ \A r \in Uids : doc[r].boops \in Nat
    BY <1>1, JournalAssumption DEF TypeInv, Journals, Row
  <2>1. ASSUME NEW q \in Uids, NEW name \in Names \cup {Blank}, Booped(q, name)
        PROVE  Kept(p)
    <3>1. /\ doc'[q].boops = doc[q].boops + 1
          /\ doc[q].name # Blank => doc'[q].name # Blank
          /\ \A r \in Uids \ {q} : doc'[r] = doc[r]
      BY <2>0, <2>1, BoopRow DEF Booped
    <3> QED BY <2>0, <3>1
  <2>2. ASSUME NEW q \in Uids, NEW name \in Names \cup {Blank}, Merged(q, name)
        PROVE  Kept(p)
    <3>1. /\ doc'[q].boops = doc[q].boops
          /\ doc[q].name # Blank => doc'[q].name # Blank
          /\ \A r \in Uids \ {q} : doc'[r] = doc[r]
      BY <2>0, <2>2, MergeRow DEF Merged
    <3> QED BY <2>0, <3>1
  <2>3. CASE SaveStep \/ UNCHANGED vars
    BY <2>0, <2>3 DEF SaveStep, vars
  <2>4. ~PowerCut /\ ~Boot
    BY <1>1 DEF PowerCut, Boot
  <2> HIDE DEF Kept
  <2> QED
    BY <1>1, <2>0, <2>1, <2>2, <2>3, <2>4, Cases
<1>2. TypeInv /\ [Next]_vars =>
        [up /\ up' => \A p \in Uids :
           /\ doc'[p].boops >= doc[p].boops
           /\ doc[p].name # Blank => doc'[p].name # Blank]_vars
  BY <1>1
<1> QED
  BY <1>2, TypeHolds, PTL DEF Spec, NothingForgotten
=============================================================================
