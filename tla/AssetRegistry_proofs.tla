------------------------ MODULE AssetRegistry_proofs ------------------------
(* Proofs about AssetRegistry, for any assets, catalogues and files, and any
   number of publications, power cuts and refreshes: who runs when, that the
   table describes whole assets, and that what is recorded is on flash.      *)
EXTENDS AssetRegistry, SequenceTheorems, TLAPS

(* Next as one list of actions. *)
Steps ==
  \/ Service \/ NoInput \/ DoRefresh \/ (\E i \in 1..count : Select(i)) \/ Back
  \/ RunRemove \/ RunInstall \/ DownloadAll \/ Waited \/ Hold \/ HoldTimeout
  \/ NextPending \/ Install \/ InstallFile \/ InstallDone
  \/ CheckEnds \/ Publish \/ WifiChanges \/ PowerCut
  \/ \E t \in Tasks : Start(t) \/ Get(t) \/ Fill(t) \/ Adopt(t) \/ End(t)

LEMMA NextIsSteps == Next <=> Steps
  BY DEF Next, Steps, LoopTask, Screen, Installing, Refresh, Environment, Tasks

\* The flags say where the tasks are, and who may run with whom.
Turns ==
  /\ refreshing <=> at[Worker] # "off"
  /\ installing <=> at[Loop] \in {"next", "install", "file"}
  /\ installing => ~refreshing
  /\ ~(refreshing /\ checking)

TurnInv == FlagType /\ Turns

LEMMA BootedFacts ==
  Booted \in [Tasks -> Places] /\ Booted[Loop] = "service" /\ Booted[Worker] = "off"
  BY DEF Booted, Tasks, Places, Loop, Worker

LEMMA TurnInit == Init => TurnInv
<1> HAVE Init
<1>1. /\ at = Booted /\ wifi = FALSE /\ refreshing = FALSE /\ installing = FALSE
      /\ checking = FALSE /\ detail = FALSE /\ batch = FALSE /\ phase = 0
  BY DEF Init
<1>2. FlagType
  <2>1. at \in [Tasks -> Places] BY <1>1, BootedFacts
  <2>2. phase \in 0..4 BY <1>1
  <2> QED BY <1>1, <2>1, <2>2, Zenon DEF FlagType
<1>3. ~refreshing /\ ~installing /\ at[Loop] = "service" /\ at[Worker] = "off"
  BY <1>1, BootedFacts
<1> QED
  BY <1>2, <1>3 DEF TurnInv, Turns

LEMMA BeginFacts ==
  ASSUME FlagType, NEW next \in {"service", "gui"}, BeginRefreshAsync(next)
  PROVE  /\ at' \in [Tasks -> Places] /\ refreshing' \in BOOLEAN
         /\ at'[Loop] = next
         /\ \/ ~refreshing /\ refreshing' /\ at'[Worker] = "start"
            \/ refreshing' = refreshing /\ at'[Worker] = at[Worker]
<1> USE DEF FlagType, Tasks, Places, Loop, Worker
<1>1. CASE ~refreshing /\ refreshing' = TRUE
           /\ at' = [at EXCEPT ![Loop] = next, ![Worker] = "start"]
  BY <1>1
<1>2. CASE Go(Loop, next) /\ UNCHANGED refreshing
  BY <1>2 DEF Go
<1> QED
  BY <1>1, <1>2 DEF BeginRefreshAsync

LEMMA TurnStep ==
  ASSUME TurnInv, [Next]_vars
  PROVE  TurnInv'
<1> USE DEF TurnInv, FlagType, Turns, Tasks, Places, Loop, Worker, flags, screens, Go
<1>1. CASE Service
  <2>1. at[Loop] = "service" /\ UNCHANGED <<wifi, installing, detail, batch>>
    BY <1>1 DEF Service
  <2>2. CASE BeginRefreshAsync("gui") /\ ~checking /\ phase' = 3 /\ UNCHANGED checking
    BY <2>1, <2>2, BeginFacts
  <2>3. CASE /\ Go(Loop, "gui") /\ UNCHANGED refreshing /\ phase' \in {phase, 0, 1, 2, 4}
             /\ UNCHANGED checking \/ (checking' = TRUE /\ ~refreshing)
    <3>1. UNCHANGED at[Worker] /\ at'[Loop] = "gui" /\ at' \in [Tasks -> Places]
      BY <2>1, <2>3
    <3>2. CASE UNCHANGED checking
      BY <2>1, <2>3, <3>1, <3>2
    <3>3. CASE checking' = TRUE /\ ~refreshing
      BY <2>1, <2>3, <3>1, <3>3
    <3> QED BY <2>3, <3>2, <3>3
  <2> QED
    BY <1>1, <2>2, <2>3 DEF Service
<1>2. CASE NoInput
  BY <1>2 DEF NoInput, Turn
<1>3. CASE DoRefresh
  BY <1>3, BeginFacts DEF DoRefresh, Turn
<1>4. CASE \E i \in 1..count : Select(i)
  BY <1>4 DEF Select, Turn
<1>5. CASE Back
  BY <1>5 DEF Back, Turn
<1>6. CASE RunRemove
  BY <1>6 DEF RunRemove, Turn
<1>7. CASE RunInstall
  BY <1>7 DEF RunInstall, Turn
<1>8. CASE DownloadAll
  BY <1>8 DEF DownloadAll, Turn
<1>9. CASE Waited
  BY <1>9 DEF Waited
<1>10. CASE Hold
  BY <1>10 DEF Hold
<1>11. CASE HoldTimeout
  BY <1>11 DEF HoldTimeout, Release
<1>12. CASE NextPending
  BY <1>12 DEF NextPending, Release
<1>13. CASE Install
  BY <1>13 DEF Install, Done, Release
<1>14. CASE InstallFile
  BY <1>14 DEF InstallFile, Done, Release
<1>15. CASE InstallDone
  BY <1>15 DEF InstallDone, Done, Release
<1>16. CASE CheckEnds
  BY <1>16 DEF CheckEnds
<1>17. CASE Publish
  BY <1>17 DEF Publish
<1>18. CASE WifiChanges
  BY <1>18 DEF WifiChanges
<1>19. CASE PowerCut
  <2>1. /\ at' = Booted /\ wifi' = FALSE /\ refreshing' = FALSE /\ installing' = FALSE
        /\ checking' = FALSE /\ detail' = FALSE /\ batch' = FALSE /\ phase' = 0
    BY <1>19 DEF PowerCut
  <2>2. FlagType'
    <3>1. at' \in [Tasks -> Places] BY <2>1, BootedFacts, Zenon
    <3>2. phase' \in 0..4 BY <2>1
    <3> QED BY <2>1, <3>1, <3>2, Zenon
  <2>3. ~refreshing' /\ ~installing' /\ at'[Loop] = "service" /\ at'[Worker] = "off"
    BY <2>1, BootedFacts
  <2> QED
    BY <2>2, <2>3
<1>20. ASSUME NEW t \in Tasks, Start(t) PROVE TurnInv'
  BY <1>20 DEF Start
<1>21. ASSUME NEW t \in Tasks, Get(t) PROVE TurnInv'
  BY <1>21 DEF Get
<1>22. ASSUME NEW t \in Tasks, Fill(t) PROVE TurnInv'
  BY <1>22 DEF Fill
<1>23. ASSUME NEW t \in Tasks, Adopt(t) PROVE TurnInv'
  BY <1>23 DEF Adopt
<1>24. ASSUME NEW t \in Tasks, End(t) PROVE TurnInv'
  BY <1>24 DEF End
<1>25. CASE UNCHANGED vars
  BY <1>25 DEF vars
<1> QED
  BY <1>1, <1>2, <1>3, <1>4, <1>5, <1>6, <1>7, <1>8, <1>9, <1>10, <1>11, <1>12,
     <1>13, <1>14, <1>15, <1>16, <1>17, <1>18, <1>19, <1>20, <1>21, <1>22, <1>23,
     <1>24, <1>25, NextIsSteps DEF Steps

LEMMA TurnHolds == Spec => []TurnInv
<1>1. TurnInv /\ [Next]_vars => TurnInv'
  BY TurnStep
<1> QED
  BY TurnInit, <1>1, PTL DEF Spec

(***************************************************************************)
(* The worker that checks for firmware and the one that fetches the        *)
(* catalogue never run together.                                           *)
(***************************************************************************)
THEOREM OneWorker == Spec => []NeverBoth
<1>1. TurnInv => NeverBoth
  BY DEF TurnInv, Turns, NeverBoth
<1> QED
  BY TurnHolds, <1>1, PTL

-----------------------------------------------------------------------------
(* The table.  What a slot says never runs out of the pool; below the count it
   says all the files of its asset, and they are in the pool.                *)
Inside(e) == e.first >= 1 /\ e.first + e.n - 1 <= Len(pool)

Complete(e) ==
  /\ e.n = Count[e.id]
  /\ e.n # 0 => /\ e.first + e.n - 1 <= used
                /\ \A f \in 1..e.n : pool[e.first + f - 1] = Record(e.id, e.ver, f)

TableInv ==
  /\ TableType
  /\ \A i \in 1..Len(slots) : Inside(slots[i])
  /\ \A i \in 1..count : Complete(slots[i])

LEMMA PutFacts ==
  ASSUME slots \in Seq(Entry), NEW i \in 1..Len(slots) + 1, NEW x \in Entry
  PROVE  /\ Put(slots, i, x) \in Seq(Entry)
         /\ Len(Put(slots, i, x)) >= Len(slots) /\ Len(Put(slots, i, x)) >= i
         /\ Put(slots, i, x)[i] = x
         /\ \A j \in 1..Len(Put(slots, i, x)) :
              j # i => j \in 1..Len(slots) /\ Put(slots, i, x)[j] = slots[j]
<1>0. Len(slots) \in Nat
  BY LenProperties
<1>1. CASE i <= Len(slots)
  <2>1. Put(slots, i, x) = [slots EXCEPT ![i] = x]
    BY <1>1 DEF Put
  <2> QED
    BY <1>0, <1>1, <2>1, ExceptSeq
<1>2. CASE ~(i <= Len(slots))
  <2>1. i = Len(slots) + 1 /\ Put(slots, i, x) = Append(slots, x)
    BY <1>0, <1>2 DEF Put
  <2> QED
    BY <1>0, <2>1, AppendProperties
<1> QED
  BY <1>1, <1>2

LEMMA PooledFacts ==
  ASSUME TableType, NEW a \in Assets, NEW v \in Versions
  PROVE  /\ Pooled(a, v) \in Seq(File)
         /\ Len(Pooled(a, v)) >= Len(pool) /\ Len(Pooled(a, v)) >= used + Count[a]
         /\ \A i \in 1..used : Pooled(a, v)[i] = pool[i]
         /\ \A f \in 1..Count[a] : Pooled(a, v)[used + f] = Record(a, v, f)
<1> DEFINE end == used + Count[a]
           len == IF Len(pool) < end THEN end ELSE Len(pool)
           P   == [i \in 1..len |-> IF i \in used + 1..end THEN Record(a, v, i - used)
                                                         ELSE pool[i]]
<1>1. Len(pool) \in Nat /\ used \in Nat /\ used <= Len(pool) /\ Count[a] \in Nat
  BY LenProperties, CatalogueAssumption DEF TableType
<1>2. len \in Nat /\ len >= Len(pool) /\ len >= end /\ end \in Nat
  BY <1>1
<1>3. Pooled(a, v) = P
  BY DEF Pooled
<1>4. \A i \in 1..len : (IF i \in used + 1..end THEN Record(a, v, i - used) ELSE pool[i]) \in File
  <2> TAKE i \in 1..len
  <2>1. CASE i \in used + 1..end
    <3>1. i - used \in Nat
      BY <1>1, <1>2, <2>1
    <3> QED BY <2>1, <3>1 DEF Record, File
  <2>2. CASE i \notin used + 1..end
    <3>1. i \in 1..Len(pool)
      BY <1>1, <1>2, <2>2
    <3> QED BY <2>2, <3>1, ElementOfSeq DEF TableType
  <2> QED BY <2>1, <2>2
<1>5. P \in [1..len -> File]
  BY <1>4
<1>6. P \in Seq(File) /\ Len(P) = len
  BY <1>2, <1>5
<1>7. \A i \in 1..used : P[i] = pool[i]
  BY <1>1, <1>2
<1>8. \A f \in 1..Count[a] : P[used + f] = Record(a, v, f)
  <2> TAKE f \in 1..Count[a]
  <2>1. used + f \in 1..len /\ used + f \in used + 1..end /\ (used + f) - used = f
    BY <1>1, <1>2
  <2> QED BY <2>1
<1> QED
  BY <1>2, <1>3, <1>6, <1>7, <1>8

LEMMA TableInit == Init => TableInv
<1> HAVE Init
<1>1. /\ slots = <<>> /\ count = 0 /\ pool = <<>> /\ used = 0
      /\ published \in Seq(Assets \X Versions)
  BY CatalogueAssumption DEF Init
<1>2. body \in [Tasks -> Seq(Assets \X Versions)]
  BY DEF Init, Tasks
<1> QED
  BY <1>1, <1>2 DEF TableInv, TableType

\* What parses starts with nothing in the table.
LEMMA GetTable ==
  ASSUME TableInv, NEW t \in Tasks, Get(t)
  PROVE  TableInv'
<1>1. /\ UNCHANGED <<published, slots, pool>>
      /\ Len(slots) \in Nat /\ Len(pool) \in Nat
  BY LenProperties DEF Get, TableInv, TableType
<1>2. body' \in [Tasks -> Seq(Assets \X Versions)]
  BY DEF Get, TableInv, TableType
<1>3. (\A i \in 1..Len(slots) : Inside(slots[i]))'
  BY <1>1 DEF Inside, TableInv
<1>4. CASE count' = 0 /\ used' = 0
  <2>1. TableType'
    BY <1>1, <1>2, <1>4 DEF TableInv, TableType
  <2>2. (\A i \in 1..count : Complete(slots[i]))'
    BY <1>4
  <2> QED BY <1>3, <2>1, <2>2 DEF TableInv
<1>5. CASE UNCHANGED <<count, used>>
  <2>1. TableType'
    BY <1>1, <1>2, <1>5 DEF TableInv, TableType
  <2>2. (\A i \in 1..count : Complete(slots[i]))'
    BY <1>1, <1>5 DEF Complete, TableInv
  <2> QED BY <1>3, <2>1, <2>2 DEF TableInv
<1> QED
  BY <1>4, <1>5 DEF Get

LEMMA StillWithin ==
  ASSUME NEW f \in Nat, NEW n \in Nat, NEW u \in Nat, NEW w \in Nat,
         u <= w, f + n - 1 <= u
  PROVE  f + n - 1 <= w
  OBVIOUS

\* An entry goes behind the others, its files behind theirs.
LEMMA EntryTable ==
  ASSUME TableInv, NEW a \in Assets, NEW v \in Versions, NEW e,
         e = [id |-> a, ver |-> v, first |-> used + 1, n |-> Count[a]],
         slots' = Put(slots, count + 1, e), count' = count + 1,
         pool' = Pooled(a, v), used' = used + Count[a]
  PROVE  /\ slots' \in Seq(Entry) /\ count' \in 0..Len(slots')
         /\ pool' \in Seq(File) /\ used' \in 0..Len(pool')
         /\ (\A i \in 1..Len(slots) : Inside(slots[i]))'
         /\ (\A i \in 1..count : Complete(slots[i]))'
<1>1. TableType /\ slots \in Seq(Entry) /\ pool \in Seq(File)
  BY DEF TableInv, TableType
<1>2. /\ Len(slots) \in Nat /\ Len(pool) \in Nat /\ used \in Nat /\ count \in Nat
      /\ Count[a] \in Nat /\ used <= Len(pool) /\ count <= Len(slots)
  BY <1>1, LenProperties, CatalogueAssumption DEF TableType
<1>3. e \in Entry /\ count + 1 \in 1..Len(slots) + 1
  BY <1>2 DEF Entry
<1>4. /\ slots' \in Seq(Entry) /\ Len(slots') >= Len(slots) /\ Len(slots') >= count + 1
      /\ slots'[count + 1] = e
      /\ \A j \in 1..Len(slots') : j # count + 1 => j \in 1..Len(slots) /\ slots'[j] = slots[j]
  <2>1. /\ Put(slots, count + 1, e) \in Seq(Entry)
        /\ Len(Put(slots, count + 1, e)) >= Len(slots)
        /\ Len(Put(slots, count + 1, e)) >= count + 1
        /\ Put(slots, count + 1, e)[count + 1] = e
        /\ \A j \in 1..Len(Put(slots, count + 1, e)) :
             j # count + 1 => j \in 1..Len(slots) /\ Put(slots, count + 1, e)[j] = slots[j]
    BY <1>1, <1>3, PutFacts, SMTT(60)
  <2> QED BY <2>1
<1>5. /\ pool' \in Seq(File) /\ Len(pool') >= Len(pool) /\ Len(pool') >= used + Count[a]
      /\ \A i \in 1..used : pool'[i] = pool[i]
      /\ \A f \in 1..Count[a] : pool'[used + f] = Record(a, v, f)
  BY <1>1, PooledFacts, SMTT(30)
<1>6. Len(slots') \in Nat /\ Len(pool') \in Nat
  BY <1>4, <1>5, LenProperties
<1>7. count' \in 0..Len(slots') /\ used' \in 0..Len(pool')
  BY <1>2, <1>4, <1>5, <1>6
<1>8. e.id = a /\ e.ver = v /\ e.first = used + 1 /\ e.n = Count[a]
  OBVIOUS
<1>11. used' \in Nat /\ used <= used'
  BY <1>2
<1>9. ASSUME NEW i \in 1..Len(slots')
      PROVE  slots'[i].first >= 1 /\ slots'[i].first + slots'[i].n - 1 <= Len(pool')
  <2>1. CASE i = count + 1
    BY <1>2, <1>4, <1>5, <1>6, <1>8, <2>1, SMTT(30)
  <2>2. CASE i # count + 1
    <3>1. i \in 1..Len(slots) /\ slots'[i] = slots[i]
      BY <1>4, <2>2
    <3>2. slots[i] \in Entry /\ Inside(slots[i])
      BY <1>1, <3>1, ElementOfSeq DEF TableInv
    <3> QED BY <1>2, <1>5, <1>6, <3>1, <3>2, SMTT(30) DEF Inside, Entry
  <2> QED BY <2>1, <2>2
<1>10. ASSUME NEW i \in 1..count'
       PROVE  /\ slots'[i].n = Count[slots'[i].id]
              /\ slots'[i].n # 0 =>
                   /\ slots'[i].first + slots'[i].n - 1 <= used'
                   /\ \A f \in 1..slots'[i].n : pool'[slots'[i].first + f - 1] =
                        Record(slots'[i].id, slots'[i].ver, f)
  <2>0. i \in 1..Len(slots')
    BY <1>2, <1>6, <1>7
  <2>1. CASE i = count + 1
    <3>1. \A f \in 1..Count[a] : pool'[(used + 1) + f - 1] = Record(a, v, f)
      <4> TAKE f \in 1..Count[a]
      <4>1. (used + 1) + f - 1 = used + f
        BY <1>2
      <4> QED BY <1>5, <4>1
    <3>2. (used + 1) + Count[a] - 1 <= used'
      BY <1>2
    <3> QED BY <1>4, <1>8, <2>1, <3>1, <3>2
  <2>2. CASE i # count + 1
    <3>1. i \in 1..Len(slots) /\ i \in 1..count /\ slots'[i] = slots[i]
      BY <1>2, <1>4, <2>0, <2>2
    <3>2. slots[i] \in Entry /\ Inside(slots[i]) /\ Complete(slots[i])
      BY <1>1, <3>1, ElementOfSeq DEF TableInv
    <3>3. slots[i].first \in Nat /\ slots[i].n \in Nat /\ slots[i].first >= 1
      BY <3>2 DEF Entry, Inside
    <3>4. /\ slots[i].n = Count[slots[i].id]
          /\ slots[i].n # 0 => slots[i].first + slots[i].n - 1 <= used'
      <4> DEFINE first == slots[i].first
                 n     == slots[i].n
      <4>1. n = Count[slots[i].id] /\ (n # 0 => first + n - 1 <= used)
        BY <3>2, Zenon DEF Complete
      <4>2. first \in Nat /\ n \in Nat
        BY <3>3
      <4> HIDE DEF first, n
      <4>3. n # 0 => first + n - 1 <= used'
        BY <1>2, <1>11, <4>1, <4>2, StillWithin, Zenon
      <4> QED BY <4>1, <4>3 DEF first, n
    <3>5. ASSUME slots[i].n # 0, NEW f \in 1..slots[i].n
          PROVE  pool'[slots[i].first + f - 1] = Record(slots[i].id, slots[i].ver, f)
      <4>1. slots[i].first + slots[i].n - 1 <= used
        BY <3>2, <3>5 DEF Complete
      <4>2. slots[i].first + f - 1 \in 1..used
        <5> DEFINE first == slots[i].first
                   n     == slots[i].n
        <5>1. first \in Nat /\ n \in Nat /\ first >= 1 /\ first + n - 1 <= used /\ f \in 1..n
          BY <3>3, <4>1
        <5> HIDE DEF first, n
        <5>2. first + f - 1 \in 1..used
          BY <1>2, <5>1
        <5> QED BY <5>2 DEF first
      <4>3. pool[slots[i].first + f - 1] = Record(slots[i].id, slots[i].ver, f)
        BY <3>2, <3>5 DEF Complete
      <4> QED BY <1>5, <4>2, <4>3
    <3> QED BY <3>1, <3>4, <3>5
  <2> QED BY <2>1, <2>2
<1> QED
  BY <1>4, <1>5, <1>7, <1>9, <1>10 DEF Inside, Complete

LEMMA FillTable ==
  ASSUME TableInv, NEW t \in Tasks, Fill(t)
  PROVE  TableInv'
<1> DEFINE a == Head(body[t])[1]
           v == Head(body[t])[2]
<1>1. body[t] \in Seq(Assets \X Versions) /\ body[t] # <<>>
  BY DEF Fill, TableInv, TableType
<1>2. a \in Assets /\ v \in Versions /\ Tail(body[t]) \in Seq(Assets \X Versions)
  BY <1>1, HeadTailProperties
<1>3. published' \in Seq(Assets \X Versions) /\ body' \in [Tasks -> Seq(Assets \X Versions)]
  BY <1>2 DEF Fill, TableInv, TableType
<1>4. CASE /\ slots' = Put(slots, count + 1,
                           [id |-> a, ver |-> v, first |-> used + 1, n |-> Count[a]])
           /\ count' = count + 1
           /\ pool' = Pooled(a, v) /\ used' = used + Count[a]
  <2> HIDE DEF a, v
  <2> QED BY <1>2, <1>3, <1>4, EntryTable DEF TableInv, TableType
<1>5. CASE UNCHANGED table
  BY <1>3, <1>5 DEF table, Inside, Complete, TableInv, TableType
<1> QED
  BY <1>4, <1>5 DEF Fill

\* The actions that leave the table and the documents alone.
Elsewhere ==
  \/ Service \/ NoInput \/ DoRefresh \/ (\E i \in 1..count : Select(i)) \/ Back
  \/ RunRemove \/ RunInstall \/ DownloadAll \/ Waited \/ Hold \/ HoldTimeout
  \/ NextPending \/ Install \/ InstallFile \/ InstallDone \/ CheckEnds \/ WifiChanges
  \/ \E t \in Tasks : Start(t) \/ Adopt(t) \/ End(t)

LEMMA ElsewhereTable ==
  ASSUME Elsewhere PROVE UNCHANGED <<table, body, published>>
<1> USE DEF table
<1>1. CASE Service \/ NoInput \/ DoRefresh \/ (\E i \in 1..count : Select(i)) \/ Back
  BY <1>1 DEF Service, NoInput, DoRefresh, Select, Back
<1>2. CASE RunRemove \/ RunInstall \/ DownloadAll \/ Waited \/ Hold \/ HoldTimeout
  BY <1>2 DEF RunRemove, RunInstall, DownloadAll, Waited, Hold, HoldTimeout
<1>3. CASE NextPending \/ Install \/ InstallFile \/ InstallDone \/ CheckEnds \/ WifiChanges
  BY <1>3 DEF NextPending, Install, InstallFile, InstallDone, CheckEnds, WifiChanges
<1>4. CASE \E t \in Tasks : Start(t) \/ Adopt(t) \/ End(t)
  BY <1>4 DEF Start, Adopt, End
<1> QED
  BY <1>1, <1>2, <1>3, <1>4 DEF Elsewhere

LEMMA StepsSplit ==
  ASSUME [Next]_vars
  PROVE  \/ Elsewhere \/ Publish \/ PowerCut \/ (\E t \in Tasks : Get(t) \/ Fill(t))
         \/ UNCHANGED vars
  BY NextIsSteps DEF Steps, Elsewhere

LEMMA SameTable ==
  ASSUME TableInv, UNCHANGED table, published' \in Seq(Assets \X Versions),
         body' \in [Tasks -> Seq(Assets \X Versions)]
  PROVE  TableInv'
  BY DEF TableInv, TableType, table, Inside, Complete

LEMMA TableStep ==
  ASSUME TableInv, [Next]_vars
  PROVE  TableInv'
<1>0. published \in Seq(Assets \X Versions) /\ body \in [Tasks -> Seq(Assets \X Versions)]
  BY DEF TableInv, TableType
<1>1. CASE Elsewhere
  BY <1>0, <1>1, ElsewhereTable, SameTable
<1>2. CASE Publish
  <2>1. published' \in Seq(Assets \X Versions) /\ UNCHANGED <<table, body>>
    BY <1>2, CatalogueAssumption DEF Publish
  <2> QED BY <1>0, <2>1, SameTable
<1>3. CASE PowerCut
  <2>1. /\ slots' = <<>> /\ count' = 0 /\ pool' = <<>> /\ used' = 0
        /\ body' = [t \in {Loop, Worker} |-> <<>>] /\ UNCHANGED published
    BY <1>3 DEF PowerCut
  <2>2. body' \in [Tasks -> Seq(Assets \X Versions)]
    BY <2>1 DEF Tasks
  <2> QED BY <1>0, <2>1, <2>2 DEF TableInv, TableType
<1>4. ASSUME NEW t \in Tasks, Get(t) \/ Fill(t) PROVE TableInv'
  BY <1>4, GetTable, FillTable
<1>5. CASE UNCHANGED vars
  BY <1>0, <1>5, SameTable DEF vars
<1> QED
  BY <1>1, <1>2, <1>3, <1>4, <1>5, StepsSplit

LEMMA TableHolds == Spec => []TableInv
<1>1. TableInv /\ [Next]_vars => TableInv'
  BY TableStep
<1> QED
  BY TableInit, <1>1, PTL DEF Spec

(***************************************************************************)
(* While an install holds the registry, nothing of what it reads is        *)
(* rewritten.                                                              *)
(***************************************************************************)
THEOREM TableStandsStill == Spec => ReadsStandStill
<1>1. TurnInv /\ [Next]_vars => (installing /\ installing' => UNCHANGED table)
  <2> SUFFICES ASSUME TurnInv, [Next]_vars, installing, installing' PROVE UNCHANGED table
    OBVIOUS
  <2>1. at[Worker] = "off" /\ at[Loop] \in {"next", "install", "file"}
    BY DEF TurnInv, Turns
  <2>2. CASE Elsewhere
    BY <2>2, ElsewhereTable
  <2>3. CASE Publish
    BY <2>3 DEF Publish
  <2>4. CASE PowerCut
    BY <2>4 DEF PowerCut
  <2>5. ASSUME NEW t \in Tasks, Get(t) \/ Fill(t) PROVE FALSE
    BY <2>1, <2>5 DEF Tasks, Get, Fill
  <2>6. CASE UNCHANGED vars
    BY <2>6 DEF vars
  <2> QED BY <2>2, <2>3, <2>4, <2>5, <2>6, StepsSplit
<1> QED
  BY TurnHolds, <1>1, PTL DEF Spec, ReadsStandStill

-----------------------------------------------------------------------------
(* What an entry says its files are.                                         *)
LEMMA FilesAreFiles ==
  ASSUME TableInv, NEW i \in 1..Len(slots)
  PROVE  FilesOf(slots[i]) \in Seq(File)
<1> DEFINE e == slots[i]
<1>1. e \in Entry /\ Inside(e) /\ pool \in Seq(File) /\ Len(pool) \in Nat
  BY ElementOfSeq, LenProperties DEF TableInv, TableType
<1>2. /\ e.id \in Assets /\ e.ver \in Versions /\ e.first \in Nat /\ e.n \in Nat
      /\ e.first >= 1 /\ e.first + e.n - 1 <= Len(pool)
  BY <1>1 DEF Entry, Inside
<1> HIDE DEF e
<1>3. CASE e.n = 0
  <2>1. Record(e.id, e.ver, 1) \in File
    BY <1>2 DEF Record, File
  <2>2. FilesOf(e) = <<Record(e.id, e.ver, 1)>>
    BY <1>3 DEF FilesOf
  <2> QED BY <2>1, <2>2 DEF e
<1>4. CASE e.n # 0
  <2>1. FilesOf(e) = [f \in 1..e.n |-> pool[e.first + f - 1]]
    BY <1>4 DEF FilesOf
  <2>2. ASSUME NEW f \in 1..e.n PROVE pool[e.first + f - 1] \in File
    <3>1. e.first + f - 1 \in 1..Len(pool)
      BY <1>1, <1>2
    <3> QED BY <1>1, <3>1, ElementOfSeq
  <2>3. FilesOf(e) \in [1..e.n -> File]
    BY <2>1, <2>2
  <2> QED BY <1>2, <2>3 DEF e
<1> QED
  BY <1>3, <1>4

LEMMA FilesOfEntry ==
  ASSUME TableInv, NEW i \in 1..count
  PROVE  /\ i \in 1..Len(slots) /\ slots[i] \in Entry
         /\ DOMAIN FilesOf(slots[i]) = 1..Width(slots[i].id)
         /\ \A f \in 1..Width(slots[i].id) :
              FilesOf(slots[i])[f] = Record(slots[i].id, slots[i].ver, f)
<1> DEFINE e == slots[i]
<1>1. i \in 1..Len(slots) /\ slots \in Seq(Entry)
  BY LenProperties DEF TableInv, TableType
<1>2. e \in Entry /\ Complete(e)
  BY <1>1, ElementOfSeq DEF TableInv
<1>3. e.n = Count[e.id] /\ e.n \in Nat
  BY <1>2 DEF Complete, Entry
<1>4. CASE e.n = 0
  <2>1. FilesOf(e) = <<Record(e.id, e.ver, 1)>> /\ Width(e.id) = 1
    BY <1>3, <1>4 DEF FilesOf, Width
  <2> QED BY <1>1, <1>2, <2>1
<1>5. CASE e.n # 0
  <2>1. FilesOf(e) = [f \in 1..e.n |-> pool[e.first + f - 1]] /\ Width(e.id) = e.n
    BY <1>3, <1>5 DEF FilesOf, Width
  <2>2. \A f \in 1..e.n : pool[e.first + f - 1] = Record(e.id, e.ver, f)
    BY <1>2, <1>5 DEF Complete
  <2> QED BY <1>1, <1>2, <2>1, <2>2
<1> QED
  BY <1>4, <1>5

\* An entry that is present has all its files, and its bytes where a size can tell.
LEMMA PresentIsThere ==
  ASSUME TableInv, NEW i \in 1..count, DestFullyPresent(slots[i]),
         NEW f \in 1..Width(slots[i].id)
  PROVE  \/ disk[slots[i].id][f] = Record(slots[i].id, slots[i].ver, f)
         \/ <<slots[i].id, f>> \notin Sized /\ disk[slots[i].id][f] # None
<1> DEFINE r == Record(slots[i].id, slots[i].ver, f)
<1>1. FilesOf(slots[i])[f] = r /\ f \in DOMAIN FilesOf(slots[i])
  BY FilesOfEntry
<1>2. r \in ToSet(FilesOf(slots[i]))
  BY <1>1 DEF ToSet
<1>3. Matches(disk[slots[i].id][r.file], r)
  BY <1>2 DEF DestFullyPresent
<1>4. r.id = slots[i].id /\ r.file = f
  BY DEF Record
<1> QED
  BY <1>3, <1>4 DEF Matches

-----------------------------------------------------------------------------
(* Installs.  What is pointed to is a slot, and what is no longer to come of an
   entry that is still in the table is on flash.                             *)
Busy == {"install", "file"}

PickInv ==
  /\ detail \/ at[Loop] \in Busy => cur \in 1..Len(slots)
  /\ at[Loop] = "hold" /\ ~batch => detail

Arrived(e) ==
  /\ \A r \in ToSet(rest) : r = Record(e.id, e.ver, r.file)
  /\ \A f \in 1..Width(e.id) :
       \/ Record(e.id, e.ver, f) \in ToSet(rest)
       \/ disk[e.id][f] = Record(e.id, e.ver, f)

FetchInv == at[Loop] = "file" /\ cur <= count => Arrived(slots[cur])

InstallInv == InstallType /\ PickInv /\ FetchInv

LEMMA InstallInit == Init => InstallInv
<1> HAVE Init
<1>1. /\ slots = <<>> /\ cur = 0 /\ queue = {} /\ rest = <<>> /\ detail = FALSE
      /\ batch = FALSE /\ marker = [a \in Assets |-> None] /\ at = Booted
  BY DEF Init
<1>2. at[Loop] = "service"
  BY <1>1, BootedFacts
<1>3. ASSUME NEW a \in Assets PROVE disk[a] \in [1..Width(a) -> File \union {None}]
  <2>1. Width(a) \in Nat
    BY CatalogueAssumption DEF Width
  <2>2. (CHOOSE v \in Versions : TRUE) \in Versions
    BY CatalogueAssumption
  <2>3. \A f \in 1..Width(a) : Record(a, CHOOSE v \in Versions : TRUE, f) \in File
    BY <2>1, <2>2 DEF Record, File
  <2> QED BY <2>3 DEF Init
<1>4. DOMAIN disk = Assets
  BY DEF Init
<1>5. InstallType
  BY <1>1, <1>3, <1>4 DEF InstallType
<1>6. ~detail /\ ~batch /\ at[Loop] \notin {"install", "file", "hold"}
  BY <1>1, <1>2
<1> QED
  BY <1>5, <1>6 DEF InstallInv, PickInv, FetchInv, Busy

\* A step that has nothing to do with installs.
LEMMA AsideInstall ==
  ASSUME InstallInv, UNCHANGED <<cur, queue, rest, marker, disk, detail, batch>>,
         Len(slots) \in Nat, Len(slots') \in Nat, Len(slots') >= Len(slots),
         \/ at'[Loop] \notin {"hold", "install", "file"}
         \/ at'[Loop] = at[Loop] /\ (at[Loop] \in Busy => UNCHANGED table)
  PROVE  InstallInv'
<1>1. InstallType'
  BY DEF InstallInv, InstallType
<1>2. PickInv'
  BY DEF InstallInv, PickInv, Busy
<1>3. FetchInv'
  BY DEF InstallInv, FetchInv, Busy, Arrived, table
<1> QED
  BY <1>1, <1>2, <1>3 DEF InstallInv

LEMMA SlotsGrow ==
  ASSUME TableInv, NEW t \in Tasks, Fill(t)
  PROVE  Len(slots) \in Nat /\ Len(slots') \in Nat /\ Len(slots') >= Len(slots)
<1>1. Len(slots) \in Nat /\ Len(slots') \in Nat
  BY FillTable, LenProperties DEF TableInv, TableType
<1>2. PICK a \in Assets, v \in Versions :
        \/ slots' = Put(slots, count + 1,
                        [id |-> a, ver |-> v, first |-> used + 1, n |-> Count[a]])
        \/ UNCHANGED slots
  <2>1. body[t] \in Seq(Assets \X Versions) /\ body[t] # <<>>
    BY DEF Fill, TableInv, TableType
  <2>2. Head(body[t])[1] \in Assets /\ Head(body[t])[2] \in Versions
    BY <2>1, HeadTailProperties
  <2> QED BY <2>2 DEF Fill, table
<1>3. /\ [id |-> a, ver |-> v, first |-> used + 1, n |-> Count[a]] \in Entry
      /\ count + 1 \in 1..Len(slots) + 1 /\ slots \in Seq(Entry)
  BY <1>1, LenProperties, CatalogueAssumption DEF Entry, TableInv, TableType
<1>4. CASE UNCHANGED slots
  BY <1>1, <1>4
<1>5. CASE slots' = Put(slots, count + 1,
                        [id |-> a, ver |-> v, first |-> used + 1, n |-> Count[a]])
  BY <1>1, <1>3, <1>5, PutFacts
<1> QED
  BY <1>2, <1>4, <1>5

\* The steps that have nothing to do with installs.
LEMMA AsideStep ==
  ASSUME TurnInv, TableInv, InstallInv,
         \/ Service \/ NoInput \/ DoRefresh \/ Waited \/ CheckEnds \/ WifiChanges \/ Publish
         \/ (\E t \in Tasks : Start(t) \/ Get(t) \/ Fill(t)) \/ UNCHANGED vars
  PROVE  InstallInv'
<1> USE DEF screens, stored, table, Go
<1>0. /\ at \in [Tasks -> Places] /\ Loop \in Tasks /\ Worker \in Tasks /\ Loop # Worker
      /\ at[Worker] # "off" => at[Loop] \notin Busy
      /\ Len(slots) \in Nat
  BY LenProperties
     DEF TurnInv, FlagType, Turns, TableInv, TableType, Busy, Tasks, Loop, Worker
<1>1. CASE Service \/ NoInput \/ DoRefresh \/ Waited
  <2>1. /\ UNCHANGED <<cur, queue, rest, marker, disk, detail, batch, slots>>
        /\ at'[Loop] \notin {"hold", "install", "file"}
    BY <1>0, <1>1 DEF Service, NoInput, DoRefresh, Waited, Turn, BeginRefreshAsync
  <2> QED BY <1>0, <2>1, AsideInstall
<1>2. CASE CheckEnds \/ WifiChanges \/ Publish \/ UNCHANGED vars
  <2>1. UNCHANGED <<cur, queue, rest, marker, disk, detail, batch, table, at>>
    BY <1>2 DEF CheckEnds, WifiChanges, Publish, vars
  <2> QED BY <1>0, <2>1, AsideInstall
<1>3. ASSUME NEW t \in Tasks, Start(t) \/ Get(t) \/ Fill(t) PROVE InstallInv'
  <2>1. /\ UNCHANGED <<cur, queue, rest, marker, disk, detail, batch>>
        /\ \/ at'[Loop] \notin {"hold", "install", "file"}
           \/ at'[Loop] = at[Loop] /\ at[Loop] \notin Busy
    <3>1. UNCHANGED <<cur, queue, rest, marker, disk, detail, batch>>
      BY <1>3 DEF Start, Get, Fill
    <3>2. CASE t = Loop
      BY <1>0, <1>3, <3>1, <3>2 DEF Start, Get, Fill
    <3>3. CASE t = Worker
      BY <1>0, <1>3, <3>1, <3>3 DEF Start, Get, Fill
    <3> QED BY <3>2, <3>3 DEF Tasks
  <2>2. Len(slots') \in Nat /\ Len(slots') >= Len(slots)
    <3>1. CASE Start(t) \/ Get(t)
      BY <1>0, <3>1 DEF Start, Get
    <3> QED BY <1>3, <3>1, SlotsGrow
  <2> QED BY <1>0, <2>1, <2>2, AsideInstall
<1> QED
  BY <1>1, <1>2, <1>3

\* The steps that choose what is installed next.
LEMMA ChoiceStep ==
  ASSUME TurnInv, TableInv, InstallInv,
         \/ (\E i \in 1..count : Select(i)) \/ Back \/ RunInstall \/ DownloadAll
         \/ Hold \/ HoldTimeout \/ NextPending \/ \E t \in Tasks : End(t)
  PROVE  InstallInv'
<1> USE DEF screens, stored, table, Go, InstallInv, InstallType, PickInv, FetchInv, Busy
<1>0. /\ at \in [Tasks -> Places] /\ Loop \in Tasks /\ Worker \in Tasks /\ Loop # Worker
      /\ at[Worker] # "off" => at[Loop] \notin Busy
      /\ Len(slots) \in Nat /\ count \in 0..Len(slots) /\ slots \in Seq(Entry)
  BY LenProperties
     DEF TurnInv, FlagType, Turns, TableInv, TableType, Tasks, Loop, Worker
<1>1. CASE \E i \in 1..count : Select(i)
  <2>1. PICK i \in 1..count : Select(i)
    BY <1>1
  <2>2. /\ UNCHANGED <<queue, rest, marker, disk, batch, slots, count>>
        /\ cur' = i /\ at'[Loop] = "service"
    BY <1>0, <2>1 DEF Select, Turn
  <2> QED BY <1>0, <2>2
<1>2. CASE Back \/ HoldTimeout
  <2>1. /\ UNCHANGED <<queue, rest, marker, disk, slots, count>>
        /\ cur' = 0 /\ ~detail' /\ at'[Loop] = "service"
    BY <1>0, <1>2 DEF Back, HoldTimeout, Release, Turn
  <2> QED BY <1>0, <2>1
<1>3. CASE RunInstall \/ DownloadAll
  <2>1. /\ UNCHANGED <<cur, queue, rest, marker, disk, slots, count, detail>>
        /\ at'[Loop] \in {"wait", "hold"} /\ (detail \/ batch')
    BY <1>0, <1>3 DEF RunInstall, DownloadAll, Turn
  <2> QED BY <1>0, <2>1
<1>4. CASE Hold
  <2>1. /\ UNCHANGED <<cur, rest, marker, disk, slots, count, detail, batch>>
        /\ queue' \subseteq Assets
    <3>1. Pending \subseteq Assets
      <4>1. \A i \in 1..count : slots[i] \in Entry
        BY <1>0, ElementOfSeq
      <4> QED BY <4>1 DEF Pending, Entries, Entry
    <3> QED BY <1>4, <3>1 DEF Hold
  <2>2. /\ at[Loop] = "hold" /\ ~(at[Loop] \in Busy)
        /\ IF batch THEN at'[Loop] = "next" ELSE at'[Loop] = "install"
    BY <1>0, <1>4 DEF Hold
  <2> QED BY <1>0, <2>1, <2>2
<1>5. CASE NextPending
  <2>1. CASE Release /\ UNCHANGED queue
    <3>1. /\ UNCHANGED <<queue, rest, marker, disk, slots, count>>
          /\ cur' = 0 /\ ~detail' /\ at'[Loop] = "service"
      BY <1>0, <1>5, <2>1 DEF NextPending, Release
    <3> QED BY <1>0, <3>1
  <2>2. ASSUME NEW i \in 1..count, cur' = i, queue' = queue \ {slots[i].id},
               Go(Loop, "install"), UNCHANGED <<installing, batch, detail>>
        PROVE  InstallInv'
    <3>1. UNCHANGED <<rest, marker, disk, slots, count>> /\ at'[Loop] = "install"
      BY <1>0, <1>5, <2>2 DEF NextPending
    <3> QED BY <1>0, <2>2, <3>1
  <2> QED BY <1>5, <2>1, <2>2 DEF NextPending
<1>6. ASSUME NEW t \in Tasks, End(t) PROVE InstallInv'
  <2>1. UNCHANGED <<cur, queue, rest, marker, disk, slots, count, detail>>
    BY <1>6 DEF End
  <2>2. CASE t = Loop
    <3>1. at'[Loop] = "service" \/ (at'[Loop] = "hold" /\ batch')
      BY <1>0, <1>6, <2>2 DEF End
    <3> QED BY <1>0, <2>1, <3>1
  <2>3. CASE t = Worker
    <3>1. UNCHANGED <<batch, at[Loop]>> /\ at[Loop] \notin Busy
      BY <1>0, <1>6, <2>3 DEF End
    <3> QED BY <1>0, <2>1, <3>1
  <2> QED BY <2>2, <2>3 DEF Tasks
<1> QED
  BY <1>1, <1>2, <1>3, <1>4, <1>5, <1>6

\* What a flash keeps its type under: one asset's files and its version change.
LEMMA FlashType ==
  ASSUME InstallType, NEW a \in Assets,
         \/ UNCHANGED disk
         \/ \E x \in [1..Width(a) -> File \union {None}] : disk' = [disk EXCEPT ![a] = x],
         \/ UNCHANGED marker
         \/ \E v \in Versions \union {None} : marker' = [marker EXCEPT ![a] = v]
  PROVE  /\ marker' \in [Assets -> Versions \union {None}]
         /\ DOMAIN disk' = Assets
         /\ (\A b \in Assets : disk[b] \in [1..Width(b) -> File \union {None}])'
  BY DEF InstallType

LEMMA OneFileChanges ==
  ASSUME InstallType, NEW a \in Assets, NEW r \in File, NEW x \in {r, None}
  PROVE  [f \in DOMAIN disk[a] |-> IF f = r.file THEN x ELSE disk[a][f]]
           \in [1..Width(a) -> File \union {None}]
  BY DEF InstallType

LEMMA HeadAndTail ==
  ASSUME NEW s \in Seq(File), s # <<>>
  PROVE  ToSet(s) = {Head(s)} \union ToSet(Tail(s))
<1>1. /\ Len(s) \in Nat /\ Len(s) > 0 /\ DOMAIN s = 1..Len(s) /\ Head(s) = s[1]
      /\ Len(Tail(s)) = Len(s) - 1 /\ DOMAIN Tail(s) = 1..Len(s) - 1
      /\ \A i \in 1..Len(s) - 1 : Tail(s)[i] = s[i + 1]
  <2>1. Len(s) \in Nat /\ DOMAIN s = 1..Len(s) /\ Len(s) > 0
    BY LenProperties, EmptySeq
  <2>2. Tail(s) \in Seq(File) /\ Len(Tail(s)) = Len(s) - 1
    BY HeadTailProperties
  <2> QED BY <2>1, <2>2, HeadTailProperties, LenProperties
<1>2. ASSUME NEW i \in 1..Len(s) PROVE s[i] = Head(s) \/ s[i] \in ToSet(Tail(s))
  <2>1. CASE i = 1
    BY <1>1, <2>1
  <2>2. CASE i # 1
    <3>1. i - 1 \in 1..Len(s) - 1 /\ (i - 1) + 1 = i
      BY <1>1, <2>2
    <3>2. Tail(s)[i - 1] = s[i]
      BY <1>1, <3>1
    <3> QED BY <1>1, <3>1, <3>2 DEF ToSet
  <2> QED BY <2>1, <2>2
<1>3. ASSUME NEW i \in 1..Len(s) - 1 PROVE Tail(s)[i] \in ToSet(s)
  <2>1. i + 1 \in 1..Len(s)
    BY <1>1
  <2> QED BY <1>1, <2>1 DEF ToSet
<1>4. Head(s) \in ToSet(s)
  <2>1. 1 \in DOMAIN s
    BY <1>1
  <2> QED BY <1>1, <2>1 DEF ToSet
<1> QED
  BY <1>1, <1>2, <1>3, <1>4 DEF ToSet

\* The steps that write to flash or to NVS.
LEMMA InstallFileStep ==
  ASSUME TurnInv, TableInv, InstallInv, InstallFile
  PROVE  InstallInv'
<1> USE DEF InstallInv, table
<1>0. /\ at \in [Tasks -> Places] /\ Loop \in Tasks
      /\ Len(slots) \in Nat /\ count \in 0..Len(slots) /\ slots \in Seq(Entry)
      /\ rest \in Seq(File) /\ rest # <<>> /\ at[Loop] = "file"
      /\ cur \in 1..Len(slots)
  BY LenProperties
     DEF TurnInv, FlagType, TableInv, TableType, Tasks, Loop, InstallType, PickInv, Busy,
         InstallFile
<1> DEFINE r == Head(rest)
           e == slots[cur]
<1>1. r \in File /\ Tail(rest) \in Seq(File) /\ e \in Entry /\ e.id \in Assets
  <2>1. e \in Entry BY <1>0, ElementOfSeq
  <2> QED BY <1>0, <2>1, HeadTailProperties DEF Entry
<1>2. UNCHANGED <<slots, count, queue, marker>>
  BY DEF InstallFile
<1>3. CASE /\ disk' = [disk EXCEPT ![e.id] =
                         [f \in DOMAIN @ |-> IF f = r.file THEN r ELSE @[f]]]
           /\ rest' = Tail(rest)
           /\ UNCHANGED <<at, installing, batch, detail, cur>>
  <2>1. InstallType'
    BY <1>1, <1>2, <1>3, OneFileChanges, FlashType DEF InstallType
  <2>2. PickInv'
    BY <1>2, <1>3 DEF PickInv
  <2>3. FetchInv'
    <3>1. SUFFICES ASSUME Arrived(e) PROVE Arrived(e)'
      BY <1>0, <1>2, <1>3 DEF FetchInv, Busy
    <3>2. ToSet(rest) = {r} \union ToSet(Tail(rest))
      BY <1>0, HeadAndTail
    <3>3. r = Record(e.id, e.ver, r.file)
      BY <3>1, <3>2 DEF Arrived
    <3>4. DOMAIN disk[e.id] = 1..Width(e.id)
      BY <1>1 DEF InstallType
    <3>5. ASSUME NEW f \in 1..Width(e.id), Record(e.id, e.ver, f) \notin ToSet(Tail(rest))
          PROVE  disk'[e.id][f] = Record(e.id, e.ver, f)
      <4>1. disk'[e.id][f] = IF f = r.file THEN r ELSE disk[e.id][f]
        BY <1>1, <1>3, <3>4 DEF InstallType
      <4>2. CASE f = r.file
        BY <3>3, <4>1, <4>2
      <4>3. CASE f # r.file
        <5>1. Record(e.id, e.ver, f) \notin ToSet(rest)
          BY <3>2, <3>5, <4>3 DEF Record
        <5> QED BY <3>1, <4>1, <4>3, <5>1 DEF Arrived
      <4> QED BY <4>2, <4>3
    <3>6. \A x \in ToSet(Tail(rest)) : x = Record(e.id, e.ver, x.file)
      BY <3>1, <3>2 DEF Arrived
    <3>7. rest' = Tail(rest) /\ e' = e
      BY <1>2, <1>3
    <3> QED BY <3>5, <3>6, <3>7 DEF Arrived
  <2> QED BY <2>1, <2>2, <2>3
<1>4. CASE /\ rest' = <<>> /\ Done
           /\ \/ UNCHANGED disk
              \/ disk' = [disk EXCEPT ![e.id] =
                            [f \in DOMAIN @ |-> IF f = r.file THEN None ELSE @[f]]]
  <2>1. /\ at'[Loop] \notin {"hold", "install", "file"}
        /\ (UNCHANGED cur /\ UNCHANGED detail) \/ (cur' = 0 /\ ~detail')
    BY <1>0, <1>4 DEF Done, Release, Go
  <2>2. InstallType'
    <3>1. cur' \in 0..Len(slots') /\ queue' \subseteq Assets /\ rest' \in Seq(File)
      BY <1>0, <1>2, <1>4, <2>1 DEF InstallType
    <3>2. CASE UNCHANGED disk
      BY <1>2, <3>1, <3>2 DEF InstallType
    <3>3. CASE disk' = [disk EXCEPT ![e.id] =
                          [f \in DOMAIN @ |-> IF f = r.file THEN None ELSE @[f]]]
      BY <1>1, <1>2, <3>1, <3>3, OneFileChanges, FlashType DEF InstallType
    <3> QED BY <1>4, <3>2, <3>3
  <2>3. PickInv' /\ FetchInv'
    BY <1>0, <1>2, <2>1 DEF PickInv, FetchInv, Busy
  <2> QED BY <2>2, <2>3
<1> QED
  BY <1>3, <1>4 DEF InstallFile

LEMMA RecordingStep ==
  ASSUME TurnInv, TableInv, InstallInv,
         RunRemove \/ Install \/ InstallDone \/ (\E t \in Tasks : Adopt(t)) \/ PowerCut
  PROVE  InstallInv'
<1> USE DEF InstallInv, table, Go
<1>0. /\ at \in [Tasks -> Places] /\ Loop \in Tasks /\ Worker \in Tasks /\ Loop # Worker
      /\ at[Worker] # "off" => at[Loop] \notin Busy
      /\ Len(slots) \in Nat /\ count \in 0..Len(slots) /\ slots \in Seq(Entry)
  BY LenProperties
     DEF TurnInv, FlagType, Turns, TableInv, TableType, Tasks, Busy, Loop, Worker
<1> DEFINE e == slots[cur]
<1>1. ASSUME cur \in 1..Len(slots)
      PROVE  e \in Entry /\ e.id \in Assets /\ e.ver \in Versions /\ FilesOf(e) \in Seq(File)
  <2>1. e \in Entry BY <1>0, <1>1, ElementOfSeq
  <2> QED BY <1>1, <2>1, FilesAreFiles DEF Entry
<1>2. CASE RunRemove
  <2>1. cur \in 1..Len(slots)
    BY <1>2 DEF RunRemove, PickInv
  <2>2. /\ UNCHANGED <<slots, queue, rest>> /\ cur' = 0 /\ ~detail' /\ at'[Loop] = "service"
    BY <1>0, <1>2 DEF RunRemove, Turn
  <2>3. [f \in DOMAIN disk[e.id] |->
           IF \E r \in ToSet(FilesOf(e)) : r.file = f THEN None ELSE disk[e.id][f]]
          \in [1..Width(e.id) -> File \union {None}]
    BY <1>1, <2>1 DEF InstallType
  <2>4. InstallType'
    <3>1. /\ marker' \in [Assets -> Versions \union {None}] /\ DOMAIN disk' = Assets
          /\ (\A b \in Assets : disk[b] \in [1..Width(b) -> File \union {None}])'
      BY <1>1, <1>2, <2>1, <2>3, FlashType DEF RunRemove, Persist
    <3> QED BY <1>0, <2>2, <3>1 DEF InstallType
  <2> QED BY <1>0, <2>2, <2>4 DEF PickInv, FetchInv, Busy
<1>3. CASE Install
  <2>1. cur \in 1..Len(slots) /\ at[Loop] = "install"
    BY <1>3 DEF Install, PickInv, Busy
  <2>2. UNCHANGED <<slots, count, queue, disk>>
    BY <1>3 DEF Install
  <2>3. CASE Done /\ UNCHANGED rest /\ (UNCHANGED marker \/ Persist(e.id, e.ver))
    <3>1. /\ at'[Loop] \notin {"hold", "install", "file"}
          /\ (UNCHANGED cur /\ UNCHANGED detail) \/ (cur' = 0 /\ ~detail')
      BY <1>0, <2>1, <2>3 DEF Done, Release
    <3>2. marker' \in [Assets -> Versions \union {None}]
      BY <1>1, <2>1, <2>3 DEF InstallType, Persist
    <3> QED BY <1>0, <2>2, <2>3, <3>1, <3>2 DEF InstallType, PickInv, FetchInv, Busy
  <2>4. CASE rest' = FilesOf(e) /\ Go(Loop, "file")
             /\ UNCHANGED <<marker, installing, batch, detail, cur>>
    <3>1. InstallType' /\ PickInv'
      BY <1>0, <1>1, <2>1, <2>2, <2>4 DEF InstallType, PickInv, Busy
    <3>2. FetchInv'
      <4>1. SUFFICES ASSUME cur <= count PROVE Arrived(e)'
        BY <2>2, <2>4 DEF FetchInv
      <4>2. cur \in 1..count
        BY <1>0, <2>1, <4>1
      <4>3. /\ DOMAIN FilesOf(e) = 1..Width(e.id)
            /\ \A f \in 1..Width(e.id) : FilesOf(e)[f] = Record(e.id, e.ver, f)
        BY <4>2, FilesOfEntry
      <4>4. /\ \A f \in 1..Width(e.id) : Record(e.id, e.ver, f) \in ToSet(FilesOf(e))
            /\ \A r \in ToSet(FilesOf(e)) : r = Record(e.id, e.ver, r.file)
        <5>1. ToSet(FilesOf(e)) = {FilesOf(e)[f] : f \in 1..Width(e.id)}
          BY <4>3 DEF ToSet
        <5>2. \A f \in 1..Width(e.id) :
                Record(e.id, e.ver, f) = Record(e.id, e.ver, Record(e.id, e.ver, f).file)
          BY DEF Record
        <5>3. ASSUME NEW r \in ToSet(FilesOf(e)) PROVE r = Record(e.id, e.ver, r.file)
          <6>1. PICK f \in 1..Width(e.id) : r = FilesOf(e)[f]
            BY <5>1, <5>3
          <6> QED BY <4>3, <5>2, <6>1
        <5>4. \A f \in 1..Width(e.id) : Record(e.id, e.ver, f) \in ToSet(FilesOf(e))
          BY <4>3, <5>1
        <5> QED BY <5>3, <5>4
      <4>5. rest' = FilesOf(e) /\ e' = e
        BY <2>2, <2>4
      <4> QED BY <4>4, <4>5 DEF Arrived
    <3> QED BY <3>1, <3>2
  <2> QED BY <1>3, <2>3, <2>4 DEF Install
<1>4. CASE InstallDone
  <2>1. cur \in 1..Len(slots) /\ at[Loop] = "file"
    BY <1>4 DEF InstallDone, PickInv, Busy
  <2>2. /\ UNCHANGED <<slots, count, queue, rest, disk>>
        /\ at'[Loop] \notin {"hold", "install", "file"}
        /\ (UNCHANGED cur /\ UNCHANGED detail) \/ (cur' = 0 /\ ~detail')
    BY <1>0, <1>4, <2>1 DEF InstallDone, Done, Release
  <2>3. marker' \in [Assets -> Versions \union {None}]
    BY <1>1, <1>4, <2>1 DEF InstallDone, InstallType, Persist
  <2> QED BY <1>0, <2>2, <2>3 DEF InstallType, PickInv, FetchInv, Busy
<1>5. ASSUME NEW t \in Tasks, Adopt(t) PROVE InstallInv'
  <2>1. marker' \in [Assets -> Versions \union {None}]
    <3>1. \A x \in Entries : x.ver \in Versions
      <4>1. \A i \in 1..count : slots[i] \in Entry
        BY <1>0, ElementOfSeq
      <4> QED BY <4>1 DEF Entries, Entry
    <3>2. ASSUME NEW a \in Assets, \E x \in Entries : x.id = a /\ DestFullyPresent(x)
          PROVE  (CHOOSE x \in Entries : x.id = a /\ DestFullyPresent(x)).ver \in Versions
      <4>1. (CHOOSE x \in Entries : x.id = a /\ DestFullyPresent(x)) \in Entries
        BY <3>2, Zenon
      <4> QED BY <3>1, <4>1
    <3>3. \A a \in Assets : Adopted[a] \in Versions \union {None}
      BY <3>2 DEF Adopted, InstallType
    <3>4. Adopted \in [Assets -> Versions \union {None}]
      <4>1. Adopted = [a \in Assets |-> Adopted[a]]
        BY DEF Adopted
      <4> QED BY <3>3, <4>1
    <3>5. marker' = Adopted \/ \E a \in Assets : marker' = [Adopted EXCEPT ![a] = marker[a]]
      BY <1>5 DEF Adopt
    <3> QED BY <3>4, <3>5 DEF InstallType
  <2>2. UNCHANGED <<cur, queue, rest, disk, slots, count, detail, batch>>
    BY <1>5 DEF Adopt, screens
  <2>3. \/ at'[Loop] \notin {"hold", "install", "file"}
        \/ at'[Loop] = at[Loop] /\ at[Loop] \notin Busy
    <3>0. at' = [at EXCEPT ![t] = "end"] /\ at[t] = "fill"
      BY <1>5 DEF Adopt
    <3>1. CASE t = Loop
      <4>1. at'[Loop] = "end"
        BY <1>0, <3>0, <3>1
      <4> QED BY <4>1
    <3>2. CASE t = Worker
      BY <1>0, <3>0, <3>2
    <3> QED BY <3>1, <3>2 DEF Tasks
  <2> QED BY <1>0, <2>1, <2>2, <2>3 DEF InstallType, PickInv, FetchInv, Busy
<1>6. CASE PowerCut
  <2>1. /\ cur' = 0 /\ ~detail' /\ ~batch' /\ queue' = {} /\ rest' = <<>> /\ slots' = <<>>
        /\ UNCHANGED marker /\ at' = Booted
    BY <1>6 DEF PowerCut
  <2>2. DOMAIN disk' = Assets
        /\ (\A a \in Assets : disk[a] \in [1..Width(a) -> File \union {None}])'
    <3>1. CASE UNCHANGED disk
      BY <3>1 DEF InstallType
    <3>2. CASE /\ at[Loop] = "file" /\ rest # <<>>
               /\ disk' = [disk EXCEPT ![e.id] =
                      [f \in DOMAIN @ |-> IF f = Head(rest).file THEN None ELSE @[f]]]
      <4>1. cur \in 1..Len(slots)
        BY <3>2 DEF PickInv, Busy
      <4>2. Head(rest) \in File
        BY <3>2, HeadTailProperties DEF InstallType
      <4> QED BY <1>1, <2>1, <3>2, <4>1, <4>2, OneFileChanges, FlashType
    <3> QED BY <1>6, <3>1, <3>2 DEF PowerCut
  <2>3. at'[Loop] = "service"
    BY <2>1, BootedFacts
  <2>4. InstallType'
    BY <2>1, <2>2 DEF InstallType
  <2> QED BY <2>1, <2>3, <2>4 DEF PickInv, FetchInv, Busy
<1> QED
  BY <1>2, <1>3, <1>4, <1>5, <1>6

LEMMA InstallHolds == Spec => []InstallInv
<1>1. TurnInv /\ TableInv /\ InstallInv /\ [Next]_vars => InstallInv'
  BY AsideStep, ChoiceStep, InstallFileStep, RecordingStep, NextIsSteps DEF Steps
<1> QED
  BY TurnHolds, TableHolds, InstallInit, <1>1, PTL DEF Spec

(***************************************************************************)
(* Every variable keeps its type: the pointers stay in the tables, the     *)
(* flash and the NVS hold what a catalogue can say.                        *)
(***************************************************************************)
THEOREM TypeCorrect == Spec => []TypeOK
<1> DEFINE Bounded == kicks \in 0..MaxKicks /\ events \in 0..MaxEvents
<1>1. Init => Bounded
  BY CatalogueAssumption DEF Init
<1>2. Bounded /\ [Next]_vars => Bounded'
  <2> SUFFICES ASSUME Bounded, [Next]_vars PROVE Bounded'
    OBVIOUS
  <2> USE CatalogueAssumption DEF bounds
  <2>1. CASE DoRefresh
    BY <2>1 DEF DoRefresh
  <2>2. CASE Publish \/ PowerCut
    BY <2>2 DEF Publish, PowerCut
  <2>3. CASE Service \/ NoInput \/ (\E i \in 1..count : Select(i)) \/ Back
    BY <2>3 DEF Service, NoInput, Select, Back
  <2>8. CASE RunRemove
    <3>1. UNCHANGED kicks /\ (NvsOpens \/ NvsFails)
      BY <2>8 DEF RunRemove, Persist
    <3> QED BY <3>1 DEF NvsOpens, NvsFails
  <2>4. CASE RunInstall \/ DownloadAll \/ Waited \/ Hold \/ HoldTimeout \/ NextPending
    BY <2>4 DEF RunInstall, DownloadAll, Waited, Hold, HoldTimeout, NextPending
  <2>5. CASE Install \/ InstallFile \/ InstallDone \/ CheckEnds \/ WifiChanges
    BY <2>5 DEF Install, InstallFile, InstallDone, CheckEnds, WifiChanges, Persist,
                NvsOpens, NvsFails
  <2>6. CASE \E t \in Tasks : Start(t) \/ Get(t) \/ Fill(t) \/ Adopt(t) \/ End(t)
    BY <2>6 DEF Start, Get, Fill, Adopt, End, NvsOpens, NvsFails
  <2>7. CASE UNCHANGED vars
    BY <2>7 DEF vars
  <2> QED BY <2>1, <2>2, <2>3, <2>4, <2>5, <2>6, <2>7, <2>8, NextIsSteps DEF Steps
<1>3. TurnInv /\ TableInv /\ InstallInv /\ Bounded => TypeOK
  BY DEF TurnInv, TableInv, InstallInv, TypeOK
<1> QED
  BY TurnHolds, TableHolds, InstallHolds, <1>1, <1>2, <1>3, PTL DEF Spec

\* What a step that records v for a finds of each file, as OldOnlyBySize says.
Told(a, v) ==
  \A f \in 1..Width(a) :
    \/ disk'[a][f] = Record(a, v, f)
    \/ at[Loop] # "file" /\ <<a, f>> \notin Sized /\ disk'[a][f] # None

Recorded(a) ==
  /\ marker'[a] # marker[a] /\ marker'[a] # None
  /\ at[Loop] \notin Busy \/ cur <= count
  => Told(a, marker'[a])

LEMMA MarkersKept ==
  ASSUME [Next]_vars
  PROVE  \/ UNCHANGED marker \/ RunRemove \/ Install \/ InstallDone
         \/ \E t \in Tasks : Adopt(t)
<1> USE DEF stored
<1>1. CASE Service \/ NoInput \/ DoRefresh \/ (\E i \in 1..count : Select(i)) \/ Back
  BY <1>1 DEF Service, NoInput, DoRefresh, Select, Back
<1>2. CASE RunInstall \/ DownloadAll \/ Waited \/ Hold \/ HoldTimeout \/ NextPending
  BY <1>2 DEF RunInstall, DownloadAll, Waited, Hold, HoldTimeout, NextPending
<1>3. CASE InstallFile \/ CheckEnds \/ WifiChanges \/ Publish \/ PowerCut
  BY <1>3 DEF InstallFile, CheckEnds, WifiChanges, Publish, PowerCut
<1>4. CASE \E t \in Tasks : Start(t) \/ Get(t) \/ Fill(t) \/ End(t)
  BY <1>4 DEF Start, Get, Fill, End
<1>5. CASE UNCHANGED vars
  BY <1>5 DEF vars
<1> QED
  BY <1>1, <1>2, <1>3, <1>4, <1>5, NextIsSteps DEF Steps

LEMMA RecordedStep ==
  ASSUME TurnInv, TableInv, InstallInv, [Next]_vars, NEW a \in Assets
  PROVE  Recorded(a)
<1> DEFINE e == slots[cur]
<1>1. CASE UNCHANGED marker
  BY <1>1 DEF Recorded
<1>2. CASE RunRemove
  <2>1. marker' \in {marker, [marker EXCEPT ![e.id] = None]}
    BY <1>2 DEF RunRemove, Persist
  <2> QED BY <2>1 DEF Recorded, InstallInv, InstallType
<1>3. ASSUME Install \/ InstallDone, cur <= count, marker'[a] # marker[a]
      PROVE  Told(a, marker'[a])
  <2>1. at[Loop] \in Busy /\ cur \in 1..count /\ UNCHANGED disk
    <3>1. at[Loop] \in Busy /\ UNCHANGED disk
      BY <1>3 DEF Install, InstallDone, Busy
    <3>2. cur \in 1..Len(slots) /\ Len(slots) \in Nat /\ count \in 0..Len(slots)
      BY <3>1, LenProperties DEF InstallInv, PickInv, TableInv, TableType
    <3> QED BY <1>3, <3>1, <3>2
  <2>2. marker' \in {marker, [marker EXCEPT ![e.id] = e.ver]}
    BY <1>3 DEF Install, InstallDone, Persist
  <2>3. a = e.id /\ marker'[a] = e.ver
    BY <1>3, <2>2 DEF InstallInv, InstallType
  <2>4. CASE Install
    <3>1. DestFullyPresent(e) /\ at[Loop] # "file"
      BY <1>3, <2>4 DEF Install
    <3> QED BY <2>1, <2>3, <3>1, PresentIsThere DEF Told
  <2>5. CASE InstallDone
    <3>1. rest = <<>> /\ Arrived(e)
      BY <1>3, <2>5 DEF InstallDone, InstallInv, FetchInv
    <3>2. ToSet(rest) = {}
      BY <3>1 DEF ToSet
    <3> QED BY <2>1, <2>3, <3>1, <3>2 DEF Arrived, Told
  <2> QED BY <1>3, <2>4, <2>5
<1>4. ASSUME NEW t \in Tasks, Adopt(t), marker'[a] # marker[a]
      PROVE  Told(a, marker'[a])
  <2>0. at[Loop] # "file"
    BY <1>4 DEF Adopt, TurnInv, Turns, Tasks
  <2>1. marker'[a] = Adopted[a] /\ UNCHANGED disk
    BY <1>4 DEF Adopt, Adopted
  <2>2. \E x \in Entries : x.id = a /\ DestFullyPresent(x)
    BY <1>4, <2>1 DEF Adopted
  <2>3. PICK x \in Entries : x.id = a /\ DestFullyPresent(x) /\ marker'[a] = x.ver
    <3> DEFINE x == CHOOSE y \in Entries : y.id = a /\ DestFullyPresent(y)
    <3>1. x \in Entries /\ x.id = a /\ DestFullyPresent(x)
      BY <2>2, Zenon
    <3>2. marker'[a] = x.ver
      BY <1>4, <2>1 DEF Adopted
    <3> QED BY <3>1, <3>2
  <2>4. PICK i \in 1..count : x = slots[i]
    BY <2>3 DEF Entries
  <2> QED BY <2>0, <2>1, <2>3, <2>4, PresentIsThere DEF Told
<1>5. CASE Install \/ InstallDone
  <2>1. at[Loop] \in Busy
    BY <1>5 DEF Install, InstallDone, Busy
  <2> QED BY <1>3, <1>5, <2>1 DEF Recorded
<1>6. ASSUME NEW t \in Tasks, Adopt(t) PROVE Recorded(a)
  BY <1>4, <1>6 DEF Recorded
<1> QED
  BY <1>1, <1>2, <1>5, <1>6, MarkersKept

(***************************************************************************)
(* A version recorded as installed, of an entry that is still in the       *)
(* table, is that of every file that was fetched, and of every file that a *)
(* size can tell; the others are there.                                    *)
(***************************************************************************)
THEOREM RecordsAreTrue == Spec => OldOnlyBySize
<1>1. TurnInv /\ TableInv /\ InstallInv /\ [Next]_vars => \A a \in Assets : Recorded(a)
  BY RecordedStep
<1>2. (\A a \in Assets : Recorded(a)) =>
        (\A a \in Assets :
           /\ marker'[a] # marker[a] /\ marker'[a] # None
           /\ at[Loop] \notin {"install", "file"} \/ cur <= count
           => \A f \in 1..Width(a) :
                \/ disk'[a][f] = Record(a, marker'[a], f)
                \/ /\ at[Loop] # "file" /\ <<a, f>> \notin Sized
                   /\ disk'[a][f] # None)
  BY DEF Recorded, Told, Busy
<1> QED
  BY TurnHolds, TableHolds, InstallHolds, <1>1, <1>2, PTL DEF Spec, OldOnlyBySize
=============================================================================
