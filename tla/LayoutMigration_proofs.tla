---------------------- MODULE LayoutMigration_proofs ----------------------
(* Proofs about LayoutMigration, for any number of resets. *)
EXTENDS LayoutMigration, TLAPS

(* Next as one list of actions. *)
Steps ==
  \/ BootLoader \/ Begin \/ Restore \/ Record
  \/ Erase \/ AllocWriteBuf \/ Write \/ Verify \/ UndoErase \/ UndoWrite
  \/ WritePreferredLayout \/ ArmAndRestart
  \/ InstallFails \/ InstallEnds \/ InstallRestarts \/ MarkValid
  \/ OnEnter \/ Dismiss \/ Close \/ RunLayoutMigration \/ RunInstall
  \/ Panic \/ PowerCut
  \/ \E l \in Layouts, erase \in BOOLEAN : UsbFlash(l, erase)

LEMMA NextIsSteps == Next <=> Steps
  BY DEF Next, Steps, Program, User, Environment

LEMMA LandedInSector ==
  ASSUME NEW d \in SectorValues PROVE Landed(d) \in SectorValues
  BY DEF Landed, SectorValues

LEMMA TypeInit == Init => TypeOK
<1> HAVE Init
<1>1. FlashType BY DEF Init, FlashType, SectorValues, Layouts
<1>2. PlaceType BY DEF Init, PlaceType, Booting
<1>3. FlagType BY DEF Init, FlagType
<1>4. NumberType
  <2>1. otadata = 0 /\ running = 0 /\ faults = 0 /\ resets = 0
    BY DEF Init
  <2> QED
    BY <2>1, ResetsAssumption DEF NumberType
<1> QED BY <1>1, <1>2, <1>3, <1>4 DEF TypeOK

\* A counted reset stays within the bound.
LEMMA ResetCounts ==
  ASSUME resets \in 0..MaxResets, Reset PROVE resets' \in 0..MaxResets
  BY ResetsAssumption DEF Reset

\* Where the badge and the screen are.
LEMMA PlaceStep ==
  ASSUME PlaceType, [Next]_vars
  PROVE  PlaceType'
<1> USE DEF PlaceType, Booting, Window, flash, nvs, boot, call, latches, ui
<1>1. CASE BootLoader
  BY <1>1 DEF BootLoader
<1>3. CASE Begin
  BY <1>3 DEF Begin
<1>4. CASE Restore
  BY <1>4 DEF Restore, Enter
<1>5. CASE Record
  BY <1>5 DEF Record
<1>6. CASE Erase
  BY <1>6 DEF Erase, Leave, Back, SectorOnly
<1>7. CASE AllocWriteBuf
  BY <1>7 DEF AllocWriteBuf, SectorOnly
<1>8. CASE Write
  BY <1>8 DEF Write, SectorOnly
<1>9. CASE Verify
  BY <1>9 DEF Verify, SectorOnly
<1>10. CASE UndoErase
  BY <1>10 DEF UndoErase, SectorOnly
<1>11. CASE UndoWrite
  BY <1>11 DEF UndoWrite, Leave, Back, SectorOnly
<1>12. CASE WritePreferredLayout
  BY <1>12 DEF WritePreferredLayout
<1>13. CASE ArmAndRestart
  BY <1>13 DEF ArmAndRestart, ClearRam
<1>14. CASE InstallFails
  BY <1>14 DEF InstallFails
<1>15. CASE InstallEnds
  BY <1>15 DEF InstallEnds
<1>16. CASE InstallRestarts
  BY <1>16 DEF InstallRestarts, WarmReset, ClearRam
<1>17. CASE MarkValid
  BY <1>17 DEF MarkValid
<1>18. CASE OnEnter
  BY <1>18 DEF OnEnter
<1>19. CASE Dismiss
  BY <1>19 DEF Dismiss
<1>20. CASE Close
  BY <1>20 DEF Close
<1>21. CASE RunLayoutMigration
  BY <1>21 DEF RunLayoutMigration, Enter
<1>22. CASE RunInstall
  BY <1>22 DEF RunInstall
<1>23. CASE Panic
  BY <1>23 DEF Panic, WarmReset, ClearRam
<1>24. CASE PowerCut
  BY <1>24 DEF PowerCut, ClearRam
<1>25. ASSUME NEW l \in Layouts, NEW erase \in BOOLEAN, UsbFlash(l, erase)
       PROVE  PlaceType'
  BY <1>25 DEF UsbFlash, ClearRam
<1>26. CASE UNCHANGED vars
  BY <1>26 DEF vars
<1> QED
  BY <1>1, <1>3, <1>4, <1>5, <1>6, <1>7, <1>8, <1>9, <1>10, <1>11, <1>12,
     <1>13, <1>14, <1>15, <1>16, <1>17, <1>18, <1>19, <1>20, <1>21, <1>22, <1>23,
     <1>24, <1>25, <1>26, NextIsSteps DEF Steps

\* The flags are Booleans.
LEMMA FlagStep ==
  ASSUME FlagType, [Next]_vars
  PROVE  FlagType'
<1> USE DEF FlagType, flash, nvs, boot, call, latches, ui
<1>1. CASE BootLoader
  BY <1>1 DEF BootLoader
<1>3. CASE Begin
  BY <1>3 DEF Begin
<1>4. CASE Restore
  BY <1>4, ZenonT(60) DEF Restore, Enter
<1>5. CASE Record
  BY <1>5 DEF Record
<1>6. CASE Erase
  BY <1>6, ZenonT(60) DEF Erase, Leave, Back, SectorOnly
<1>7. CASE AllocWriteBuf
  BY <1>7 DEF AllocWriteBuf, SectorOnly
<1>8. CASE Write
  BY <1>8 DEF Write, SectorOnly
<1>9. CASE Verify
  BY <1>9, ZenonT(60) DEF Verify, SectorOnly
<1>10. CASE UndoErase
  BY <1>10 DEF UndoErase, SectorOnly
<1>11. CASE UndoWrite
  BY <1>11 DEF UndoWrite, Leave, Back, SectorOnly
<1>12. CASE WritePreferredLayout
  BY <1>12 DEF WritePreferredLayout
<1>13. CASE ArmAndRestart
  BY <1>13 DEF ArmAndRestart, ClearRam
<1>14. CASE InstallFails
  BY <1>14 DEF InstallFails
<1>15. CASE InstallEnds
  BY <1>15 DEF InstallEnds
<1>16. CASE InstallRestarts
  BY <1>16 DEF InstallRestarts, WarmReset, ClearRam
<1>17. CASE MarkValid
  BY <1>17 DEF MarkValid
<1>18. CASE OnEnter
  BY <1>18 DEF OnEnter
<1>19. CASE Dismiss
  BY <1>19 DEF Dismiss
<1>20. CASE Close
  BY <1>20 DEF Close
<1>21. CASE RunLayoutMigration
  BY <1>21 DEF RunLayoutMigration, Enter
<1>22. CASE RunInstall
  BY <1>22 DEF RunInstall
<1>23. CASE Panic
  BY <1>23 DEF Panic, WarmReset, ClearRam
<1>24. CASE PowerCut
  BY <1>24 DEF PowerCut, ClearRam
<1>25. ASSUME NEW l \in Layouts, NEW erase \in BOOLEAN, UsbFlash(l, erase)
       PROVE  FlagType'
  BY <1>25 DEF UsbFlash, ClearRam
<1>26. CASE UNCHANGED vars
  BY <1>26 DEF vars
<1> QED
  BY <1>1, <1>3, <1>4, <1>5, <1>6, <1>7, <1>8, <1>9, <1>10, <1>11, <1>12,
     <1>13, <1>14, <1>15, <1>16, <1>17, <1>18, <1>19, <1>20, <1>21, <1>22, <1>23,
     <1>24, <1>25, <1>26, NextIsSteps DEF Steps

\* What flash and NVS hold.
LEMMA FlashStep ==
  ASSUME FlashType, [Next]_vars
  PROVE  FlashType'
<1> USE DEF FlashType, SectorValues, Layouts, Whole, Landed, EraseSector,
            WriteSector, flash, nvs, boot, call, latches, ui
<1>1. CASE BootLoader
  BY <1>1, ZenonT(60) DEF BootLoader
<1>3. CASE Begin
  BY <1>3 DEF Begin
<1>4. CASE Restore
  BY <1>4 DEF Restore, Enter
<1>5. CASE Record
  BY <1>5, ZenonT(60) DEF Record
<1>6. CASE Erase
  BY <1>6 DEF Erase, Leave, Back, SectorOnly
<1>7. CASE AllocWriteBuf
  BY <1>7 DEF AllocWriteBuf, SectorOnly
<1>8. CASE Write
  BY <1>8 DEF Write, SectorOnly
<1>9. CASE Verify
  BY <1>9 DEF Verify, SectorOnly
<1>10. CASE UndoErase
  BY <1>10 DEF UndoErase, SectorOnly
<1>11. CASE UndoWrite
  BY <1>11 DEF UndoWrite, Leave, Back, SectorOnly
<1>12. CASE WritePreferredLayout
  BY <1>12, ZenonT(60) DEF WritePreferredLayout
<1>13. CASE ArmAndRestart
  BY <1>13 DEF ArmAndRestart, ClearRam
<1>14. CASE InstallFails
  BY <1>14 DEF InstallFails
<1>15. CASE InstallEnds
  BY <1>15 DEF InstallEnds
<1>16. CASE InstallRestarts
  BY <1>16 DEF InstallRestarts, WarmReset, ClearRam
<1>17. CASE MarkValid
  BY <1>17 DEF MarkValid
<1>18. CASE OnEnter
  BY <1>18 DEF OnEnter
<1>19. CASE Dismiss
  BY <1>19 DEF Dismiss
<1>20. CASE Close
  BY <1>20 DEF Close
<1>21. CASE RunLayoutMigration
  BY <1>21 DEF RunLayoutMigration, Enter
<1>22. CASE RunInstall
  BY <1>22 DEF RunInstall
<1>23. CASE Panic
  BY <1>23 DEF Panic, WarmReset, ClearRam
<1>24. CASE PowerCut
  BY <1>24 DEF PowerCut, ClearRam
<1>25. ASSUME NEW l \in Layouts, NEW erase \in BOOLEAN, UsbFlash(l, erase)
       PROVE  FlashType'
  BY <1>25 DEF UsbFlash, ClearRam
<1>26. CASE UNCHANGED vars
  BY <1>26 DEF vars
<1> QED
  BY <1>1, <1>3, <1>4, <1>5, <1>6, <1>7, <1>8, <1>9, <1>10, <1>11, <1>12,
     <1>13, <1>14, <1>15, <1>16, <1>17, <1>18, <1>19, <1>20, <1>21, <1>22, <1>23,
     <1>24, <1>25, <1>26, NextIsSteps DEF Steps

\* The slots and the counters.
LEMMA NumberStep ==
  ASSUME NumberType, [Next]_vars
  PROVE  NumberType'
<1> USE DEF NumberType, Failed, Sound, EraseSector, WriteSector, flash, nvs, boot,
            call, latches, ui
<1>1. CASE BootLoader
  BY <1>1 DEF BootLoader
<1>3. CASE Begin
  BY <1>3 DEF Begin
<1>4. CASE Restore
  BY <1>4 DEF Restore, Enter
<1>5. CASE Record
  BY <1>5 DEF Record
<1>6. CASE Erase
  BY <1>6 DEF Erase, Leave, Back, SectorOnly
<1>7. CASE AllocWriteBuf
  BY <1>7 DEF AllocWriteBuf, SectorOnly
<1>8. CASE Write
  BY <1>8 DEF Write, SectorOnly
<1>9. CASE Verify
  BY <1>9 DEF Verify, SectorOnly
<1>10. CASE UndoErase
  BY <1>10 DEF UndoErase, SectorOnly
<1>11. CASE UndoWrite
  BY <1>11 DEF UndoWrite, Leave, Back, SectorOnly
<1>12. CASE WritePreferredLayout
  BY <1>12 DEF WritePreferredLayout
<1>13. CASE ArmAndRestart
  BY <1>13 DEF ArmAndRestart, ClearRam
<1>14. CASE InstallFails
  BY <1>14 DEF InstallFails
<1>15. CASE InstallEnds
  BY <1>15 DEF InstallEnds
<1>16. CASE InstallRestarts
  BY <1>16 DEF InstallRestarts, WarmReset, ClearRam
<1>17. CASE MarkValid
  BY <1>17 DEF MarkValid
<1>18. CASE OnEnter
  BY <1>18 DEF OnEnter
<1>19. CASE Dismiss
  BY <1>19 DEF Dismiss
<1>20. CASE Close
  BY <1>20 DEF Close
<1>21. CASE RunLayoutMigration
  BY <1>21 DEF RunLayoutMigration, Enter
<1>22. CASE RunInstall
  BY <1>22 DEF RunInstall
<1>23. CASE Panic
  <2>1. Reset /\ faults' = 0 /\ UNCHANGED <<otadata, running>>
    BY <1>23 DEF Panic, WarmReset, ClearRam
  <2> QED
    BY <2>1, ResetCounts DEF NumberType
<1>24. CASE PowerCut
  <2>1. Reset /\ faults' = 0 /\ UNCHANGED <<otadata, running>>
    BY <1>24 DEF PowerCut, ClearRam
  <2> QED
    BY <2>1, ResetCounts DEF NumberType
<1>25. ASSUME NEW l \in Layouts, NEW erase \in BOOLEAN, UsbFlash(l, erase)
       PROVE  NumberType'
  <2>1. Reset /\ faults' = 0 /\ otadata' = 0 /\ UNCHANGED running
    BY <1>25 DEF UsbFlash, ClearRam
  <2> QED
    BY <2>1, ResetCounts DEF NumberType
<1>26. CASE UNCHANGED vars
  BY <1>26 DEF vars
<1> QED
  BY <1>1, <1>3, <1>4, <1>5, <1>6, <1>7, <1>8, <1>9, <1>10, <1>11, <1>12,
     <1>13, <1>14, <1>15, <1>16, <1>17, <1>18, <1>19, <1>20, <1>21, <1>22, <1>23,
     <1>24, <1>25, <1>26, NextIsSteps DEF Steps

\* The state of the migration, the boot and the screen stays within its types.
THEOREM TypeCorrect == Spec => []TypeOK
<1>1. Init => TypeOK
  BY TypeInit
<1>2. TypeOK /\ [Next]_vars => TypeOK'
  BY PlaceStep, FlagStep, FlashStep, NumberStep DEF TypeOK
<1> QED
  BY <1>1, <1>2, PTL DEF Spec

-----------------------------------------------------------------------------
(* A badge that is awake has the image it runs from, at the address the table
   it loaded gives it.  The table in flash differs from the loaded one only
   when the badge runs from app0, which lies at the same place under both.    *)
RunsFromWhole ==
  /\ pc \in Awake /\ running = 0 => image0
  /\ pc \in Awake /\ running = 1 => slot1 = table /\ (Whole(sector) => sector = table)
  /\ pc \in Window \union {"pref", "arm"} => running = 0

StrandInv == RunsFromWhole /\ NeverStranded

\* The two are inductive together.
LEMMA StrandStep ==
  ASSUME StrandInv, TypeOK, [Next]_vars
  PROVE  StrandInv'
<1> USE DEF StrandInv, RunsFromWhole, NeverStranded, Boots, Awake, Booting, Window,
            flash, nvs, boot, call, latches, ui
<1>1. CASE BootLoader
  <2>1. UNCHANGED <<sector, image0, slot1>> /\ pc' \in {"begin", "dead"}
    BY <1>1 DEF BootLoader
  <2>2. ASSUME pc' = "begin"
        PROVE  /\ table' = sector
               /\ running' = 0 => image0
               /\ running' = 1 => slot1 = sector
    <3>1. otadata' \in {0, 1}
      BY <1>1 DEF BootLoader, TypeOK, NumberType
    <3>2. Boots(sector) /\ table' = sector
          /\ running' = IF Found(otadata') THEN otadata' ELSE 1 - otadata'
      BY <1>1, <2>2 DEF BootLoader
    <3>3. CASE otadata' = 0
      BY <3>2, <3>3 DEF Found
    <3>4. CASE otadata' = 1
      BY <3>2, <3>4 DEF Found
    <3> QED
      BY <3>1, <3>2, <3>3, <3>4
  <2> QED
    BY <2>1, <2>2
<1>3. CASE Begin
  BY <1>3 DEF Begin
<1>4. CASE Restore
  BY <1>4 DEF Restore, Enter, Migratable
<1>5. CASE Record
  BY <1>5 DEF Record
<1>6. CASE Erase
  <2>1. image0 /\ running = 0
    BY <1>6 DEF Erase
  <2>2. image0' = image0 /\ running' = running /\ pc' \notin {"rom"}
    BY <1>6 DEF Erase, Leave, Back, SectorOnly
  <2> QED
    BY <2>1, <2>2
<1>7. CASE AllocWriteBuf
  BY <1>7 DEF AllocWriteBuf, SectorOnly
<1>8. CASE Write
  <2>1. image0 /\ running = 0
    BY <1>8 DEF Write
  <2>2. image0' = image0 /\ running' = running /\ pc' \notin {"rom"}
    BY <1>8 DEF Write, SectorOnly
  <2> QED
    BY <2>1, <2>2
<1>9. CASE Verify
  BY <1>9 DEF Verify, SectorOnly
<1>10. CASE UndoErase
  <2>1. image0 /\ running = 0
    BY <1>10 DEF UndoErase
  <2>2. image0' = image0 /\ running' = running /\ pc' \notin {"rom"}
    BY <1>10 DEF UndoErase, SectorOnly
  <2> QED
    BY <2>1, <2>2
<1>11. CASE UndoWrite
  <2>1. image0 /\ running = 0
    BY <1>11 DEF UndoWrite
  <2>2. image0' = image0 /\ running' = running /\ pc' \notin {"rom"}
    BY <1>11 DEF UndoWrite, Leave, Back, SectorOnly
  <2> QED
    BY <2>1, <2>2
<1>12. CASE WritePreferredLayout
  BY <1>12 DEF WritePreferredLayout
<1>13. CASE ArmAndRestart
  BY <1>13 DEF ArmAndRestart, ClearRam
<1>14. CASE InstallFails
  BY <1>14 DEF InstallFails
<1>15. CASE InstallEnds
  BY <1>15 DEF InstallEnds
<1>16. CASE InstallRestarts
  BY <1>16 DEF InstallRestarts, WarmReset, ClearRam
<1>17. CASE MarkValid
  BY <1>17 DEF MarkValid
<1>18. CASE OnEnter
  BY <1>18 DEF OnEnter
<1>19. CASE Dismiss
  BY <1>19 DEF Dismiss
<1>20. CASE Close
  BY <1>20 DEF Close
<1>21. CASE RunLayoutMigration
  BY <1>21 DEF RunLayoutMigration, Enter, Migratable
<1>22. CASE RunInstall
  <2>1. pc = "up" /\ pc' = "installing" /\ UNCHANGED <<sector, table, running>>
    BY <1>22 DEF RunInstall
  <2>2. CASE running = 0
    BY <1>22, <2>1, <2>2 DEF RunInstall
  <2>3. CASE running = 1
    BY <1>22, <2>1, <2>3 DEF RunInstall
  <2> QED
    BY <2>1, <2>2, <2>3 DEF TypeOK, NumberType
<1>23. CASE Panic
  BY <1>23 DEF Panic, WarmReset, ClearRam
<1>24. CASE PowerCut
  BY <1>24 DEF PowerCut, ClearRam, Whole, Layouts
<1>25. ASSUME NEW l \in Layouts, NEW erase \in BOOLEAN, UsbFlash(l, erase)
       PROVE  StrandInv'
  BY <1>25 DEF UsbFlash, ClearRam, Whole, Layouts
<1>26. CASE UNCHANGED vars
  BY <1>26 DEF vars
<1> QED
  BY <1>1, <1>3, <1>4, <1>5, <1>6, <1>7, <1>8, <1>9, <1>10, <1>11, <1>12,
     <1>13, <1>14, <1>15, <1>16, <1>17, <1>18, <1>19, <1>20, <1>21, <1>22, <1>23,
     <1>24, <1>25, <1>26, NextIsSteps DEF Steps

\* Whatever installs, flashes, rollbacks and migrations came before, and wherever the
\* power went, a whole table in flash is one under which some slot has a whole image.
THEOREM BadgeBoots == Spec => []NeverStranded
<1>1. Init => StrandInv
  BY DEF Init, StrandInv, RunsFromWhole, NeverStranded, Boots, Awake, Booting, Window
<1>2. StrandInv /\ TypeOK /\ [Next]_vars => StrandInv'
  BY StrandStep
<1> QED
  BY <1>1, <1>2, TypeCorrect, PTL DEF Spec, StrandInv

-----------------------------------------------------------------------------
(* What is known of the sector and of the failures at each step of the window. *)
WindowInv ==
  /\ pc = "erase" => faults = 0
  /\ pc \in {"alloc", "write"} => faults = 0 /\ sector = "blank"
  /\ pc = "verify" => (faults = 0 /\ sector = "ver2") \/ faults = 1
  /\ pc = "unerase" => faults > 0
  /\ pc = "unwrite" => faults > 0 /\ (faults = 1 => sector = "blank")
  /\ pc \in {"pref", "arm"} => sector = "ver2"

\* The window step by step.
LEMMA WindowStep ==
  ASSUME WindowInv, TypeOK, [Next]_vars
  PROVE  WindowInv'
<1> USE DEF WindowInv, Failed, Sound, EraseSector, WriteSector, Landed, TypeOK,
            NumberType, flash, nvs, boot, call, latches, ui
<1>1. CASE BootLoader
  BY <1>1 DEF BootLoader
<1>3. CASE Begin
  BY <1>3 DEF Begin
<1>4. CASE Restore
  BY <1>4 DEF Restore, Enter
<1>5. CASE Record
  BY <1>5 DEF Record
<1>6. CASE Erase
  BY <1>6 DEF Erase, Leave, Back, SectorOnly
<1>7. CASE AllocWriteBuf
  BY <1>7 DEF AllocWriteBuf, SectorOnly
<1>8. CASE Write
  BY <1>8 DEF Write, SectorOnly
<1>9. CASE Verify
  BY <1>9 DEF Verify, SectorOnly
<1>10. CASE UndoErase
  BY <1>10 DEF UndoErase, SectorOnly
<1>11. CASE UndoWrite
  BY <1>11 DEF UndoWrite, Leave, Back, SectorOnly
<1>12. CASE WritePreferredLayout
  BY <1>12 DEF WritePreferredLayout
<1>13. CASE ArmAndRestart
  BY <1>13 DEF ArmAndRestart, ClearRam
<1>14. CASE InstallFails
  BY <1>14 DEF InstallFails
<1>15. CASE InstallEnds
  BY <1>15 DEF InstallEnds
<1>16. CASE InstallRestarts
  BY <1>16 DEF InstallRestarts, WarmReset, ClearRam
<1>17. CASE MarkValid
  BY <1>17 DEF MarkValid
<1>18. CASE OnEnter
  BY <1>18 DEF OnEnter
<1>19. CASE Dismiss
  BY <1>19 DEF Dismiss
<1>20. CASE Close
  BY <1>20 DEF Close
<1>21. CASE RunLayoutMigration
  BY <1>21 DEF RunLayoutMigration, Enter
<1>22. CASE RunInstall
  BY <1>22 DEF RunInstall
<1>23. CASE Panic
  BY <1>23 DEF Panic, WarmReset, ClearRam
<1>24. CASE PowerCut
  BY <1>24 DEF PowerCut, ClearRam
<1>25. ASSUME NEW l \in Layouts, NEW erase \in BOOLEAN, UsbFlash(l, erase)
       PROVE  WindowInv'
  BY <1>25 DEF UsbFlash, ClearRam
<1>26. CASE UNCHANGED vars
  BY <1>26 DEF vars
<1> QED
  BY <1>1, <1>3, <1>4, <1>5, <1>6, <1>7, <1>8, <1>9, <1>10, <1>11, <1>12,
     <1>13, <1>14, <1>15, <1>16, <1>17, <1>18, <1>19, <1>20, <1>21, <1>22, <1>23,
     <1>24, <1>25, <1>26, NextIsSteps DEF Steps

\* Only the last write of a rollback leaves the window behind the erase.
LEMMA RollbackStep ==
  ASSUME WindowInv, TypeOK,
         pc \in Window \ {"erase"}, pc' \in {"up", "record"}, faults' <= 1, [Next]_vars
  PROVE  sector' = old
<1> USE DEF Window, flash, nvs, boot, call, latches, ui
<1>1. CASE BootLoader
  BY <1>1 DEF BootLoader
<1>3. CASE Begin
  BY <1>3 DEF Begin
<1>4. CASE Restore
  BY <1>4 DEF Restore, Enter
<1>5. CASE Record
  BY <1>5 DEF Record
<1>6. CASE Erase
  BY <1>6 DEF Erase, Leave, Back, SectorOnly
<1>7. CASE AllocWriteBuf
  BY <1>7 DEF AllocWriteBuf, SectorOnly
<1>8. CASE Write
  BY <1>8 DEF Write, SectorOnly
<1>9. CASE Verify
  BY <1>9 DEF Verify, SectorOnly
<1>10. CASE UndoErase
  BY <1>10 DEF UndoErase, SectorOnly
<1>11. CASE UndoWrite
  <2>1. faults = 1 /\ faults' = 1
    BY <1>11 DEF UndoWrite, WriteSector, Failed, Sound, WindowInv, TypeOK, NumberType
  <2>2. sector = "blank"
    BY <1>11, <2>1 DEF UndoWrite, WindowInv
  <2>3. sector' = Landed(old)
    BY <1>11, <2>1 DEF UndoWrite, WriteSector, Failed, Sound
  <2> QED
    BY <2>2, <2>3 DEF Landed
<1>12. CASE WritePreferredLayout
  BY <1>12 DEF WritePreferredLayout
<1>13. CASE ArmAndRestart
  BY <1>13 DEF ArmAndRestart, ClearRam
<1>14. CASE InstallFails
  BY <1>14 DEF InstallFails
<1>15. CASE InstallEnds
  BY <1>15 DEF InstallEnds
<1>16. CASE InstallRestarts
  BY <1>16 DEF InstallRestarts, WarmReset, ClearRam
<1>17. CASE MarkValid
  BY <1>17 DEF MarkValid
<1>18. CASE OnEnter
  BY <1>18 DEF OnEnter
<1>19. CASE Dismiss
  BY <1>19 DEF Dismiss
<1>20. CASE Close
  BY <1>20 DEF Close
<1>21. CASE RunLayoutMigration
  BY <1>21 DEF RunLayoutMigration, Enter
<1>22. CASE RunInstall
  BY <1>22 DEF RunInstall
<1>23. CASE Panic
  BY <1>23 DEF Panic, WarmReset, ClearRam
<1>24. CASE PowerCut
  BY <1>24 DEF PowerCut, ClearRam
<1>25. ASSUME NEW l \in Layouts, NEW erase \in BOOLEAN, UsbFlash(l, erase)
       PROVE  sector' = old
  BY <1>25 DEF UsbFlash, ClearRam
<1>26. CASE UNCHANGED vars
  BY <1>26 DEF vars
<1> QED
  BY <1>1, <1>3, <1>4, <1>5, <1>6, <1>7, <1>8, <1>9, <1>10, <1>11, <1>12,
     <1>13, <1>14, <1>15, <1>16, <1>17, <1>18, <1>19, <1>20, <1>21, <1>22, <1>23,
     <1>24, <1>25, <1>26, NextIsSteps DEF Steps

\* A call that one failed operation after the erase ends gives back the table it found.
THEOREM OneFailureRollsBack == Spec => RollsBack
<1>1. Init => WindowInv
  BY DEF Init, WindowInv
<1>2. WindowInv /\ TypeOK /\ [Next]_vars => WindowInv'
  BY WindowStep
<1>3. WindowInv /\ TypeOK /\ [Next]_vars =>
        [( /\ pc \in Window \ {"erase"} /\ pc' \in {"up", "record"}
           /\ faults' <= 1 )
         => sector' = old]_vars
  BY RollbackStep
<1> QED
  BY <1>1, <1>2, <1>3, TypeCorrect, PTL DEF Spec, RollsBack

\* The preference is written at one place only, behind the verification.
LEMMA PinStep ==
  ASSUME WindowInv, [Next]_vars
  PROVE  pref' # pref /\ pref' = "ver2" => sector = "ver2"
<1> USE DEF WindowInv, flash, nvs, boot, call, latches, ui
<1>1. CASE BootLoader
  BY <1>1 DEF BootLoader
<1>3. CASE Begin
  BY <1>3 DEF Begin
<1>4. CASE Restore
  BY <1>4 DEF Restore, Enter
<1>5. CASE Record
  BY <1>5 DEF Record
<1>6. CASE Erase
  BY <1>6 DEF Erase, Leave, Back, SectorOnly
<1>7. CASE AllocWriteBuf
  BY <1>7 DEF AllocWriteBuf, SectorOnly
<1>8. CASE Write
  BY <1>8 DEF Write, SectorOnly
<1>9. CASE Verify
  BY <1>9 DEF Verify, SectorOnly
<1>10. CASE UndoErase
  BY <1>10 DEF UndoErase, SectorOnly
<1>11. CASE UndoWrite
  BY <1>11 DEF UndoWrite, Leave, Back, SectorOnly
<1>12. CASE WritePreferredLayout
  BY <1>12 DEF WritePreferredLayout
<1>13. CASE ArmAndRestart
  BY <1>13 DEF ArmAndRestart, ClearRam
<1>14. CASE InstallFails
  BY <1>14 DEF InstallFails
<1>15. CASE InstallEnds
  BY <1>15 DEF InstallEnds
<1>16. CASE InstallRestarts
  BY <1>16 DEF InstallRestarts, WarmReset, ClearRam
<1>17. CASE MarkValid
  BY <1>17 DEF MarkValid
<1>18. CASE OnEnter
  BY <1>18 DEF OnEnter
<1>19. CASE Dismiss
  BY <1>19 DEF Dismiss
<1>20. CASE Close
  BY <1>20 DEF Close
<1>21. CASE RunLayoutMigration
  BY <1>21 DEF RunLayoutMigration, Enter
<1>22. CASE RunInstall
  BY <1>22 DEF RunInstall
<1>23. CASE Panic
  BY <1>23 DEF Panic, WarmReset, ClearRam
<1>24. CASE PowerCut
  BY <1>24 DEF PowerCut, ClearRam
<1>25. ASSUME NEW l \in Layouts, NEW erase \in BOOLEAN, UsbFlash(l, erase)
       PROVE  pref' # pref /\ pref' = "ver2" => sector = "ver2"
  BY <1>25 DEF UsbFlash, ClearRam
<1>26. CASE UNCHANGED vars
  BY <1>26 DEF vars
<1> QED
  BY <1>1, <1>3, <1>4, <1>5, <1>6, <1>7, <1>8, <1>9, <1>10, <1>11, <1>12,
     <1>13, <1>14, <1>15, <1>16, <1>17, <1>18, <1>19, <1>20, <1>21, <1>22, <1>23,
     <1>24, <1>25, <1>26, NextIsSteps DEF Steps

\* The preference is never pinned to a layout that is not in flash at that moment.
THEOREM PinnedIsThere == Spec => PinnedWhenThere
<1>1. Init => WindowInv
  BY DEF Init, WindowInv
<1>2. WindowInv /\ TypeOK /\ [Next]_vars => WindowInv'
  BY WindowStep
<1>3. WindowInv /\ [Next]_vars => [pref' # pref /\ pref' = "ver2" => sector = "ver2"]_vars
  BY PinStep
<1> QED
  BY <1>1, <1>2, <1>3, TypeCorrect, PTL DEF Spec, PinnedWhenThere

-----------------------------------------------------------------------------
\* The protection comes off on the way into the window and is on again on the way out.
LEMMA GuardStep ==
  ASSUME GuardedOutsideWindow, [Next]_vars
  PROVE  GuardedOutsideWindow'
<1> USE DEF GuardedOutsideWindow, Window, flash, nvs, boot, call, latches, ui
<1>1. CASE BootLoader
  BY <1>1 DEF BootLoader
<1>3. CASE Begin
  BY <1>3 DEF Begin
<1>4. CASE Restore
  BY <1>4 DEF Restore, Enter
<1>5. CASE Record
  BY <1>5 DEF Record
<1>6. CASE Erase
  BY <1>6 DEF Erase, Leave, Back, SectorOnly
<1>7. CASE AllocWriteBuf
  BY <1>7 DEF AllocWriteBuf, SectorOnly
<1>8. CASE Write
  BY <1>8 DEF Write, SectorOnly
<1>9. CASE Verify
  BY <1>9 DEF Verify, SectorOnly
<1>10. CASE UndoErase
  BY <1>10 DEF UndoErase, SectorOnly
<1>11. CASE UndoWrite
  BY <1>11 DEF UndoWrite, Leave, Back, SectorOnly
<1>12. CASE WritePreferredLayout
  BY <1>12 DEF WritePreferredLayout
<1>13. CASE ArmAndRestart
  BY <1>13 DEF ArmAndRestart, ClearRam
<1>14. CASE InstallFails
  BY <1>14 DEF InstallFails
<1>15. CASE InstallEnds
  BY <1>15 DEF InstallEnds
<1>16. CASE InstallRestarts
  BY <1>16 DEF InstallRestarts, WarmReset, ClearRam
<1>17. CASE MarkValid
  BY <1>17 DEF MarkValid
<1>18. CASE OnEnter
  BY <1>18 DEF OnEnter
<1>19. CASE Dismiss
  BY <1>19 DEF Dismiss
<1>20. CASE Close
  BY <1>20 DEF Close
<1>21. CASE RunLayoutMigration
  BY <1>21 DEF RunLayoutMigration, Enter
<1>22. CASE RunInstall
  BY <1>22 DEF RunInstall
<1>23. CASE Panic
  BY <1>23 DEF Panic, WarmReset, ClearRam
<1>24. CASE PowerCut
  BY <1>24 DEF PowerCut, ClearRam
<1>25. ASSUME NEW l \in Layouts, NEW erase \in BOOLEAN, UsbFlash(l, erase)
       PROVE  GuardedOutsideWindow'
  BY <1>25 DEF UsbFlash, ClearRam
<1>26. CASE UNCHANGED vars
  BY <1>26 DEF vars
<1> QED
  BY <1>1, <1>3, <1>4, <1>5, <1>6, <1>7, <1>8, <1>9, <1>10, <1>11, <1>12,
     <1>13, <1>14, <1>15, <1>16, <1>17, <1>18, <1>19, <1>20, <1>21, <1>22, <1>23,
     <1>24, <1>25, <1>26, NextIsSteps DEF Steps

\* The protection of the table is off nowhere but in the window.
THEOREM GuardIsBack == Spec => []GuardedOutsideWindow
<1>1. Init => GuardedOutsideWindow
  BY DEF Init, GuardedOutsideWindow
<1> QED
  BY <1>1, GuardStep, PTL DEF Spec

(* The magic in RTC memory stands for a migration nobody was told about. *)
ClaimInv == ClaimIsOwed /\ (magic => owed)

\* A dismissed panel takes the magic with it; a cold reset takes both.
LEMMA ClaimStep ==
  ASSUME ClaimInv, [Next]_vars
  PROVE  ClaimInv'
<1> USE DEF ClaimInv, ClaimIsOwed, flash, nvs, boot, call, latches, ui
<1>1. CASE BootLoader
  BY <1>1 DEF BootLoader
<1>3. CASE Begin
  BY <1>3 DEF Begin
<1>4. CASE Restore
  BY <1>4 DEF Restore, Enter
<1>5. CASE Record
  BY <1>5 DEF Record
<1>6. CASE Erase
  BY <1>6 DEF Erase, Leave, Back, SectorOnly
<1>7. CASE AllocWriteBuf
  BY <1>7 DEF AllocWriteBuf, SectorOnly
<1>8. CASE Write
  BY <1>8 DEF Write, SectorOnly
<1>9. CASE Verify
  BY <1>9 DEF Verify, SectorOnly
<1>10. CASE UndoErase
  BY <1>10 DEF UndoErase, SectorOnly
<1>11. CASE UndoWrite
  BY <1>11 DEF UndoWrite, Leave, Back, SectorOnly
<1>12. CASE WritePreferredLayout
  BY <1>12 DEF WritePreferredLayout
<1>13. CASE ArmAndRestart
  BY <1>13 DEF ArmAndRestart, ClearRam
<1>14. CASE InstallFails
  BY <1>14 DEF InstallFails
<1>15. CASE InstallEnds
  BY <1>15 DEF InstallEnds
<1>16. CASE InstallRestarts
  BY <1>16 DEF InstallRestarts, WarmReset, ClearRam
<1>17. CASE MarkValid
  BY <1>17 DEF MarkValid
<1>18. CASE OnEnter
  BY <1>18 DEF OnEnter
<1>19. CASE Dismiss
  BY <1>19 DEF Dismiss
<1>20. CASE Close
  BY <1>20 DEF Close
<1>21. CASE RunLayoutMigration
  BY <1>21 DEF RunLayoutMigration, Enter
<1>22. CASE RunInstall
  BY <1>22 DEF RunInstall
<1>23. CASE Panic
  BY <1>23 DEF Panic, WarmReset, ClearRam
<1>24. CASE PowerCut
  BY <1>24 DEF PowerCut, ClearRam
<1>25. ASSUME NEW l \in Layouts, NEW erase \in BOOLEAN, UsbFlash(l, erase)
       PROVE  ClaimInv'
  BY <1>25 DEF UsbFlash, ClearRam
<1>26. CASE UNCHANGED vars
  BY <1>26 DEF vars
<1> QED
  BY <1>1, <1>3, <1>4, <1>5, <1>6, <1>7, <1>8, <1>9, <1>10, <1>11, <1>12,
     <1>13, <1>14, <1>15, <1>16, <1>17, <1>18, <1>19, <1>20, <1>21, <1>22, <1>23,
     <1>24, <1>25, <1>26, NextIsSteps DEF Steps

\* The badge claims a migration only if one has ended since the last cold start and
\* nobody was told yet.
THEOREM ClaimsAreOwed == Spec => []ClaimIsOwed
<1>1. Init => ClaimInv
  BY DEF Init, ClaimInv, ClaimIsOwed
<1> QED
  BY <1>1, ClaimStep, PTL DEF Spec, ClaimInv

===========================================================================
