-------------------------- MODULE LayoutMigration --------------------------
(* The in-place change of partition layout (ota/BadgeOTA.cpp), the boot that
   follows it, and the two things that can move the badge to another image in
   between: an over-the-air install and a flash over USB.  The table of
   partitions is one sector of flash: it is erased, written and read back, and
   what a boot finds there decides where the images are.                     *)
EXTENDS Naturals

CONSTANT MaxResets     \* panics, power cuts and USB flashes, together

ASSUME ResetsAssumption == MaxResets \in Nat

Layouts == {"doom", "ver2"}

VARIABLES
  sector,      \* the table sector: a layout, "blank" after an erase, or "torn"
  image0,      \* app0 holds a whole image; its address is the same in both
  slot1,       \* the layout under which app1 finds a whole image, or "none"
  otadata,     \* the slot the boot loader is told to take
  trial,       \* that image is "new", "pending" (booted once) or "valid"
  pref, last,  \* NVS: pref_layout and last_layout, "" when absent
  magic,       \* RTC memory: sMigrationBootMagic
  pc,          \* where the badge is
  cold,        \* the reset this boot came from was not a warm one
  table,       \* the table the running boot loaded
  running,     \* the slot it runs from
  caller,      \* who called migrateToExpandedLayout: "begin" or "screen"
  old,         \* oldTable, the snapshot
  guard,       \* the driver's dangerous-write protection
  faults,      \* flash operations and allocations that failed in this call
  migrated, migrationAck,      \* sJustMigratedReboot, sMigrationBootAcknowledged
  changed, changedAck,         \* sLayoutChanged, sLayoutAcknowledged
  onTrial,     \* sPendingVerify and not sValidated
  screen,      \* the update screen's phase_
  latched,     \* its migrationJustHappened_
  owed,        \* a migration has ended in a restart and nobody has been told
  resets

flash   == <<sector, image0, slot1, otadata, trial>>
nvs     == <<pref, last>>
boot    == <<cold, table, running>>
call    == <<caller, old, guard, faults>>
latches == <<migrated, migrationAck, changed, changedAck, onTrial>>
ui      == <<screen, latched>>
vars    == <<flash, nvs, magic, pc, boot, call, latches, ui, owed, resets>>

Whole(s) == s \in Layouts

\* Some slot holds an image that a boot under layout l finds.
Boots(l) == image0 \/ slot1 = l

Window   == {"erase", "alloc", "write", "verify", "unerase", "unwrite"}
Booting  == {"rom", "begin", "restore", "record"} \union Window \union {"pref", "arm"}
Awake    == (Booting \ {"rom"}) \union {"up", "installing", "installed"}

Init ==
  /\ sector \in Layouts /\ image0 = TRUE /\ slot1 = "none"
  /\ otadata = 0 /\ trial = "valid"
  /\ pref = "" /\ last = "" /\ magic = FALSE
  /\ pc = "rom" /\ cold = TRUE /\ table = sector /\ running = 0
  /\ caller = "begin" /\ old = sector /\ guard = TRUE /\ faults = 0
  /\ migrated = FALSE /\ migrationAck = FALSE
  /\ changed = FALSE /\ changedAck = FALSE /\ onTrial = FALSE
  /\ screen = "closed" /\ latched = FALSE
  /\ owed = FALSE /\ resets = 0

(* What a reset leaves: everything in RAM is gone.                           *)
ClearRam ==
  /\ guard' = TRUE /\ faults' = 0
  /\ migrated' = FALSE /\ migrationAck' = FALSE
  /\ changed' = FALSE /\ changedAck' = FALSE /\ onTrial' = FALSE
  /\ screen' = "closed" /\ latched' = FALSE
  /\ UNCHANGED <<caller, old, table, running>>

\* ESP.restart() or a panic: RTC memory survives.
WarmReset == ClearRam /\ cold' = FALSE /\ pc' = "rom" /\ UNCHANGED <<magic, owed>>

-----------------------------------------------------------------------------
(* The boot loader, as the code relies on it: it reads the table, takes the
   slot otadata names unless that image was tried before and never marked
   valid, and the other slot when there is no whole image in that one.       *)
Found(s) == IF s = 0 THEN image0 ELSE slot1 = sector

BootLoader ==
  /\ pc = "rom"
  /\ otadata' = IF trial = "pending" THEN 1 - otadata ELSE otadata
  /\ trial' = IF trial = "new" THEN "pending" ELSE "valid"
  /\ \/ /\ Whole(sector) /\ Boots(sector)
        /\ running' = IF Found(otadata') THEN otadata' ELSE 1 - otadata'
        /\ table' = sector /\ pc' = "begin"
     \/ /\ ~(Whole(sector) /\ Boots(sector))
        /\ pc' = "dead" /\ UNCHANGED <<running, table>>
  /\ UNCHANGED <<sector, image0, slot1, nvs, magic, cold, call, latches, ui, owed, resets>>

(* ota::begin.                                                               *)
Begin ==
  /\ pc = "begin"
  /\ migrated' = (magic /\ ~cold)
  /\ magic' = (magic /\ ~cold)
  /\ pc' = "restore"
  /\ UNCHANGED <<flash, nvs, boot, call, migrationAck, changed, changedAck, onTrial,
                 ui, owed, resets>>

(* migrateToExpandedLayout up to its first write: the early returns leave
   everything as it is (the battery, the embedded table, the allocation and
   the read of the snapshot may each refuse), or the snapshot is taken and the
   protection comes off.                                                     *)
\* Mutant: whichever slot the badge runs from.
MigratableAnywhere == table # "ver2"

Migratable == table # "ver2" /\ running = 0

Enter(who) ==
  /\ Migratable
  /\ caller' = who /\ old' = sector /\ guard' = FALSE /\ faults' = 0
  /\ pc' = "erase"

\* Mutant: at boot the call is made until it works.
BackAgain(who) == IF who = "begin" THEN "restore" ELSE "up"

Back(who) == IF who = "begin" THEN "record" ELSE "up"

\* maybeAutoRestorePreferredLayout.
Restore ==
  /\ pc = "restore"
  /\ \/ pref = "ver2" /\ pref # table /\ Enter("begin")
     \/ pc' = "record" /\ UNCHANGED call
  /\ UNCHANGED <<flash, nvs, magic, boot, latches, ui, owed, resets>>

\* recordCurrentLayout, unless NVS does not open, and the rest of begin().
Record ==
  /\ pc = "record"
  /\ \/ changed' = (changed \/ (last # "" /\ last # table)) /\ last' = table
     \/ UNCHANGED <<changed, last>>
  /\ onTrial' = (trial = "pending" /\ running = otadata)
  /\ pc' = "up"
  /\ UNCHANGED <<flash, pref, magic, boot, call, migrated, migrationAck, changedAck,
                 ui, owed, resets>>

-----------------------------------------------------------------------------
(* The window.  An operation that fails may have done its work, part of it or
   none.  A write lands only on an erased sector, or on the same bytes.      *)
Failed == faults' = faults + 1
Sound  == faults' = faults

EraseSector ==
  \/ Sound  /\ sector' = "blank"
  \/ Failed /\ sector' \in {sector, "blank", "torn"}

Landed(data) == IF sector \in {"blank", data} THEN data ELSE "torn"

WriteSector(data) ==
  \/ Sound  /\ sector' = Landed(data)
  \/ Failed /\ sector' \in {sector, "torn", Landed(data)}

SectorOnly == UNCHANGED <<image0, slot1, otadata, trial, nvs, magic, boot, caller, old,
                          latches, ui, owed, resets>>

Leave == guard' = TRUE /\ pc' = Back(caller)

Erase ==
  /\ pc = "erase"
  /\ EraseSector
  /\ \/ faults' = faults /\ pc' = "alloc" /\ UNCHANGED guard
     \/ faults' # faults /\ Leave
  /\ SectorOnly

\* Mutant: without a buffer the call just ends.
AllocWriteBufOrLeave ==
  /\ pc = "alloc"
  /\ \/ pc' = "write" /\ Sound /\ UNCHANGED guard
     \/ Leave /\ Failed
  /\ UNCHANGED sector
  /\ SectorOnly

\* The buffer for the write; without one the snapshot goes back at once.
AllocWriteBuf ==
  /\ pc = "alloc"
  /\ \/ pc' = "write" /\ Sound
     \/ pc' = "unwrite" /\ Failed
  /\ UNCHANGED <<sector, guard>>
  /\ SectorOnly

Write ==
  /\ pc = "write"
  /\ \/ WriteSector("ver2") /\ pc' = (IF faults' = faults THEN "verify" ELSE "unerase")
     \* the driver reports success and the bytes are wrong
     \/ Failed /\ sector' = "torn" /\ pc' = "verify"
  /\ UNCHANGED guard
  /\ SectorOnly

\* The read back: it may fail on its own, and passes only on the new table.
Verify ==
  /\ pc = "verify"
  /\ \/ sector = "ver2" /\ Sound /\ guard' = TRUE /\ pc' = "pref"
     \/ sector = "ver2" /\ Failed /\ pc' = "unerase" /\ UNCHANGED guard
     \/ sector # "ver2" /\ Sound /\ pc' = "unerase" /\ UNCHANGED guard
  /\ UNCHANGED sector
  /\ SectorOnly

\* The rollback: neither result is looked at.
UndoErase ==
  /\ pc = "unerase"
  /\ EraseSector
  /\ pc' = "unwrite" /\ UNCHANGED guard
  /\ SectorOnly

UndoWrite ==
  /\ pc = "unwrite"
  /\ WriteSector(old)
  /\ Leave
  /\ SectorOnly

WritePreferredLayout ==
  /\ pc = "pref"
  /\ pref' \in {pref, "ver2"} /\ pc' = "arm"
  /\ UNCHANGED <<flash, last, magic, boot, call, latches, ui, owed, resets>>

\* The magic, and ESP.restart().
ArmAndRestart ==
  /\ pc = "arm"
  /\ magic' = TRUE /\ owed' = TRUE
  /\ ClearRam /\ cold' = FALSE /\ pc' = "rom"
  /\ UNCHANGED <<flash, nvs, resets>>

-----------------------------------------------------------------------------
(* The update screen.                                                        *)
OnEnter ==
  /\ pc = "up" /\ screen = "closed"
  /\ latched' = (migrated /\ ~migrationAck)
  /\ LET told == latched' \/ (changed /\ ~changedAck) IN
     /\ screen' = IF told THEN "welcome" ELSE "idle"
     /\ changedAck' = (changedAck \/ told)
  /\ UNCHANGED <<flash, nvs, magic, pc, boot, call, migrated, migrationAck, changed,
                 onTrial, owed, resets>>

\* Mutant: the magic is forgotten.
DismissOnly ==
  /\ pc = "up" /\ screen = "welcome"
  /\ screen' = "idle" /\ latched' = FALSE
  /\ IF latched
       THEN migrationAck' = TRUE /\ owed' = FALSE
       ELSE UNCHANGED <<migrationAck, owed>>
  /\ UNCHANGED <<flash, nvs, magic, pc, boot, call, migrated, changed, changedAck, onTrial,
                 resets>>

Dismiss ==
  /\ pc = "up" /\ screen = "welcome"
  /\ screen' = "idle" /\ latched' = FALSE
  /\ IF latched
       THEN migrationAck' = TRUE /\ magic' = FALSE /\ owed' = FALSE
       ELSE UNCHANGED <<migrationAck, magic, owed>>
  /\ UNCHANGED <<flash, nvs, pc, boot, call, migrated, changed, changedAck, onTrial,
                 resets>>

Close ==
  /\ pc = "up" /\ screen = "idle"
  /\ screen' = "closed"
  /\ UNCHANGED <<flash, nvs, magic, pc, boot, call, latches, latched, owed, resets>>

\* runLayoutMigration; when the call comes back, the screen shows why.
RunLayoutMigration ==
  /\ pc = "up" /\ screen = "idle"
  /\ Enter("screen")
  /\ UNCHANGED <<flash, nvs, magic, boot, latches, ui, owed, resets>>

(* runInstall: the image goes to the slot that is not running, at the address
   the loaded table gives it.  What was at app1 is gone under either layout:
   the two places overlap.                                                   *)
RunInstall ==
  /\ pc = "up" /\ screen = "idle"
  /\ IF running = 0 THEN slot1' = "none" /\ UNCHANGED image0
                    ELSE image0' = FALSE /\ UNCHANGED slot1
  /\ pc' = "installing"
  /\ UNCHANGED <<sector, otadata, trial, nvs, magic, boot, call, latches, ui, owed, resets>>

InstallFails ==
  /\ pc = "installing"
  /\ pc' = "up"
  /\ UNCHANGED <<flash, nvs, magic, boot, call, latches, ui, owed, resets>>

InstallEnds ==
  /\ pc = "installing"
  /\ IF running = 0 THEN slot1' = table /\ UNCHANGED image0
                    ELSE image0' = TRUE /\ UNCHANGED slot1
  /\ otadata' = 1 - running /\ trial' = "new"
  /\ pc' = "installed"
  /\ UNCHANGED <<sector, nvs, magic, boot, call, latches, ui, owed, resets>>

InstallRestarts ==
  /\ pc = "installed"
  /\ WarmReset
  /\ UNCHANGED <<flash, nvs, resets>>

\* OTAService, 30 s after the first service(): markCurrentAppValidIfPending.
MarkValid ==
  /\ pc = "up" /\ onTrial
  /\ onTrial' = FALSE /\ trial' = "valid"
  /\ UNCHANGED <<sector, image0, slot1, otadata, nvs, magic, pc, boot, call, migrated,
                 migrationAck, changed, changedAck, ui, owed, resets>>

-----------------------------------------------------------------------------
(* What happens to the badge.                                                *)
Reset == resets < MaxResets /\ resets' = resets + 1

Panic ==
  /\ pc \in {"begin", "restore", "record", "up", "installing", "installed"}
  /\ Reset /\ WarmReset
  /\ UNCHANGED <<flash, nvs>>

\* The cold boot after a power cut; in the window the sector may be torn.
PowerCut ==
  /\ pc \in Awake
  /\ Reset /\ ClearRam
  /\ magic' = FALSE /\ owed' = FALSE /\ cold' = TRUE /\ pc' = "rom"
  /\ sector' \in (IF pc \in Window THEN {sector, "torn"} ELSE {sector})
  /\ UNCHANGED <<image0, slot1, otadata, trial, nvs>>

(* An upload writes the table of its environment, app0 and otadata, and may
   run over what is at app1; the erasing script clears NVS and app1 too.     *)
UsbFlash(l, erase) ==
  /\ Reset /\ ClearRam
  /\ magic' = FALSE /\ owed' = FALSE /\ cold' = TRUE /\ pc' = "rom"
  /\ sector' = l /\ image0' = TRUE /\ otadata' = 0 /\ trial' = "valid"
  /\ IF erase THEN slot1' = "none" /\ pref' = "" /\ last' = ""
              ELSE slot1' \in {slot1, "none"} /\ UNCHANGED nvs

-----------------------------------------------------------------------------
Program ==
  \/ BootLoader \/ Begin \/ Restore \/ Record
  \/ Erase \/ AllocWriteBuf \/ Write \/ Verify \/ UndoErase \/ UndoWrite
  \/ WritePreferredLayout \/ ArmAndRestart
  \/ InstallFails \/ InstallEnds \/ InstallRestarts \/ MarkValid

User == OnEnter \/ Dismiss \/ Close \/ RunLayoutMigration \/ RunInstall

Environment ==
  Panic \/ PowerCut \/ \E l \in Layouts, erase \in BOOLEAN : UsbFlash(l, erase)

Next == Program \/ User \/ Environment

Spec == Init /\ [][Next]_vars
FairSpec == Spec /\ WF_vars(Program)

-----------------------------------------------------------------------------
SectorValues == Layouts \union {"blank", "torn"}

FlashType ==
  /\ sector \in SectorValues /\ old \in SectorValues
  /\ slot1 \in Layouts \union {"none"} /\ table \in Layouts
  /\ pref \in {"", "ver2"} /\ last \in Layouts \union {""}
  /\ trial \in {"new", "pending", "valid"}

PlaceType ==
  /\ pc \in Booting \union {"up", "installing", "installed", "dead"}
  /\ caller \in {"begin", "screen"}
  /\ screen \in {"closed", "idle", "welcome"}

FlagType ==
  /\ image0 \in BOOLEAN /\ magic \in BOOLEAN /\ cold \in BOOLEAN /\ guard \in BOOLEAN
  /\ migrated \in BOOLEAN /\ migrationAck \in BOOLEAN /\ changed \in BOOLEAN
  /\ changedAck \in BOOLEAN /\ onTrial \in BOOLEAN
  /\ latched \in BOOLEAN /\ owed \in BOOLEAN

NumberType ==
  /\ otadata \in {0, 1} /\ running \in {0, 1}
  /\ faults \in Nat /\ resets \in 0..MaxResets

TypeOK == FlashType /\ PlaceType /\ FlagType /\ NumberType

(* BadgeOTA.cpp:124-130, 959-968: whatever installs, rollbacks, flashes and
   migrations came before, and wherever the power goes, a whole table in flash
   is one under which some slot has a whole image.                           *)
NeverStranded == Whole(sector) => Boots(sector)

(* BadgeOTA.h:213-225, BadgeOTA.cpp:160-168: the badge claims a migration only
   if one has ended since the last cold start and nobody was told yet.       *)
ClaimIsOwed == migrated /\ ~migrationAck => owed

(* BadgeOTA.cpp:1003-1014: the protection of the table is off nowhere but in
   the window, whichever way the call ended.                                 *)
GuardedOutsideWindow == pc \notin Window => guard

(* BadgeOTA.cpp:975-976, 1072-1104: a call that one failed operation after the
   erase ends gives back the table it found.                                 *)
RollsBack ==
  [][( /\ pc \in Window \ {"erase"} /\ pc' \in {"up", "record"}
       /\ faults' <= 1 )
     => sector' = old]_vars

(* BadgeOTA.cpp:1112-1120: the preference is never pinned to a layout that is
   not in flash at that moment.                                              *)
PinnedWhenThere == [][pref' # pref /\ pref' = "ver2" => sector = "ver2"]_vars

(* BadgeOTA.cpp:298-330: a boot that replays the migration does not replay it
   for ever: it comes up, or finds nothing to boot.                          *)
BootEnds == pc \in Booting ~> pc \in {"up", "dead"}
=============================================================================
