----------------------------- MODULE AtomicFile -----------------------------
(***************************************************************************)
(* Filesystem::writeFileAtomic (firmware/src/infra/Filesystem.cpp): one     *)
(* file and its ".tmp", written by any task under the recursive IOLock, in  *)
(* the FAT operations the code performs one after the other.  Each of them   *)
(* may fail, and the power may go between any two.                          *)
(*                                                                         *)
(* A FAT operation is taken to happen or not to happen; what a power cut    *)
(* does inside the FAT driver is not modelled.                              *)
(***************************************************************************)
EXTENDS Naturals

CONSTANTS
  Tasks,        \* the tasks that save this file
  Contents      \* what they write

CONSTANTS
  Absent,  \* no file
  Torn,    \* an empty or partial one, f_sync not called on it yet
  Lost,    \* what reached the flash of one whose f_sync or f_close failed
  Free     \* no lock holder

ASSUME AtomicFileAssumption ==
  /\ {Absent, Torn, Lost} \cap Contents = {}
  /\ Absent # Torn /\ Absent # Lost /\ Torn # Lost
  /\ Free \notin Tasks

VARIABLES
  live, tmp,   \* what the path and the .tmp path hold
  holder,      \* who holds the IOLock
  step,        \* step[t]: the operation t does next, "out" when not in the call
  wanted,      \* wanted[t]: the data t writes
  answer,      \* answer[t]: what t's last call returned, "none" if it never did
  before,      \* before[t]: what the path held when t took the lock (history)
  syncFailed   \* syncFailed[t]: f_sync or f_close failed in t's last call, which
               \* the code does not notice (history)

vars == <<live, tmp, holder, step, wanted, answer, before, syncFailed>>
File == Contents \cup {Absent, Torn, Lost}

\* The last conjunct: a task holds the lock exactly while it is in the call.
TypeOK ==
  /\ live \in File /\ tmp \in File
  /\ holder \in Tasks \cup {Free}
  /\ step \in [Tasks -> {"out", "create", "write", "sync", "unlink", "rename"}]
  /\ wanted \in [Tasks -> Contents]
  /\ answer \in [Tasks -> {"none", "true", "false"}]
  /\ before \in [Tasks -> File]
  /\ syncFailed \in [Tasks -> BOOLEAN]
  /\ \A t \in Tasks : holder = t <=> step[t] # "out"

Init ==
  /\ live = Absent /\ tmp = Absent /\ holder = Free
  /\ step = [t \in Tasks |-> "out"]
  /\ wanted \in [Tasks -> Contents]
  /\ answer = [t \in Tasks |-> "none"]
  /\ before = [t \in Tasks |-> Absent]
  /\ syncFailed = [t \in Tasks |-> FALSE]

Goto(t, s) == step' = [step EXCEPT ![t] = s]

\* The call returns r: the IOLock is released by its destructor.
Return(t, r) ==
  /\ Goto(t, "out")
  /\ holder' = Free
  /\ answer' = [answer EXCEPT ![t] = r]

Continue(t, s) == Goto(t, s) /\ UNCHANGED <<holder, answer>>

-----------------------------------------------------------------------------
\* Mutant: the lock is not taken.
CallUnlocked(t, data) ==
  /\ step[t] = "out"
  /\ holder' = t
  /\ Goto(t, "create")
  /\ wanted' = [wanted EXCEPT ![t] = data]
  /\ before' = [before EXCEPT ![t] = live]
  /\ answer' = [answer EXCEPT ![t] = "none"]
  /\ syncFailed' = [syncFailed EXCEPT ![t] = FALSE]
  /\ UNCHANGED <<live, tmp>>

Call(t, data) ==
  /\ step[t] = "out" /\ holder = Free
  /\ holder' = t
  /\ Goto(t, "create")
  /\ wanted' = [wanted EXCEPT ![t] = data]
  /\ before' = [before EXCEPT ![t] = live]
  /\ answer' = [answer EXCEPT ![t] = "none"]
  /\ syncFailed' = [syncFailed EXCEPT ![t] = FALSE]
  /\ UNCHANGED <<live, tmp>>

\* f_unlink(tmp), whose result nobody looks at, then FA_CREATE_NEW, which fails
\* on a file that is still there.
CreateTmp(t) ==
  /\ step[t] = "create"
  /\ \/ tmp' = Torn /\ Continue(t, "write")
     \/ tmp' \in {tmp, Absent} /\ Return(t, "false")
  /\ UNCHANGED <<live, wanted, before, syncFailed>>

\* f_write of everything, or a short write, after which the .tmp is unlinked,
\* with a result nobody looks at.
WriteTmp(t) ==
  /\ step[t] = "write"
  /\ \/ Continue(t, "sync") /\ UNCHANGED tmp
     \/ tmp' \in {tmp, Absent} /\ Return(t, "false")
  /\ UNCHANGED <<live, wanted, before, syncFailed>>

\* Mutant: no f_sync.
SyncTmpNot(t) ==
  /\ step[t] = "sync"
  /\ Continue(t, "unlink")
  /\ UNCHANGED <<live, tmp, wanted, before, syncFailed>>

\* f_sync and f_close, with results nobody looks at: the data may or may not
\* have reached the flash when one of them fails.
SyncTmp(t) ==
  /\ step[t] = "sync"
  /\ \/ tmp' = wanted[t] /\ UNCHANGED syncFailed
     \/ tmp' \in {wanted[t], Lost} /\ syncFailed' = [syncFailed EXCEPT ![t] = TRUE]
  /\ Continue(t, "unlink")
  /\ UNCHANGED <<live, wanted, before>>

UnlinkLive(t) ==
  /\ step[t] = "unlink"
  /\ live' \in {live, Absent}
  /\ Continue(t, "rename")
  /\ UNCHANGED <<tmp, wanted, before, syncFailed>>

\* Mutant: the result of f_rename is not looked at.
RenameUnchecked(t) ==
  /\ step[t] = "rename" /\ Return(t, "true")
  /\ \/ live = Absent /\ live' = tmp /\ tmp' = Absent
     \/ UNCHANGED <<live, tmp>>
  /\ UNCHANGED <<wanted, before, syncFailed>>

\* f_rename fails on a path that is still there, or for a reason of its own.
Rename(t) ==
  /\ step[t] = "rename"
  /\ \/ live = Absent /\ live' = tmp /\ tmp' = Absent /\ Return(t, "true")
     \/ tmp' \in {tmp, Absent} /\ Return(t, "false") /\ UNCHANGED live
  /\ UNCHANGED <<wanted, before, syncFailed>>

\* The power goes and comes back: RAM is lost, the two files are not.
PowerCut ==
  /\ holder' = Free
  /\ step' = [t \in Tasks |-> "out"]
  /\ answer' = [t \in Tasks |-> "none"]
  /\ syncFailed' = [t \in Tasks |-> FALSE]
  /\ UNCHANGED <<live, tmp, wanted, before>>

Step(t) == CreateTmp(t) \/ WriteTmp(t) \/ SyncTmp(t) \/ UnlinkLive(t) \/ Rename(t)

Next == \/ \E t \in Tasks : Step(t) \/ \E data \in Contents : Call(t, data)
        \/ PowerCut

Spec == Init /\ [][Next]_vars

-----------------------------------------------------------------------------
(* Properties. *)

\* Filesystem.h:50-51 has true mean that the contents are on the flash, and the
\* code does not keep that: it looks at the result of neither f_sync nor f_close
\* (Filesystem.cpp:106-107).  What it keeps: true means the contents the caller
\* asked for are at the path, whoever else is saving and whatever a cut or failed
\* save left behind, except that a failure of those two in this very call may leave
\* there what it got out.
TrueUnlessSyncFailed ==
  [][\A t \in Tasks : answer[t] = "none" /\ answer'[t] = "true" =>
       live' = wanted[t] \/ (syncFailed[t] /\ live' = Lost)]_vars

\* A save, however it ends or is cut off, never puts at the path a file that f_sync
\* and f_close were not called on; only their failing can leave a partial one there
\* (Lost).
LiveIsWhole == live # Torn

\* Until the last but one of its operations a save leaves the path alone: what
\* was there when it took the lock still is, and a failure costs nothing.
OldUntilUnlink ==
  \A t \in Tasks : step[t] \in {"create", "write", "sync", "unlink"} =>
    live = before[t]

=============================================================================
