-------------------------- MODULE AtomicFile_proofs --------------------------
(***************************************************************************)
(* For any number of tasks and any contents: a save holds the IOLock from   *)
(* its first operation to its last, the .tmp it renames is the one it       *)
(* wrote, and so the path never changes behind its back.                    *)
(***************************************************************************)
EXTENDS AtomicFile, TLAPS

\* Past f_sync and f_close the .tmp is complete, unless one of them failed.
TmpIsWritten ==
  \A t \in Tasks : step[t] \in {"unlink", "rename"} =>
    tmp = wanted[t] \/ (syncFailed[t] /\ tmp = Lost)

Inv == TypeOK /\ TmpIsWritten /\ OldUntilUnlink /\ LiveIsWhole

\* The invariant is inductive: one step per action, the lock deciding in each that
\* no other task is past its first operation.
THEOREM InvHolds == Spec => []Inv
<1> USE AtomicFileAssumption
<1>1. Init => Inv
  BY DEF Init, Inv, TypeOK, TmpIsWritten, OldUntilUnlink, LiveIsWhole, File
<1>2. Inv /\ [Next]_vars => Inv'
  <2> SUFFICES ASSUME Inv, [Next]_vars
               PROVE  Inv'
    OBVIOUS
  <2> USE DEF Inv, TypeOK, TmpIsWritten, OldUntilUnlink, LiveIsWhole, File
  <2>1. ASSUME NEW t \in Tasks, NEW data \in Contents, Call(t, data)
        PROVE  Inv'
    BY <2>1 DEF Call, Goto
  <2>2. ASSUME NEW t \in Tasks, CreateTmp(t)
        PROVE  Inv'
    BY <2>2 DEF CreateTmp, Continue, Return, Goto
  <2>3. ASSUME NEW t \in Tasks, WriteTmp(t)
        PROVE  Inv'
    BY <2>3 DEF WriteTmp, Continue, Return, Goto
  <2>4. ASSUME NEW t \in Tasks, SyncTmp(t)
        PROVE  Inv'
    <3>1. /\ step[t] = "sync" /\ step' = [step EXCEPT ![t] = "unlink"]
          /\ UNCHANGED <<holder, answer, live, wanted, before>>
      BY <2>4 DEF SyncTmp, Continue, Goto
    <3>2. \A u \in Tasks \ {t} : step[u] = "out" /\ step'[u] = "out"
      BY <3>1
    <3>3. CASE tmp' = wanted[t] /\ UNCHANGED syncFailed
      BY <3>1, <3>2, <3>3
    <3>4. CASE /\ tmp' \in {wanted[t], Lost}
               /\ syncFailed' = [syncFailed EXCEPT ![t] = TRUE]
      BY <3>1, <3>2, <3>4
    <3> QED
      BY <2>4, <3>3, <3>4 DEF SyncTmp
  <2>5. ASSUME NEW t \in Tasks, UnlinkLive(t)
        PROVE  Inv'
    BY <2>5 DEF UnlinkLive, Continue, Goto
  <2>6. ASSUME NEW t \in Tasks, Rename(t)
        PROVE  Inv'
    BY <2>6 DEF Rename, Return, Goto
  <2>7. CASE PowerCut
    BY <2>7 DEF PowerCut
  <2>8. CASE UNCHANGED vars
    BY <2>8 DEF vars
  <2> QED
    BY <2>1, <2>2, <2>3, <2>4, <2>5, <2>6, <2>7, <2>8 DEF Next, Step
<1> QED
  BY <1>1, <1>2, PTL DEF Spec

\* Filesystem::writeFileAtomic's state stays within its types.
THEOREM TypeCorrect == Spec => []TypeOK
  BY InvHolds, PTL DEF Inv

\* Until it unlinks the path a save leaves it as it found it.
THEOREM OldKept == Spec => []OldUntilUnlink
  BY InvHolds, PTL DEF Inv

\* No file that was not synced is ever at the path.
THEOREM NeverTorn == Spec => []LiveIsWhole
  BY InvHolds, PTL DEF Inv

\* A call that returns true has put its data at the path, or its f_sync or f_close
\* failed.
THEOREM TrueExceptSync == Spec => TrueUnlessSyncFailed
<1> DEFINE Kept == \A t \in Tasks : answer[t] = "none" /\ answer'[t] = "true" =>
                     live' = wanted[t] \/ (syncFailed[t] /\ live' = Lost)
<1>1. Inv /\ [Next]_vars => [Kept]_vars
  <2> SUFFICES ASSUME Inv, Next, NEW t \in Tasks,
                      answer[t] = "none", answer'[t] = "true"
               PROVE  live' = wanted[t] \/ (syncFailed[t] /\ live' = Lost)
    OBVIOUS
  <2> USE DEF Inv, TypeOK
  <2>1. ASSUME NEW u \in Tasks, Step(u) \/ \E data \in Contents : Call(u, data)
        PROVE  live' = wanted[t] \/ (syncFailed[t] /\ live' = Lost)
    <3>1. u = t /\ Rename(t)
      BY <2>1 DEF Step, Call, CreateTmp, WriteTmp, SyncTmp, UnlinkLive, Rename,
                  Continue, Return
    <3> QED
      BY <3>1 DEF Rename, Return, TmpIsWritten
  <2>2. CASE PowerCut
    BY <2>2 DEF PowerCut
  <2> QED
    BY <2>1, <2>2 DEF Next
<1> QED
  BY <1>1, InvHolds, PTL DEF Spec, TrueUnlessSyncFailed

=============================================================================
