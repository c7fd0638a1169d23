------------------------- MODULE LedRuntime_proofs -------------------------
(* Proofs about LedRuntime, for any modes, apps and depth of overrides. *)
EXTENDS LedRuntime, TLAPS

-----------------------------------------------------------------------------
(* The matrix *)
LEMMA SetModeFacts ==
  ASSUME NEW x \in Matrices, NEW on \in BOOLEAN
  PROVE  /\ SetMicropythonMode(x, on) \in Matrices
         /\ SetMicropythonMode(x, on).mp = on
         /\ SetMicropythonMode(x, on).hold = x.hold
  BY DEF SetMicropythonMode, Matrices, Pictures

LEMMA SetActiveFacts ==
  ASSUME NEW x \in Matrices, NEW on \in BOOLEAN
  PROVE  /\ SetActive(x, on) \in Matrices
         /\ SetActive(x, on).mp = on /\ SetActive(x, on).hold = on
<1> DEFINE y == SetMicropythonMode(x, on)
<1>1. y \in Matrices /\ y.mp = on
  BY SetModeFacts
<1> HIDE DEF y
<1>2. [y EXCEPT !.hold = on] \in Matrices /\ [y EXCEPT !.hold = on].mp = on
      /\ [y EXCEPT !.hold = on].hold = on
  BY <1>1 DEF Matrices
<1> QED
  BY <1>2 DEF SetActive, y

LEMMA NoteFacts ==
  ASSUME NEW x \in Matrices, NEW p \in Pictures
  PROVE  /\ [NoteActivity(x) EXCEPT !.pic = p] \in Matrices
         /\ [NoteActivity(x) EXCEPT !.pic = p].hold
<1>1. NoteActivity(x) \in Matrices /\ NoteActivity(x).hold
  BY SetActiveFacts DEF NoteActivity, Matrices
<1> QED
  BY <1>1 DEF Matrices

-----------------------------------------------------------------------------
(* LEDAppRuntime *)
Slugged(l) == l.mode = PyApp => l.slug # None

LEMMA RestoreFacts ==
  ASSUME NEW l \in Leds, NEW f \in Files, Slugged(l), NEW m \in RestoreAmbient(l, f)
  PROVE  /\ m \in Leds /\ Slugged(m)
         /\ m.pending = (IF m.mode = PyApp THEN m.slug ELSE l.pending)
         /\ f = None => m.mode = l.mode /\ m.slug = l.slug
         /\ f # None /\ "read" \notin Faults =>
              /\ m.slug = f.slug
              /\ m.mode = IF f.mode \in Builtin THEN f.mode ELSE l.mode
<1>1. PICK k \in Loads(l, f) : m = Requeued(k)
  BY DEF RestoreAmbient
<1>2. /\ k \in Leds /\ Slugged(k) /\ k.pending = l.pending
      /\ f = None => k = l
      /\ f # None /\ "read" \notin Faults =>
           /\ k.slug = f.slug /\ k.mode = IF f.mode \in Builtin THEN f.mode ELSE l.mode
  <2>1. CASE k = l
    <3>1. f # None /\ "read" \notin Faults => l = Loaded(l, f)
      BY <1>1, <2>1 DEF Loads
    <3> QED
      BY <2>1, <3>1 DEF Loaded, Leds, Slugged
  <2>2. CASE f # None /\ k = Loaded(l, f)
    <3>1. f.mode \in Modes /\ f.slug \in Apps \cup {None} /\ (f.mode \notin Builtin => f.slug \in Apps)
      BY <2>2, LedAssumption DEF Files, Saved, Modes
    <3> QED
      BY <2>2, <3>1, LedAssumption DEF Loaded, Leds, Slugged, Modes, Owners
  <2> QED
    BY <1>1, <2>1, <2>2 DEF Loads
<1>3. /\ m \in Leds /\ m.mode = k.mode /\ m.slug = k.slug
      /\ m.pending = IF k.mode = PyApp /\ k.slug # None THEN k.slug ELSE k.pending
  BY <1>1, <1>2 DEF Requeued, Leds
<1> QED
  BY <1>2, <1>3 DEF Slugged

\* Overrides and previews leave alone what is selected and what is queued.
Alike(l, m) ==
  /\ m \in Leds /\ m.mode = l.mode /\ m.slug = l.slug /\ m.pending = l.pending

LEMMA OverrideFacts ==
  ASSUME NEW l \in Leds
  PROVE  Alike(l, BeginOverride(l)) /\ Alike(l, Released(l)) /\ Alike(l, EndOverride(l))
<1>1. Alike(l, BeginOverride(l))
  <2> DEFINE d == IF l.depth < MaxDepth THEN l.depth + 1 ELSE l.depth
  <2>1. l.depth \in 0..MaxDepth
    BY DEF Leds
  <2>2. d \in 0..MaxDepth
    BY <2>1, LedAssumption
  <2> HIDE DEF d
  <2>3. Alike(l, [l EXCEPT !.depth = d, !.valid = FALSE])
    BY <2>2 DEF Alike, Leds
  <2> QED
    BY <2>3 DEF BeginOverride, d
<1>2. Alike(l, Released(l))
  <2> DEFINE d == IF l.depth > 0 THEN l.depth - 1 ELSE l.depth
  <2>1. l.depth \in 0..MaxDepth
    BY DEF Leds
  <2>2. d \in 0..MaxDepth
    BY <2>1, LedAssumption
  <2> HIDE DEF d
  <2>3. Alike(l, [l EXCEPT !.depth = d])
    BY <2>2 DEF Alike, Leds
  <2> QED
    BY <2>3 DEF Released, d
<1>3. Alike(l, EndOverride(l))
  BY <1>2 DEF Alike, EndOverride, Leds
<1> QED
  BY <1>1, <1>2, <1>3

LEMMA EndMatrixFacts ==
  ASSUME NEW l, NEW x \in Matrices
  PROVE  /\ EndOverrideMatrix(l, x) \in Matrices
         /\ EndOverrideMatrix(l, x).hold = x.hold
         /\ EndOverrideMatrix(l, x).mp => x.mp
  BY SetModeFacts DEF EndOverrideMatrix, Matrices

LEMMA PreviewFacts ==
  ASSUME NEW l \in Leds, NEW m \in Builtin
  PROVE  Alike(l, BeginPreview(l, m)) /\ Alike(l, UpdatePreview(l, m))
  BY DEF Alike, BeginPreview, UpdatePreview, Leds

LEMMA EndPreviewFacts ==
  ASSUME NEW l \in Leds
  PROVE  Alike(l, EndPreview(l))
  BY DEF Alike, EndPreview, Leds

-----------------------------------------------------------------------------
(* The types *)

\* The running program has a name, the LED screen an entry, a saved app a slug.
Names ==
  /\ at = "script" => by \in Apps
  /\ at = "app" => by = App
  /\ screen = "led" => sel # None
  /\ Slugged(led)

TInv == TypeOK /\ Names

LEMMA ByOwner ==
  ASSUME TInv, Runs
  PROVE  by \in Owners /\ by \in Pictures
  BY DEF TInv, Names, Runs, Owners, Pictures

LEMMA CommitFacts ==
  ASSUME TypeOK, NEW m \in Modes, NEW slug \in Apps \cup {None},
         m = PyApp <=> slug # None, Commit(m, slug)
  PROVE  /\ led' \in Leds /\ Slugged(led') /\ host' \in Hosts /\ host'.cb = None
         /\ host'.weOver = host.weOver
         /\ matrix' \in Matrices /\ ~matrix'.mp /\ ~matrix'.hold
         /\ file' \in Files
         /\ file' \in {Saved(m, slug), file}
         /\ led'.pending = (IF led'.mode = PyApp THEN led'.slug ELSE led.pending)
         /\ file' = None => led'.mode = m /\ led'.slug = slug
         /\ file' # None /\ "read" \notin Faults =>
              /\ led'.slug = file'.slug
              /\ led'.mode = IF file'.mode \in Builtin THEN file'.mode ELSE m
<1> DEFINE l == [led EXCEPT !.mode = m, !.slug = slug]
<1>1. l \in Leds /\ l.mode = m /\ l.slug = slug /\ l.pending = led.pending /\ Slugged(l)
  BY DEF TypeOK, Leds, Slugged
<1>2. file' \in Files /\ file' \in {Saved(m, slug), file}
  <2>1. Saved(m, slug) \in Files
    BY LedAssumption DEF Files, Saved, Modes
  <2> QED
    BY <2>1 DEF Commit, TypeOK
<1>3. led' \in RestoreAmbient(l, file')
  BY DEF Commit
<1>4. host' \in Hosts /\ host'.cb = None /\ host'.weOver = host.weOver
  BY DEF Commit, TypeOK, Hosts
<1>5. matrix' \in Matrices /\ ~matrix'.mp /\ ~matrix'.hold
  BY SetActiveFacts DEF Commit, TypeOK
<1> HIDE DEF l
<1> QED
  BY <1>1, <1>2, <1>3, <1>4, <1>5, RestoreFacts

LEMMA TickFacts ==
  ASSUME TypeOK, Tick
  PROVE  /\ host' \in Hosts /\ matrix' \in Matrices /\ host.cb # None
         /\ host'.weOver = host.weOver
         /\ \/ host' = host /\ matrix'.hold
            \/ host'.cb = None /\ ~matrix'.mp /\ ~matrix'.hold
<1>1. CASE matrix' = [NoteActivity(matrix) EXCEPT !.pic = host.cb] /\ UNCHANGED host
  <2>1. host.cb \in Pictures
    BY DEF Tick, TypeOK, Hosts, Pictures
  <2> QED
    BY <1>1, <2>1, NoteFacts DEF TypeOK, Tick
<1>2. CASE matrix' = SetActive(matrix, FALSE) /\ host' = [host EXCEPT !.cb = None]
  BY <1>2, SetActiveFacts DEF TypeOK, Tick, Hosts
<1> QED
  BY <1>1, <1>2 DEF Tick

LEMMA InitTypes == Init => TInv
  BY LedAssumption DEF Init, TInv, TypeOK, Names, Slugged, Fresh, NoHost, Blank, Leds,
     Hosts, Matrices, Pictures, Modes, Dark

LEMMA LoopTypes ==
  ASSUME TInv,
         NothingPending \/ SourceScript \/ ServiceTick \/ Native \/ NotItsTurn \/ Pass
  PROVE  TInv'
<1> USE DEF TInv, TypeOK, Names
<1>1. CASE NothingPending
  BY <1>1 DEF NothingPending
<1>2. CASE SourceScript
  <2>1. led' \in Leds /\ led'.mode = led.mode /\ led'.slug = led.slug /\ by' \in Apps
    BY <1>2 DEF SourceScript, Leds
  <2>2. host' \in Hosts
    BY <1>2 DEF SourceScript, ForegroundBegin, Hosts
  <2> QED
    BY <1>2, <2>1, <2>2 DEF SourceScript, Slugged, Owners
<1>3. CASE ServiceTick
  BY <1>3, TickFacts DEF ServiceTick
<1>4. CASE Native
  <2>1. led' \in Leds /\ led'.mode = led.mode /\ led'.slug = led.slug
    <3>1. led \in Leds /\ ActiveMode \in Modes
      BY DEF ActiveMode, Leds, Modes
    <3>2. led' \in {led, [led EXCEPT !.valid = TRUE, !.running = ActiveMode]}
      BY <1>4 DEF Native
    <3> HIDE DEF TInv, TypeOK, Names
    <3> QED
      BY <3>1, <3>2 DEF Leds
  <2>2. matrix' \in Matrices
    <3>1. ActiveMode # PyApp => Picture(ActiveMode) \in Pictures
      BY DEF ActiveMode, Leds, Modes, Picture, Pictures, Dark
    <3>2. ASSUME ActiveMode # PyApp
          PROVE  [matrix EXCEPT !.pic = Picture(ActiveMode)] \in Matrices
      BY <3>1, <3>2 DEF Matrices
    <3> QED
      BY <1>4, <3>2 DEF Native
  <2> QED
    BY <1>4, <2>1, <2>2 DEF Native, Slugged
<1>5. CASE NotItsTurn \/ Pass
  BY <1>5 DEF NotItsTurn, Pass
<1> QED
  BY <1>1, <1>2, <1>3, <1>4, <1>5

LEMMA ProgramTypes ==
  ASSUME TInv, Program
  PROVE  TInv'
<1> USE DEF TInv, TypeOK, Names, Stay
<1>1. CASE Start
  <2>1. host' \in Hosts
    BY <1>1, ByOwner DEF Start, Hosts
  <2> QED
    BY <1>1, <2>1, SetActiveFacts DEF Start
<1>2. CASE Stop
  BY <1>2, SetActiveFacts DEF Stop, Hosts
<1>3. CASE Draw
  <2>1. matrix' \in Matrices
    BY <1>3, NoteFacts DEF Draw, Pictures, Owners
  <2>2. host' \in Hosts
    BY <1>3 DEF Draw, Hosts
  <2> QED
    BY <1>3, <2>1, <2>2 DEF Draw
<1>4. CASE OverrideBegin
  <2>1. Alike(led, led')
    BY <1>4, OverrideFacts DEF OverrideBegin
  <2>2. host' \in Hosts
    BY <1>4 DEF OverrideBegin, Hosts
  <2> QED
    BY <1>4, <2>1, <2>2 DEF OverrideBegin, Alike, Slugged
<1>5. CASE OverrideEnd
  <2>1. Alike(led, EndOverride(led)) /\ Slugged(EndOverride(led))
    BY OverrideFacts DEF Alike, Slugged
  <2>2. led' \in Leds /\ Slugged(led')
    BY <1>5, <2>1, RestoreFacts DEF OverrideEnd, Alike
  <2>3. host' \in Hosts /\ matrix' \in Matrices
    BY <1>5, EndMatrixFacts DEF OverrideEnd, Hosts
  <2> QED
    BY <1>5, <2>2, <2>3 DEF OverrideEnd
<1>6. CASE Sleep
  BY <1>6, TickFacts DEF Sleep
<1>7. CASE Return
  <2>1. led' \in Leds /\ Slugged(led')
    BY <1>7, RestoreFacts DEF Return
  <2>2. host' \in Hosts
    BY <1>7 DEF Return, Hosts
  <2>3. matrix' \in Matrices
    BY <1>7, SetActiveFacts DEF Return
  <2> QED
    BY <1>7, <2>1, <2>2, <2>3 DEF Return
<1> QED
  BY <1>1, <1>2, <1>3, <1>4, <1>5, <1>6, <1>7 DEF Program

\* What the entry confirmed on the LED screen commits
LEMMA EntryFacts ==
  ASSUME TInv, Confirm
  PROVE  \E m \in Modes, slug \in Apps \cup {None} :
           (m = PyApp <=> slug # None) /\ Commit(m, slug)
<1>1. CASE sel \in Apps
  BY <1>1, LedAssumption DEF Confirm, Modes, Owners
<1>2. CASE sel \notin Apps
  <2>1. sel \in Builtin
    BY <1>2 DEF TInv, TypeOK, Names, Confirm, In
  <2> QED
    BY <1>2, <2>1, LedAssumption DEF Confirm, Modes
<1> QED
  BY <1>1, <1>2

LEMMA UserTypes ==
  ASSUME TInv, User
  PROVE  TInv'
<1> USE DEF TInv, TypeOK, Names
<1>1. CASE Pass
  BY <1>1 DEF Pass
<1>2. CASE LaunchApp
  <2>1. host' \in Hosts
    BY <1>2 DEF LaunchApp, ForegroundBegin, Hosts
  <2> QED
    BY <1>2, <2>1 DEF LaunchApp, Owners
<1>3. CASE OpenLedScreen
  <2>1. led.mode # PyApp => led.mode \in Builtin
    BY DEF Leds, Modes
  <2>2. Alike(led, led')
    BY <1>3, <2>1, PreviewFacts, EndPreviewFacts DEF OpenLedScreen
  <2>3. sel' \in Builtin \cup Apps \cup {None} /\ sel' # None
    BY <1>3, <2>1, LedAssumption DEF OpenLedScreen, Leds, Slugged, Modes
  <2>4. host' \in Hosts /\ matrix' \in Matrices
    BY <1>3, SetActiveFacts DEF OpenLedScreen, Hosts
  <2> QED
    BY <1>3, <2>2, <2>3, <2>4 DEF OpenLedScreen, Alike, Slugged
<1>4. CASE MoveMode
  <2>1. Alike(led, led') /\ sel' \in Builtin \cup Apps /\ sel' # None
    BY <1>4, PreviewFacts, EndPreviewFacts, LedAssumption DEF MoveMode, Modes, Owners
  <2> QED
    BY <1>4, <2>1 DEF MoveMode, Alike, Slugged
<1>5. CASE Confirm
  <2>1. led' \in Leds /\ Slugged(led') /\ host' \in Hosts /\ matrix' \in Matrices /\ file' \in Files
    BY <1>5, EntryFacts, CommitFacts
  <2> QED
    BY <1>5, <2>1 DEF Confirm
<1>6. CASE Leave
  <2>1. Alike(led, EndPreview(led)) /\ Slugged(EndPreview(led))
    BY EndPreviewFacts DEF Alike, Slugged
  <2>2. led' \in Leds /\ Slugged(led')
    BY <1>6, <2>1, RestoreFacts DEF Leave, Alike
  <2> QED
    BY <1>6, <2>2 DEF Leave
<1>7. CASE EditBrightness
  <2>1. Alike(led, led') /\ matrix' \in Matrices
    BY <1>7, OverrideFacts DEF EditBrightness, Matrices, Pictures
  <2> QED
    BY <1>7, <2>1 DEF EditBrightness, Alike, Slugged
<1>8. CASE EndEdit
  <2>1. Alike(led, led') /\ matrix' \in Matrices
    BY <1>8, OverrideFacts, EndMatrixFacts DEF EndEdit
  <2> QED
    BY <1>8, <2>1 DEF EndEdit, Alike, Slugged
<1>9. CASE PlayDoom
  <2>1. Alike(led, led')
    BY <1>9, OverrideFacts DEF PlayDoom, Alike
  <2>2. host' \in Hosts /\ matrix' \in Matrices
    BY <1>9 DEF PlayDoom, Hosts, Matrices, Pictures
  <2> QED
    BY <1>9, <2>1, <2>2 DEF PlayDoom, Alike, Slugged
<1>10. CASE QuitDoom
  <2>1. Alike(led, EndOverride(EndOverride(led))) /\ Slugged(EndOverride(EndOverride(led)))
    BY OverrideFacts DEF Alike, Slugged
  <2>2. led' \in Leds /\ Slugged(led')
    BY <1>10, <2>1, RestoreFacts DEF QuitDoom, Alike
  <2>3. host' \in Hosts /\ matrix' \in Matrices
    BY <1>10, EndMatrixFacts DEF QuitDoom, Hosts
  <2> QED
    BY <1>10, <2>2, <2>3 DEF QuitDoom
<1> QED
  BY <1>1, <1>2, <1>3, <1>4, <1>5, <1>6, <1>7, <1>8, <1>9, <1>10 DEF User

LEMMA BootTypes ==
  ASSUME TInv, Reset \/ Begin
  PROVE  TInv'
<1> USE DEF TInv, TypeOK, Names
<1>1. CASE Reset
  BY <1>1, LedAssumption DEF Reset, Slugged, Fresh, NoHost, Blank, Leds, Hosts, Matrices,
     Pictures, Modes, Dark
<1>2. CASE Begin
  BY <1>2, RestoreFacts DEF Begin
<1> QED
  BY <1>1, <1>2

LEMMA TypesPreserved == TInv /\ [Next]_vars => TInv'
<1> SUFFICES ASSUME TInv, [Next]_vars
             PROVE  TInv'
  OBVIOUS
<1>1. CASE UNCHANGED vars
  BY <1>1 DEF vars, TInv, TypeOK, Names, Slugged
<1>2. CASE Next
  BY <1>2, LoopTypes, ProgramTypes, UserTypes, BootTypes DEF Next, User
<1> QED
  BY <1>1, <1>2

\* The variables keep their types, the depth of overrides in particular.
THEOREM TypeCorrect == Spec => []TypeOK
<1>1. TInv => TypeOK
  BY DEF TInv
<1> QED
  BY <1>1, InitTypes, TypesPreserved, PTL DEF Spec

-----------------------------------------------------------------------------
(* What is selected, when a matrix.py only registers its callback and the state
   file can be read                                                          *)
Reliable == ScriptCalls \subseteq {"start", "stop"} /\ "read" \notin Faults

\* A selected app is the saved one, unless nothing has been saved.
Agrees == led.mode = PyApp /\ file # None => file = Saved(PyApp, led.slug)

\* A queued script waits for the next drain; only an app can be in between.
Queue == led.pending # None => at \in {"drain", "app"}

\* Only an app's drawing has held a callback off.
HeldOff == host.weOver => at = "app"

\* MicroPython mode is never left on with nobody answering for it.
Held == matrix.mp => matrix.hold

Order == Agrees /\ Queue /\ HeldOff
OInv  == TInv /\ OnlySelected /\ Order /\ HoldReleased /\ Held

\* A mode that is restored while the app in RAM is the saved one stays what it is.
LEMMA RestoreAgrees ==
  ASSUME Reliable, TypeOK, Agrees, NEW l \in Leds, Slugged(l),
         l.mode = led.mode, l.slug = led.slug, led' \in RestoreAmbient(l, file)
  PROVE  /\ led.mode = PyApp => led'.mode = PyApp /\ led'.slug = led.slug
         /\ led'.mode = PyApp /\ file # None => file = Saved(PyApp, led'.slug)
         /\ led'.pending = IF led'.mode = PyApp THEN led'.slug ELSE l.pending
<1>1. CASE file = None
  BY <1>1, RestoreFacts DEF TypeOK
<1>2. CASE file # None
  <2>1. led'.slug = file.slug /\ led'.mode = (IF file.mode \in Builtin THEN file.mode ELSE l.mode)
    BY <1>2, RestoreFacts DEF TypeOK, Reliable
  <2>2. led'.pending = IF led'.mode = PyApp THEN led'.slug ELSE l.pending
    BY RestoreFacts DEF TypeOK
  <2>3. file.mode \in Builtin \/ file = Saved(PyApp, file.slug)
    BY <1>2 DEF TypeOK, Files, Saved
  <2>4. led.mode = PyApp => file.mode = PyApp /\ file.slug = led.slug
    BY <1>2 DEF Agrees, Saved
  <2> QED
    BY <2>1, <2>2, <2>3, <2>4, LedAssumption
<1> QED
  BY <1>1, <1>2

LEMMA InitSelected == Init => OInv
<1> SUFFICES ASSUME Init
             PROVE  OInv
  OBVIOUS
<1>1. TInv
  BY InitTypes
<1>2. led.mode # PyApp /\ led.pending = None /\ host.cb = None /\ ~host.weOver
      /\ ~matrix.mp /\ ~matrix.hold /\ at = "boot"
  BY LedAssumption DEF Init, Fresh, NoHost, Blank
<1> QED
  BY <1>1, <1>2, LedAssumption
     DEF OInv, OnlySelected, Order, Agrees, Queue, HeldOff, HoldReleased, Held, Owners

\* What is selected does not change, and no callback is registered.
LEMMA Quiet ==
  ASSUME OInv, UNCHANGED file, Alike(led, led'), host'.cb \in {host.cb, None},
         host'.weOver => host.weOver /\ at' = "app",
         led.pending # None => at' \in {"drain", "app"},
         at' = "script" => at = "script" /\ by' = by
  PROVE  OnlySelected' /\ Order'
<1>1. OnlySelected'
  BY LedAssumption DEF OInv, OnlySelected, Alike, Owners
<1>2. Order'
  BY DEF OInv, Order, Agrees, Queue, HeldOff, Alike, Saved
<1> QED
  BY <1>1, <1>2

\* The saved state is read again, outside matrix.py.
LEMMA Restoring ==
  ASSUME Reliable, OInv, UNCHANGED file, NEW l \in Leds, Alike(led, l),
         led' \in RestoreAmbient(l, file), host'.cb = host.cb,
         host'.weOver => at' = "app", at' \in {"drain", "app"}
  PROVE  OnlySelected' /\ Order' /\ (led.mode = PyApp => led'.mode = PyApp)
<1>1. TypeOK /\ Agrees /\ Slugged(l) /\ l.mode = led.mode /\ l.slug = led.slug
      /\ l.pending = led.pending
  BY DEF OInv, Order, TInv, Names, Slugged, Alike
<1>2. /\ led.mode = PyApp => led'.mode = PyApp /\ led'.slug = led.slug
      /\ led'.mode = PyApp /\ file # None => file = Saved(PyApp, led'.slug)
      /\ led'.pending = IF led'.mode = PyApp THEN led'.slug ELSE led.pending
  BY <1>1, RestoreAgrees
<1>3. OnlySelected'
  <2> SUFFICES ASSUME NEW a \in Apps, host'.cb = a \/ led'.pending = a
               PROVE  led'.mode = PyApp /\ led'.slug = a
    BY DEF OnlySelected
  <2>1. CASE host.cb = a
    BY <1>2, <2>1 DEF OInv, OnlySelected
  <2>2. CASE led'.pending = a
    BY <1>2, <2>2 DEF OInv, OnlySelected
  <2> QED
    BY <2>1, <2>2
<1>4. Order'
  BY <1>2 DEF Order, Agrees, Queue, HeldOff
<1> QED
  BY <1>2, <1>3, <1>4

LEMMA LoopSelected ==
  ASSUME OInv, NothingPending \/ SourceScript \/ ServiceTick \/ Native \/ NotItsTurn \/ Pass
  PROVE  OnlySelected' /\ Order' /\ HoldReleased' /\ Held'
<1>1. CASE NothingPending \/ NotItsTurn \/ Pass
  <2>1. /\ UNCHANGED <<led, host, matrix, file>> /\ Alike(led, led')
        /\ at' \in {"tick", "input", "drain"}
        /\ led.pending # None => at' = "drain"
        /\ ~Runs /\ ~host.weOver
    BY <1>1 DEF NothingPending, NotItsTurn, Pass, Alike, OInv, Order, HeldOff, Queue, TInv,
       TypeOK, Runs
  <2>2. OnlySelected' /\ Order'
    BY <2>1, Quiet
  <2> QED
    BY <2>1, <2>2 DEF OInv, HoldReleased, Held
<1>2. CASE SourceScript
  <2>1. /\ led'.mode = led.mode /\ led'.slug = led.slug /\ led'.pending = None
        /\ host'.cb = host.cb /\ ~host'.weOver
    BY <1>2 DEF SourceScript, ForegroundBegin, OInv, TInv, TypeOK, Leds, Hosts
  <2>2. OnlySelected'
    BY <1>2, <2>1, LedAssumption DEF SourceScript, OInv, OnlySelected, Owners
  <2>3. Order'
    BY <1>2, <2>1 DEF SourceScript, OInv, Order, Agrees, Queue, HeldOff, Saved
  <2> QED
    BY <1>2, <2>2, <2>3 DEF SourceScript, OInv, HoldReleased, Held, Runs
<1>3. CASE ServiceTick
  <2>1. led.pending = None /\ ~host.weOver /\ ~Runs /\ TypeOK /\ Alike(led, led')
    BY <1>3 DEF ServiceTick, OInv, Order, Queue, HeldOff, Runs, TInv, TypeOK, Alike
  <2>2. \/ host' = host /\ (matrix' = matrix \/ (matrix'.hold /\ host.cb # None))
        \/ host'.cb = None /\ host'.weOver = host.weOver /\ ~matrix'.mp /\ ~matrix'.hold
    BY <1>3, <2>1, TickFacts DEF ServiceTick
  <2>3. OnlySelected' /\ Order'
    BY <1>3, <2>1, <2>2, Quiet DEF ServiceTick
  <2> QED
    BY <1>3, <2>1, <2>2, <2>3 DEF ServiceTick, OInv, HoldReleased, Held
<1>4. CASE Native
  <2>1. led.pending = None /\ ~host.weOver /\ ~Runs
    BY <1>4 DEF Native, OInv, Order, Queue, HeldOff, Runs
  <2>2. Alike(led, led') /\ matrix'.mp = matrix.mp /\ matrix'.hold = matrix.hold
    <3>1. led \in Leds /\ matrix \in Matrices
      BY DEF OInv, TInv, TypeOK
    <3>2. ActiveMode \in Modes
      BY <3>1 DEF Leds, ActiveMode, Modes
    <3>3. Alike(led, led')
      BY <1>4, <3>1, <3>2 DEF Native, Alike, Leds
    <3> QED
      BY <1>4, <3>1, <3>3 DEF Native, Matrices
  <2>3. OnlySelected' /\ Order'
    BY <1>4, <2>1, <2>2, Quiet DEF Native
  <2> QED
    BY <1>4, <2>1, <2>2, <2>3 DEF Native, OInv, HoldReleased, Held, Alike
<1> QED
  BY <1>1, <1>2, <1>3, <1>4

LEMMA ProgramSelected ==
  ASSUME Reliable, OInv, Program
  PROVE  OnlySelected' /\ Order' /\ HoldReleased' /\ Held'
<1>0. TInv /\ TypeOK /\ Runs
  BY DEF OInv, TInv, Program, Start, Stop, Draw, OverrideBegin, OverrideEnd, Sleep, Tick, Return
<1>a. at = "app" <=> at # "script"
  BY <1>0 DEF Runs
<1>b. at = "script" => led.mode = PyApp /\ led.slug = by /\ by \in Apps
                       /\ led.pending = None /\ ~host.weOver
  BY <1>0 DEF OInv, TInv, Names, OnlySelected, Order, Queue, HeldOff
<1>c. led.pending # None => at = "app"
  BY <1>a, <1>b
<1>d. Calls("draw") \/ Calls("override") => at = "app"
  BY <1>a DEF Calls, Reliable
<1>1. CASE Start
  <2>1. host'.cb = by /\ ~host'.weOver /\ matrix'.hold
    BY <1>0, <1>1, SetActiveFacts DEF Start, TypeOK, Hosts
  <2>2. OnlySelected'
    BY <1>0, <1>1, <1>a, <1>b, <2>1, LedAssumption
       DEF Start, Stay, OInv, OnlySelected, TInv, Names, Owners
  <2>3. Order'
    BY <1>1, <2>1 DEF Start, Stay, OInv, Order, Agrees, Queue, HeldOff, Saved
  <2> QED
    BY <1>0, <1>1, <2>1, <2>2, <2>3 DEF Start, Stay, HoldReleased, Held, Runs
<1>2. CASE Stop
  <2>1. host'.cb = None /\ host'.weOver = host.weOver /\ ~matrix'.mp /\ Alike(led, led')
    BY <1>0, <1>2, SetActiveFacts DEF Stop, TypeOK, Hosts, Alike
  <2>2. OnlySelected' /\ Order'
    BY <1>2, <1>c, <2>1, Quiet DEF Stop, Stay, OInv, Order, HeldOff
  <2> QED
    BY <1>0, <1>2, <2>1, <2>2 DEF Stop, Stay, HoldReleased, Held, Runs
<1>3. CASE Draw
  <2>1. at = "app" /\ UNCHANGED <<led, file, at, by>>
    BY <1>3, <1>d DEF Draw, Stay
  <2>2. host'.cb = host.cb
    BY <1>0, <1>3 DEF Draw, TypeOK, Hosts
  <2>3. matrix'.hold
    BY <1>0, <1>3, NoteFacts DEF Draw, TypeOK, Pictures, Owners
  <2>4. OnlySelected' /\ Order'
    BY <2>1, <2>2 DEF OInv, OnlySelected, Order, Agrees, Queue, HeldOff, Saved
  <2> QED
    BY <1>0, <2>1, <2>3, <2>4 DEF HoldReleased, Held, Runs
<1>4. CASE OverrideBegin
  <2>1. Alike(led, led') /\ at = "app" /\ UNCHANGED <<matrix, file, at, by>>
    BY <1>0, <1>4, <1>d, OverrideFacts DEF OverrideBegin, Stay, TypeOK
  <2>2. host'.cb = host.cb /\ host'.weOver = host.weOver
    BY <1>0, <1>4 DEF OverrideBegin, TypeOK, Hosts
  <2>3. OnlySelected' /\ Order'
    BY <2>1, <2>2, Quiet
  <2> QED
    BY <1>0, <2>1, <2>3 DEF OInv, HoldReleased, Held, Runs
<1>5. CASE OverrideEnd
  <2>1. at = "app" /\ UNCHANGED <<file, at, by>> /\ led' \in RestoreAmbient(EndOverride(led), file)
    BY <1>5, <1>d DEF OverrideEnd, Stay
  <2>2. Alike(led, EndOverride(led)) /\ EndOverride(led) \in Leds
    BY <1>0, OverrideFacts DEF TypeOK, Alike
  <2>3. host'.cb = host.cb
    BY <1>0, <1>5 DEF OverrideEnd, TypeOK, Hosts
  <2>4. matrix'.hold = matrix.hold /\ (matrix'.mp => matrix.mp)
    BY <1>0, <1>5, EndMatrixFacts DEF OverrideEnd, TypeOK
  <2>5. OnlySelected' /\ Order'
    BY <2>1, <2>2, <2>3, Restoring
  <2> QED
    BY <1>0, <2>1, <2>4, <2>5 DEF OInv, HoldReleased, Held, Runs
<1>6. CASE Sleep
  <2>1. UNCHANGED <<led, file, at, by>> /\ Alike(led, led')
    BY <1>0, <1>6 DEF Sleep, Stay, TypeOK, Alike
  <2>2. /\ host'.cb \in {host.cb, None} /\ host'.weOver = host.weOver
        /\ matrix'.mp => matrix'.hold
    BY <1>0, <1>6, TickFacts DEF Sleep
  <2>3. OnlySelected' /\ Order'
    BY <1>c, <2>1, <2>2, Quiet DEF OInv, Order, HeldOff
  <2> QED
    BY <1>0, <2>1, <2>2, <2>3 DEF HoldReleased, Held, Runs
<1>7. CASE Return
  <2>1. host'.cb = host.cb /\ ~host'.weOver /\ UNCHANGED file
    BY <1>0, <1>7 DEF Return, TypeOK, Hosts
  <2>2. /\ matrix'.mp => matrix'.hold
        /\ at = "app" /\ host.cb = None => ~matrix'.mp /\ ~matrix'.hold
    BY <1>0, <1>7, SetActiveFacts DEF Return, OInv, Held, TypeOK, Matrices
  <2>3. CASE at = "app" /\ host.weOver
    <3>1. Alike(led, led) /\ led \in Leds /\ at' = "drain"
      BY <1>0, <1>7, <2>3 DEF Return, TypeOK, Alike
    <3>2. OnlySelected' /\ Order'
      BY <1>7, <2>1, <2>3, <3>1, Restoring DEF Return
    <3> QED
      BY <2>1, <2>2, <2>3, <3>2 DEF HoldReleased, Held
  <2>4. CASE ~host.weOver
    <3>1. Alike(led, led') /\ UNCHANGED led /\ at' \in {"drain", "tick"}
          /\ (at = "app" => at' = "drain")
      BY <1>0, <1>7, <2>4 DEF Return, TypeOK, Alike
    <3>2. OnlySelected' /\ Order'
      BY <1>c, <2>1, <3>1, Quiet
    <3> QED
      BY <1>a, <1>b, <2>1, <2>2, <3>1, <3>2 DEF HoldReleased, Held
  <2> QED
    BY <1>a, <1>b, <2>3, <2>4
<1> QED
  BY <1>1, <1>2, <1>3, <1>4, <1>5, <1>6, <1>7 DEF Program

LEMMA UserSelected ==
  ASSUME Reliable, OInv, User
  PROVE  OnlySelected' /\ Order' /\ HoldReleased' /\ Held'
<1>0. /\ TInv /\ TypeOK /\ (Slugged(led) /\ Alike(led, led))
      /\ ~Runs /\ led.pending = None /\ ~host.weOver
  BY DEF OInv, TInv, Names, TypeOK, Alike, Order, Queue, HeldOff, Runs, User, In, Pass,
     LaunchApp, OpenLedScreen, MoveMode, Confirm, Leave, EditBrightness, EndEdit, PlayDoom,
     QuitDoom
<1>1. CASE Pass
  BY <1>1, LoopSelected
<1>2. CASE LaunchApp
  <2>1. host'.cb = host.cb /\ ~host'.weOver
    BY <1>0, <1>2 DEF LaunchApp, ForegroundBegin, TypeOK, Hosts
  <2>2. OnlySelected' /\ Order'
    BY <1>0, <1>2, <2>1, Quiet DEF LaunchApp, Alike
  <2> QED
    BY <1>2, <2>2 DEF LaunchApp, OInv, HoldReleased, Held, Runs
<1>3. CASE OpenLedScreen
  <2>1. led.mode # PyApp => led.mode \in Builtin
    BY <1>0 DEF TypeOK, Leds, Modes
  <2>2. Alike(led, led')
    BY <1>0, <1>3, <2>1, PreviewFacts, EndPreviewFacts DEF OpenLedScreen, TypeOK
  <2>3. host'.cb = None /\ ~host'.weOver /\ ~matrix'.mp /\ ~matrix'.hold
    BY <1>0, <1>3, SetActiveFacts DEF OpenLedScreen, TypeOK, Hosts
  <2>4. OnlySelected' /\ Order'
    BY <1>0, <1>3, <2>2, <2>3, Quiet DEF OpenLedScreen
  <2> QED
    BY <2>3, <2>4 DEF HoldReleased, Held
<1>4. CASE MoveMode
  <2>1. Alike(led, led')
    BY <1>0, <1>4, PreviewFacts, EndPreviewFacts DEF MoveMode, TypeOK
  <2>2. OnlySelected' /\ Order'
    BY <1>0, <1>4, <2>1, Quiet DEF MoveMode
  <2> QED
    BY <1>0, <1>4, <2>1, <2>2 DEF MoveMode, OInv, HoldReleased, Held, Alike
<1>5. CASE Confirm
  <2>1. PICK m \in Modes, slug \in Apps \cup {None} : (m = PyApp <=> slug # None) /\ Commit(m, slug)
    BY <1>0, <1>5, EntryFacts
  <2>2. /\ host'.cb = None /\ ~host'.weOver /\ ~matrix'.mp /\ ~matrix'.hold
        /\ led'.pending = IF led'.mode = PyApp THEN led'.slug ELSE None
        /\ file' \in Files
        /\ file' # None => /\ led'.slug = file'.slug
                           /\ led'.mode = IF file'.mode \in Builtin THEN file'.mode ELSE m
    BY <1>0, <2>1, CommitFacts DEF Reliable
  <2>3. led'.mode = PyApp /\ file' # None => file' = Saved(PyApp, led'.slug)
    <3>1. file' # None => file'.mode \in Builtin \/ file' = Saved(PyApp, file'.slug)
      BY <2>2 DEF Files, Saved
    <3> QED
      BY <2>2, <3>1, LedAssumption
  <2>4. OnlySelected'
    BY <1>5, <2>2, LedAssumption DEF Confirm, OnlySelected, Owners
  <2>5. Order'
    BY <1>5, <2>2, <2>3 DEF Confirm, Order, Agrees, Queue, HeldOff
  <2> QED
    BY <2>2, <2>4, <2>5 DEF HoldReleased, Held
<1>6. CASE Leave
  <2>1. Alike(led, EndPreview(led)) /\ EndPreview(led) \in Leds
    BY <1>0, EndPreviewFacts DEF TypeOK, Alike
  <2>2. OnlySelected' /\ Order' /\ (led.mode = PyApp => led'.mode = PyApp)
    <3>1. CASE led.mode = PyApp
      BY <1>0, <1>6, <2>1, <3>1, Restoring DEF Leave
    <3>2. CASE led.mode # PyApp
      BY <1>0, <1>6, <2>1, <3>2, Quiet DEF Leave
    <3> QED
      BY <3>1, <3>2
  <2> QED
    BY <1>0, <1>6, <2>2 DEF Leave, OInv, HoldReleased, Held
<1>7. CASE EditBrightness
  <2>1. Alike(led, led') /\ matrix'.mp = matrix.mp /\ matrix'.hold = matrix.hold
    BY <1>0, <1>7, OverrideFacts DEF EditBrightness, TypeOK, Matrices
  <2>2. OnlySelected' /\ Order'
    BY <1>0, <1>7, <2>1, Quiet DEF EditBrightness
  <2> QED
    BY <1>0, <1>7, <2>1, <2>2 DEF EditBrightness, OInv, HoldReleased, Held, Alike
<1>8. CASE EndEdit
  <2>1. Alike(led, led') /\ (matrix'.mp => matrix.mp) /\ matrix'.hold = matrix.hold
    BY <1>0, <1>8, OverrideFacts, EndMatrixFacts DEF EndEdit, TypeOK
  <2>2. OnlySelected' /\ Order'
    BY <1>0, <1>8, <2>1, Quiet DEF EndEdit
  <2> QED
    BY <1>0, <1>8, <2>1, <2>2 DEF EndEdit, OInv, HoldReleased, Held, Alike
<1>9. CASE PlayDoom
  <2>1. Alike(led, led')
    BY <1>0, <1>9, OverrideFacts DEF PlayDoom, TypeOK, Alike
  <2>2. /\ matrix'.mp = matrix.mp /\ matrix'.hold = matrix.hold
        /\ host'.cb = host.cb /\ host'.weOver = host.weOver
    BY <1>0, <1>9 DEF PlayDoom, TypeOK, Matrices, Hosts
  <2>3. OnlySelected' /\ Order'
    BY <1>0, <1>9, <2>1, <2>2, Quiet DEF PlayDoom
  <2> QED
    BY <1>0, <1>9, <2>1, <2>2, <2>3 DEF PlayDoom, OInv, HoldReleased, Held, Alike
<1>10. CASE QuitDoom
  <2> DEFINE l == EndOverride(EndOverride(led))
  <2>1. Alike(led, l) /\ l \in Leds
    BY <1>0, OverrideFacts DEF TypeOK, Alike
  <2>2. host'.cb = host.cb /\ host'.weOver = host.weOver
    BY <1>0, <1>10 DEF QuitDoom, TypeOK, Hosts
  <2>3. (matrix'.mp => matrix.mp) /\ matrix'.hold = matrix.hold
    BY <1>0, <1>10, EndMatrixFacts DEF QuitDoom, TypeOK
  <2>4. led' \in RestoreAmbient(l, file) /\ UNCHANGED file /\ at' = "drain"
    BY <1>10 DEF QuitDoom
  <2> HIDE DEF l
  <2>5. OnlySelected' /\ Order' /\ (led.mode = PyApp => led'.mode = PyApp)
    BY <1>0, <2>1, <2>2, <2>4, Restoring
  <2> QED
    BY <1>0, <2>2, <2>3, <2>5 DEF OInv, HoldReleased, Held
<1> QED
  BY <1>1, <1>2, <1>3, <1>4, <1>5, <1>6, <1>7, <1>8, <1>9, <1>10 DEF User

LEMMA BootSelected ==
  ASSUME Reliable, OInv, Reset \/ Begin
  PROVE  OnlySelected' /\ Order' /\ HoldReleased' /\ Held'
<1>1. CASE Reset
  <2>1. /\ led'.mode # PyApp /\ led'.pending = None /\ host'.cb = None /\ ~host'.weOver
        /\ ~matrix'.mp /\ ~matrix'.hold /\ at' = "boot"
    BY <1>1, LedAssumption DEF Reset, Fresh, NoHost, Blank
  <2> QED
    BY <2>1, LedAssumption
       DEF OnlySelected, Order, Agrees, Queue, HeldOff, HoldReleased, Held, Owners
<1>2. CASE Begin
  <2>1. Alike(led, led) /\ led \in Leds /\ ~host.weOver /\ ~Runs
    BY <1>2 DEF Begin, OInv, TInv, TypeOK, Alike, Order, HeldOff, Runs
  <2>2. OnlySelected' /\ Order' /\ (led.mode = PyApp => led'.mode = PyApp)
    BY <1>2, <2>1, Restoring DEF Begin
  <2> QED
    BY <1>2, <2>1, <2>2 DEF Begin, OInv, HoldReleased, Held
<1> QED
  BY <1>1, <1>2

LEMMA SelectedPreserved == Reliable /\ OInv /\ [Next]_vars => OInv'
<1> SUFFICES ASSUME Reliable, OInv, [Next]_vars
             PROVE  OInv'
  OBVIOUS
<1>1. TInv'
  BY TypesPreserved DEF OInv
<1>2. OnlySelected' /\ Order' /\ HoldReleased' /\ Held'
  <2>1. CASE UNCHANGED vars
    BY <2>1 DEF vars, OInv, OnlySelected, Order, Agrees, Queue, HeldOff, HoldReleased, Held, Runs
  <2>2. CASE Next
    BY <2>2, LoopSelected, ProgramSelected, UserSelected, BootSelected DEF Next
  <2> QED
    BY <2>1, <2>2
<1> QED
  BY <1>1, <1>2 DEF OInv

\* A callback, a queued script and a matrix.py that runs are the selected app's.
THEOREM SelectionHolds ==
  ASSUME Reliable
  PROVE  Spec => []OnlySelected
<1>1. OInv /\ [Next]_vars => OInv'
  BY SelectedPreserved
<1>2. OInv => OnlySelected
  BY DEF OInv
<1> QED
  BY <1>1, <1>2, InitSelected, PTL DEF Spec

\* A built-in mode without a callback is never locked out of the matrix.
THEOREM NativeIsFree ==
  ASSUME Reliable
  PROVE  Spec => []HoldReleased
<1>1. OInv /\ [Next]_vars => OInv'
  BY SelectedPreserved
<1>2. OInv => HoldReleased
  BY DEF OInv
<1> QED
  BY <1>1, <1>2, InitSelected, PTL DEF Spec

=============================================================================
