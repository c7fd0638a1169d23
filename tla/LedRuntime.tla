----------------------------- MODULE LedRuntime -----------------------------
(* Who draws on the LED matrix: the saved ambient mode (led/LEDAppRuntime.cpp),
   the callback a MicroPython program has registered (modtemporalbadge.c), a
   program in the foreground, the LED screen, the brightness setting or Doom.
   All of it runs on one core, in the order of one pass of the main loop; only a
   program that sleeps lets the callback in between.  A picture is named by who
   drew it.                                                                  *)
EXTENDS Naturals

CONSTANTS
  Builtin,     \* the built-in modes in use
  Apps,        \* the folders with a matrix.py
  None,
  AppCalls,    \* what an app calls: "start", "stop", "draw", "override"
  ScriptCalls, \* what a matrix.py calls
  Ticks,       \* what callbacks do: "draws", "ends" (it raises, or stops itself)
  Faults,      \* the accesses to the state file that may fail: "read", "write"
  Careful,     \* programs open one override at a time, and close it
  MaxDepth     \* where the depth of overrides saturates (255)

App    == "app"           \* the program in the foreground
PyApp  == "python_app"
Modes  == Builtin \cup {PyApp}
Still  == {"temporal", "off"}      \* service() draws them once
Owners == Apps \cup {App}

ASSUME LedAssumption ==
  /\ "temporal" \in Builtin /\ PyApp \notin Builtin /\ None \notin Modes
  /\ None \notin Owners /\ App \notin Apps
  /\ Careful \in BOOLEAN /\ MaxDepth \in Nat \ {0, 1}

VARIABLES
  led,      \* LEDAppRuntime: state_, the preview, what it shows, depth, pending slug
  host,     \* the matrix app host: callback, overridden, the foreground session
  matrix,   \* micropythonMode_, mpy_led_hold, and the picture
  file,     \* the saved state, None when there is none
  screen,   \* "menu", "led" or "settings" (editing the brightness)
  sel,      \* the LED screen's entry: a mode or an app
  at,       \* where the main loop is
  by        \* the program that runs

vars == <<led, host, matrix, file, screen, sel, at, by>>

Saved(m, slug) == [mode |-> m, slug |-> slug]
Files == {None} \cup {Saved(m, None) : m \in Builtin} \cup {Saved(PyApp, a) : a \in Apps}

-----------------------------------------------------------------------------
(* The matrix *)
Dark == "dark"
Picture(m) == IF m = "off" THEN Dark ELSE m

SetMicropythonMode(x, on) == IF x.mp = on THEN x ELSE [x EXCEPT !.mp = on, !.pic = Dark]

SetActive(x, on) == [SetMicropythonMode(x, on) EXCEPT !.hold = on]

\* A Python call that draws takes the matrix the first time.
NoteActivity(x) == IF x.hold THEN x ELSE SetActive(x, TRUE)

-----------------------------------------------------------------------------
(* LEDAppRuntime *)
Loaded(l, f) == [l EXCEPT !.mode = IF f.mode \in Builtin THEN f.mode ELSE @, !.slug = f.slug]

\* loadState: a file that is absent or unreadable leaves the state as it is.
Loads(l, f) ==
  (IF f = None THEN {l} ELSE {Loaded(l, f)}) \cup (IF "read" \in Faults THEN {l} ELSE {})

\* Mutant: the script is queued whatever the mode.
RequeuedAnyway(l) ==
  [l EXCEPT !.preview = None, !.valid = FALSE,
            !.pending = IF l.slug # None THEN l.slug ELSE @]

Requeued(l) ==
  [l EXCEPT !.preview = None, !.valid = FALSE,
            !.pending = IF l.mode = PyApp /\ l.slug # None THEN l.slug ELSE @]

RestoreAmbient(l, f) == {Requeued(m) : m \in Loads(l, f)}

BeginOverride(l) ==
  [l EXCEPT !.depth = IF @ < MaxDepth THEN @ + 1 ELSE @, !.valid = FALSE]

\* Mutant: the last override is never released.
ReleasedButOne(l) == [l EXCEPT !.depth = IF @ > 1 THEN @ - 1 ELSE @]

Released(l) == [l EXCEPT !.depth = IF @ > 0 THEN @ - 1 ELSE @]

EndOverride(l) == IF Released(l).depth = 0 THEN [Released(l) EXCEPT !.valid = FALSE] ELSE Released(l)
EndOverrideMatrix(l, x) ==
  IF Released(l).depth = 0 THEN SetMicropythonMode(x, FALSE) ELSE x

BeginPreview(l, m)  == [l EXCEPT !.preview = m, !.valid = FALSE]
UpdatePreview(l, m) == [l EXCEPT !.preview = IF @ = None THEN None ELSE m, !.valid = FALSE]
EndPreview(l)       == [l EXCEPT !.preview = None, !.valid = FALSE]

ActiveMode == IF led.preview # None THEN led.preview ELSE led.mode

\* commitMode and commitMatrixApp
Commit(m, slug) ==
  /\ host' = [host EXCEPT !.cb = None] /\ matrix' = SetActive(matrix, FALSE)
  /\ file' \in {Saved(m, slug)} \cup (IF "write" \in Faults THEN {file} ELSE {})
  /\ led' \in RestoreAmbient([led EXCEPT !.mode = m, !.slug = slug], file')

-----------------------------------------------------------------------------
(* One pass of the main loop: MicroPythonMatrixService, then LEDAppRuntime when
   it is its turn, then the user.                                            *)

\* matrix_app_service_tick invokes the callback.
Tick ==
  /\ ~host.over /\ host.cb # None
  /\ \/ /\ "draws" \in Ticks
        /\ matrix' = [NoteActivity(matrix) EXCEPT !.pic = host.cb] /\ UNCHANGED host
     \/ /\ "ends" \in Ticks
        /\ matrix' = SetActive(matrix, FALSE) /\ host' = [host EXCEPT !.cb = None]

ForegroundBegin == host' = [host EXCEPT !.session = TRUE, !.claimed = FALSE, !.weOver = FALSE]

NothingPending ==
  /\ at = "drain" /\ led.pending = None /\ at' = "tick"
  /\ UNCHANGED <<led, host, matrix, file, screen, sel, by>>

SourceScript ==
  /\ at = "drain" /\ led.pending # None
  /\ at' = "script" /\ by' = led.pending /\ led' = [led EXCEPT !.pending = None]
  /\ ForegroundBegin
  /\ UNCHANGED <<matrix, file, screen, sel>>

ServiceTick ==
  /\ at = "tick" /\ at' = "native"
  /\ Tick \/ UNCHANGED <<host, matrix>>
  /\ UNCHANGED <<led, file, screen, sel, by>>

\* LEDAppRuntime::service()
Native ==
  /\ at = "native" /\ at' = "input"
  /\ LET mode == ActiveMode IN
     IF led.depth > 0 \/ matrix.mp \/ mode = PyApp
       THEN UNCHANGED <<led, matrix>>
       ELSE /\ led' = [led EXCEPT !.valid = TRUE, !.running = mode]
            /\ matrix' = IF led.valid /\ led.running = mode /\ mode \in Still
                           THEN matrix ELSE [matrix EXCEPT !.pic = Picture(mode)]
  /\ UNCHANGED <<host, file, screen, sel, by>>

NotItsTurn ==
  /\ at = "native" /\ at' = "input"
  /\ UNCHANGED <<led, host, matrix, file, screen, sel, by>>

Pass ==
  /\ at = "input" /\ at' = "drain"
  /\ UNCHANGED <<led, host, matrix, file, screen, sel, by>>

-----------------------------------------------------------------------------
(* A program: matrix.py, run by the service, or an app, run from the menu *)
Runs == at \in {"script", "app"}

Calls(op) == op \in IF at = "script" THEN ScriptCalls ELSE AppCalls

Stay == UNCHANGED <<file, screen, sel, at, by>>

\* matrix_app_start(callback)
Start ==
  /\ Runs /\ Calls("start")
  /\ host' = [host EXCEPT !.cb = by, !.claimed = TRUE,
                          !.over = @ /\ ~host.weOver, !.weOver = FALSE]
  /\ matrix' = SetActive(matrix, TRUE)
  /\ UNCHANGED led /\ Stay

\* matrix_app_stop()
Stop ==
  /\ Runs /\ Calls("stop")
  /\ host' = [host EXCEPT !.cb = None] /\ matrix' = SetActive(matrix, FALSE)
  /\ UNCHANGED led /\ Stay

\* led_set_pixel, led_clear, led_set_frame ... : an active callback is held off.
Draw ==
  /\ Runs /\ Calls("draw")
  /\ host' = IF host.claimed \/ host.over \/ host.cb = None THEN host
             ELSE [host EXCEPT !.over = TRUE, !.weOver = TRUE]
  /\ matrix' = [NoteActivity(matrix) EXCEPT !.pic = App]
  /\ UNCHANGED led /\ Stay

OverrideBegin ==
  /\ Runs /\ Calls("override") /\ (Careful => led.depth = 0)
  /\ host' = [host EXCEPT !.over = TRUE] /\ led' = BeginOverride(led)
  /\ UNCHANGED matrix /\ Stay

OverrideEnd ==
  /\ Runs /\ Calls("override") /\ (Careful => led.depth = 1)
  /\ host' = [host EXCEPT !.over = FALSE]
  /\ matrix' = EndOverrideMatrix(led, matrix)
  /\ led' \in RestoreAmbient(EndOverride(led), file)
  /\ Stay

\* The program sleeps and mpy_service_pump ticks the callback.
Sleep ==
  /\ Runs /\ Tick
  /\ UNCHANGED led /\ Stay

\* Mutant: the menu does not take the matrix back.
ReturnOnly ==
  /\ Runs /\ (Careful => led.depth = 0)
  /\ host' = [host EXCEPT !.over = @ /\ ~host.weOver, !.session = FALSE,
                          !.claimed = FALSE, !.weOver = FALSE]
  /\ IF host.weOver THEN led' \in RestoreAmbient(led, file) ELSE UNCHANGED led
  /\ at' = IF at = "app" THEN "drain" ELSE "tick"
  /\ by' = None
  /\ UNCHANGED <<matrix, file, screen, sel>>

\* It returns, raises, or the user forces it out.  The menu then takes the
\* matrix back; the service does not.
Return ==
  /\ Runs /\ (Careful => led.depth = 0)
  /\ host' = [host EXCEPT !.over = @ /\ ~host.weOver, !.session = FALSE,
                          !.claimed = FALSE, !.weOver = FALSE]
  /\ IF host.weOver THEN led' \in RestoreAmbient(led, file) ELSE UNCHANGED led
  /\ matrix' = IF at = "app" /\ matrix.hold /\ host.cb = None
                 THEN SetActive(matrix, FALSE) ELSE matrix
  /\ at' = IF at = "app" THEN "drain" ELSE "tick"
  /\ by' = None
  /\ UNCHANGED <<file, screen, sel>>

Program == Start \/ Stop \/ Draw \/ OverrideBegin \/ OverrideEnd \/ Sleep \/ Return

-----------------------------------------------------------------------------
(* The user *)
In(s) == at = "input" /\ screen = s

LaunchApp ==
  /\ In("menu") /\ at' = "app" /\ by' = App /\ ForegroundBegin
  /\ UNCHANGED <<led, matrix, file, screen, sel>>

\* LEDScreen::onEnter stops the callback, to preview in peace.
OpenLedScreen ==
  /\ In("menu") /\ at' = "drain" /\ screen' = "led"
  /\ sel' = IF led.mode # PyApp THEN led.mode ELSE led.slug
  /\ host' = [host EXCEPT !.cb = None] /\ matrix' = SetActive(matrix, FALSE)
  /\ led' = IF led.mode = PyApp THEN EndPreview(led) ELSE BeginPreview(led, led.mode)
  /\ UNCHANGED <<file, by>>

\* moveMode
MoveMode ==
  /\ In("led") /\ at' = "drain"
  /\ \E entry \in Builtin \cup Apps :
       /\ sel' = entry
       /\ led' = IF entry \in Apps THEN EndPreview(led) ELSE UpdatePreview(led, entry)
  /\ UNCHANGED <<host, matrix, file, screen, by>>

Confirm ==
  /\ In("led") /\ at' = "drain" /\ screen' = "menu" /\ sel' = None
  /\ IF sel \in Apps THEN Commit(PyApp, sel) ELSE Commit(sel, None)
  /\ UNCHANGED by

\* popScreen and onExit, with nothing committed
Leave ==
  /\ In("led") /\ at' = "drain" /\ screen' = "menu" /\ sel' = None
  /\ IF led.mode = PyApp THEN led' \in RestoreAmbient(EndPreview(led), file)
                         ELSE led' = EndPreview(led)
  /\ UNCHANGED <<host, matrix, file, by>>

\* SettingsScreen, enterEditMode and exitEditMode of the LED brightness
EditBrightness ==
  /\ In("menu") /\ at' = "drain" /\ screen' = "settings"
  /\ led' = BeginOverride(led) /\ matrix' = [matrix EXCEPT !.pic = "level"]
  /\ UNCHANGED <<host, file, sel, by>>

EndEdit ==
  /\ In("settings") /\ at' = "drain" /\ screen' = "menu"
  /\ led' = EndOverride(led) /\ matrix' = EndOverrideMatrix(led, matrix)
  /\ UNCHANGED <<host, file, sel, by>>

\* doom_resources_enter: no service runs until doom_resources_exit.
PlayDoom ==
  /\ In("menu") /\ at' = "doom"
  /\ host' = [host EXCEPT !.over = TRUE] /\ led' = BeginOverride(BeginOverride(led))
  /\ matrix' = [matrix EXCEPT !.pic = "game"]
  /\ UNCHANGED <<file, screen, sel, by>>

QuitDoom ==
  /\ at = "doom" /\ at' = "drain"
  /\ host' = [host EXCEPT !.over = FALSE]
  /\ matrix' = EndOverrideMatrix(Released(led), EndOverrideMatrix(led, matrix))
  /\ led' \in RestoreAmbient(EndOverride(EndOverride(led)), file)
  /\ UNCHANGED <<file, screen, sel, by>>

User ==
  \/ Pass \/ LaunchApp \/ OpenLedScreen \/ MoveMode \/ Confirm \/ Leave
  \/ EditBrightness \/ EndEdit \/ PlayDoom \/ QuitDoom

-----------------------------------------------------------------------------
Fresh == [mode |-> "temporal", slug |-> None, preview |-> None, running |-> "off",
          valid |-> FALSE, depth |-> 0, pending |-> None]
NoHost == [cb |-> None, over |-> FALSE, session |-> FALSE, claimed |-> FALSE, weOver |-> FALSE]
Blank == [mp |-> FALSE, hold |-> FALSE, pic |-> Dark]

Init ==
  /\ led = Fresh /\ host = NoHost /\ matrix = Blank
  /\ screen = "menu" /\ sel = None /\ at = "boot" /\ by = None
  /\ file \in Files

\* At any moment
Reset ==
  /\ at # "boot" /\ at' = "boot" /\ led' = Fresh /\ host' = NoHost /\ matrix' = Blank
  /\ screen' = "menu" /\ sel' = None /\ by' = None
  /\ UNCHANGED file

\* begin()
Begin ==
  /\ at = "boot" /\ at' = "drain" /\ led' \in RestoreAmbient(led, file)
  /\ UNCHANGED <<host, matrix, file, screen, sel, by>>

Next ==
  \/ NothingPending \/ SourceScript \/ ServiceTick \/ Native \/ NotItsTurn
  \/ Program \/ User \/ Reset \/ Begin

Spec == Init /\ [][Next]_vars

\* The loop runs, LEDAppRuntime gets its turn, and matrix.py returns.
Fairness ==
  /\ WF_vars(Begin) /\ WF_vars(NothingPending) /\ WF_vars(SourceScript) /\ WF_vars(ServiceTick)
  /\ WF_vars(NotItsTurn) /\ SF_vars(Native) /\ WF_vars(Pass)
  /\ WF_vars(at = "script" /\ Return)

FairSpec == Spec /\ Fairness

-----------------------------------------------------------------------------
Leds ==
  [mode : Modes, slug : Apps \cup {None}, preview : Builtin \cup {None},
   running : Modes \cup {"off"}, valid : BOOLEAN, depth : 0..MaxDepth,
   pending : Apps \cup {None}]

Hosts ==
  [cb : Owners \cup {None}, over : BOOLEAN, session : BOOLEAN, claimed : BOOLEAN,
   weOver : BOOLEAN]

Pictures == Owners \cup Builtin \cup {Dark, "level", "game"}
Matrices == [mp : BOOLEAN, hold : BOOLEAN, pic : Pictures]

\* The type of the state: the depth of overrides, in particular, stays a byte.
TypeOK ==
  /\ led \in Leds /\ host \in Hosts /\ matrix \in Matrices /\ file \in Files
  /\ screen \in {"menu", "led", "settings"} /\ sel \in Builtin \cup Apps \cup {None}
  /\ at \in {"boot", "drain", "script", "tick", "native", "input", "app", "doom"}
  /\ by \in Owners \cup {None}

\* What matrix.py has registered, and the script that waits to run, are those of
\* the app the user has selected: no change of mode leaves the outgoing one
\* drawing, or has its script run after the change (commitMode tears down the
\* callback, and the order of the loop runs the queue before the next input).
OnlySelected ==
  \A a \in Apps :
    host.cb = a \/ led.pending = a \/ (at = "script" /\ by = a)
      => led.mode = PyApp /\ led.slug = a

\* Between programs, a built-in mode without a callback is not locked out: the
\* matrix is not left in MicroPython's hands, where LEDAppRuntime::service()
\* returns at once and for ever.
HoldReleased ==
  ~Runs /\ led.mode # PyApp /\ host.cb = None => ~matrix.mp /\ ~matrix.hold

\* Once the user leaves the badge alone, a matrix that no callback draws on comes
\* to show the built-in mode that is selected, and keeps showing it, if the programs
\* before closed their overrides (Careful: one that leaves one open ends this for
\* good).  A mode that is drawn once is left out: others clear the matrix and do not
\* tell the runtime.
Idle      == screen = "menu" /\ at \notin {"app", "doom", "boot"}
Selected  == led.mode \in Builtin \ Still /\ host.cb = None
Settles   == <>[]Idle => <>[](Selected => matrix.pic = Picture(led.mode))

=============================================================================
