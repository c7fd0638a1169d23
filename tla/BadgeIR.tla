------------------------------ MODULE BadgeIR -------------------------------
(***************************************************************************)
(* The infrared transport of one badge (firmware/src/ir/BadgeIR.cpp): the  *)
(* hardware brought up and torn down by irTask on core 0 as core 1 asks for *)
(* it, and the receive path from the decode task through irTask to MicroPython. *)
(*                                                                         *)
(* Three threads interleave: irTask; the decode task of nec_rx.c, which may *)
(* run on either core; and core 1, which runs the screens and MicroPython   *)
(* one call at a time.  What smTick does in a boop is in BoopProtocol; here *)
(* it takes frames and moves the phase in and out of IDLE.  The modes of the *)
(* IR playground and their queues are left out.                            *)
(***************************************************************************)
EXTENDS Naturals, Sequences

CONSTANTS
  FrameDepth,    \* length of s_frame_queue: 4
  WordsDepth,    \* length of s_python_rx_words_queue: 2
  RingHolds,     \* what irPythonQueue can hold, IR_PYTHON_QUEUE_SIZE - 1: 7
  TxDepth,       \* length of s_python_tx_queue: 4
  MaxBursts      \* bound: bursts that reach the receiver

ASSUME DepthAssumption ==
  /\ {FrameDepth, WordsDepth, RingHolds, TxDepth} \subseteq Nat \ {0}
  /\ MaxBursts \in Nat

Bursts    == 1 .. MaxBursts     \* received bursts, numbered as they arrive
NoBurst   == 0
Resources == {"contexts", "queues", "transmitter", "receiver"}

TaskSteps == {"asleep", "init", "retry", "reinit", "up", "loop", "tick", "feed",
              "drain", "ring", "words", "send", "shut", "deinit", "delete", "off"}
Calls     == {"none", "wait", "frames", "words", "ring"}

VARIABLES
  enabled, listening,   \* irHardwareEnabled, pythonIrListening
  busy,                 \* boopStatus.phase # IDLE
  pc,                   \* where irTask stands
  got,                  \* what irHwInit has acquired
  hwUp,                 \* s_hw_up
  dec,                  \* the burst in the hands of the decode task
  frames, held,         \* s_frame_queue; the frame feedPythonQueue has taken from it
  ring, words,          \* irPythonQueue, s_python_rx_words_queue
  tx,                   \* how many requests wait in s_python_tx_queue
  call,                 \* where core 1 stands in ir_start or irDrainPythonRx
  arrived,              \* history: how many bursts have arrived
  mark                  \* history: how many had been received when the last drain began

flags   == <<enabled, listening, busy>>
device  == <<got, hwUp>>
inbound == <<frames, held, ring, words>>
core1   == <<call, mark>>
vars    == <<flags, pc, device, dec, inbound, tx, core1, arrived>>

QueueOf(n) == {q \in Seq(Bursts) : Len(q) <= n}

TypeOK ==
  /\ enabled \in BOOLEAN /\ listening \in BOOLEAN /\ busy \in BOOLEAN
  /\ hwUp \in BOOLEAN
  /\ pc \in TaskSteps /\ got \in SUBSET Resources /\ call \in Calls
  /\ frames \in QueueOf(FrameDepth) /\ words \in QueueOf(WordsDepth)
  /\ ring \in QueueOf(RingHolds) /\ tx \in 0 .. TxDepth
  /\ dec \in 0 .. MaxBursts /\ held \in 0 .. MaxBursts
  /\ arrived \in 0 .. MaxBursts /\ mark \in 0 .. MaxBursts /\ dec <= arrived

Init ==
  /\ enabled = FALSE /\ listening = FALSE /\ busy = FALSE
  /\ pc = "asleep" /\ got = {} /\ hwUp = FALSE
  /\ dec = NoBurst /\ frames = <<>> /\ held = NoBurst /\ ring = <<>> /\ words = <<>>
  /\ tx = 0
  /\ call = "none" /\ mark = 0 /\ arrived = 0

\* A queue that is full drops the newest.
Offered(q, b, depth) == IF Len(q) < depth THEN Append(q, b) ELSE q

\* irShouldBeActive
Active == enabled \/ listening

-----------------------------------------------------------------------------
(* irTask: bringing the hardware up. *)

Wake ==
  /\ pc = "asleep" /\ Active
  /\ pc' = "init"
  /\ UNCHANGED <<flags, device, dec, inbound, tx, core1, arrived>>

\* irHwInit acquires in this order ...
Precedes(r) ==
  CASE r = "contexts"    -> {}
    [] r = "queues"      -> {"contexts"}
    [] r = "transmitter" -> {"contexts", "queues"}
    [] r = "receiver"    -> {"contexts", "queues", "transmitter"}

\* Mutant: the last failure path forgets the transmitter.
GivesBackLess(r) ==
  IF r = "contexts" THEN {"contexts"} ELSE {"contexts", "queues"}

\* ... and the path taken when `r` cannot be had gives back this much.
GivesBack(r) ==
  CASE r = "contexts"                -> {"contexts"}
    [] r \in {"queues", "transmitter"} -> {"contexts", "queues"}
    [] r = "receiver"                -> {"transmitter", "contexts", "queues"}

Acquire(r) ==
  /\ pc \in {"init", "reinit"} /\ got = Precedes(r)
  /\ got' = got \cup {r}
  /\ UNCHANGED <<flags, pc, hwUp, dec, inbound, tx, core1, arrived>>

ComeUp ==
  /\ pc \in {"init", "reinit"} /\ got = Resources
  /\ hwUp' = TRUE
  /\ pc' = "up"
  /\ UNCHANGED <<flags, got, dec, inbound, tx, core1, arrived>>

\* A first failure shows FAILED and starts the retries; a later one only waits.
CannotAcquire(r) ==
  /\ pc \in {"init", "reinit"} /\ got = Precedes(r)
  /\ got' = got \ GivesBack(r)
  /\ frames' = <<>> /\ words' = <<>> /\ tx' = 0
  /\ busy' = (busy \/ pc = "init")
  /\ pc' = "retry"
  /\ UNCHANGED <<enabled, listening, hwUp, dec, held, ring, core1, arrived>>

\* Mutant: one attempt per request.
RetryNever ==
  /\ pc = "retry" /\ ~Active
  /\ pc' = "asleep"
  /\ UNCHANGED <<flags, device, dec, inbound, tx, core1, arrived>>

Retry ==
  /\ pc = "retry"
  /\ pc' = IF Active THEN "reinit" ELSE "asleep"
  /\ UNCHANGED <<flags, device, dec, inbound, tx, core1, arrived>>

\* The smReset before the loop.
StartOver ==
  /\ pc = "up"
  /\ busy' = FALSE /\ pc' = "loop"
  /\ UNCHANGED <<enabled, listening, device, dec, inbound, tx,
                 core1, arrived>>

-----------------------------------------------------------------------------
(* irTask: one round of its loop. *)

\* Mutant: the loop is not left.
LoopOn ==
  /\ pc = "loop"
  /\ pc' = "tick"
  /\ UNCHANGED <<flags, device, dec, inbound, tx, core1, arrived>>

Loop ==
  /\ pc = "loop"
  /\ pc' = IF Active THEN "tick" ELSE "shut"
  /\ UNCHANGED <<flags, device, dec, inbound, tx, core1, arrived>>

\* smTick, with the screen open: takes any number of frames, and a boop may
\* begin, go on or end.
Boop ==
  /\ pc = "tick" /\ enabled
  /\ \E n \in 0 .. Len(frames) : frames' = SubSeq(frames, n + 1, Len(frames))
  /\ busy' \in BOOLEAN
  /\ pc' = "feed"
  /\ UNCHANGED <<enabled, listening, device, dec, held, ring, words, tx,
                 core1, arrived>>

NoBoop ==
  /\ pc = "tick" /\ ~enabled
  /\ busy' = FALSE /\ pc' = "feed"
  /\ UNCHANGED <<enabled, listening, device, dec, inbound, tx, core1, arrived>>

\* Mutant: the phase is not looked at.
FeedAlways ==
  /\ pc = "feed"
  /\ pc' = IF listening THEN "drain" ELSE "send"
  /\ UNCHANGED <<flags, device, dec, inbound, tx, core1, arrived>>

\* feedPythonQueue: its two conditions are looked at once, then the frame queue
\* is emptied frame by frame, each into the ring and then the words queue.
Feed ==
  /\ pc = "feed"
  /\ pc' = IF listening /\ ~busy THEN "drain" ELSE "send"
  /\ UNCHANGED <<flags, device, dec, inbound, tx, core1, arrived>>

TakeFrame ==
  /\ pc = "drain"
  /\ \/ /\ frames # <<>>
        /\ held' = Head(frames) /\ frames' = Tail(frames) /\ pc' = "ring"
     \/ /\ frames = <<>>
        /\ pc' = "send" /\ UNCHANGED <<held, frames>>
  /\ UNCHANGED <<flags, device, dec, ring, words, tx, core1, arrived>>

PutInRing ==
  /\ pc = "ring"
  /\ ring' = Offered(ring, held, RingHolds)
  /\ pc' = "words"
  /\ UNCHANGED <<flags, device, dec, frames, held, words, tx, core1, arrived>>

PutInWords ==
  /\ pc = "words"
  /\ words' = Offered(words, held, WordsDepth)
  /\ held' = NoBurst /\ pc' = "drain"
  /\ UNCHANGED <<flags, device, dec, frames, ring, tx, core1, arrived>>

\* servicePythonTx sends until its queue is empty.
Transmit ==
  /\ pc = "send"
  /\ \/ tx > 0 /\ tx' = tx - 1 /\ pc' = pc
     \/ tx = 0 /\ tx' = tx /\ pc' = "loop"
  /\ UNCHANGED <<flags, device, dec, inbound, core1, arrived>>

-----------------------------------------------------------------------------
(* irTask: tearing the hardware down. *)

\* smShutdown
Shut ==
  /\ pc = "shut"
  /\ busy' = FALSE /\ pc' = "deinit"
  /\ UNCHANGED <<enabled, listening, device, dec, inbound, tx, core1, arrived>>

\* irHwDeinit: the receiver goes with its decode task ...
StopRadio ==
  /\ pc = "deinit"
  /\ got' = got \ {"receiver", "transmitter"} /\ dec' = NoBurst
  /\ pc' = "delete"
  /\ UNCHANGED <<flags, hwUp, inbound, tx, core1, arrived>>

\* ... then the queues ...
DeleteQueues ==
  /\ pc = "delete"
  /\ got' = got \ {"queues"}
  /\ frames' = <<>> /\ words' = <<>> /\ tx' = 0
  /\ pc' = "off"
  /\ UNCHANGED <<flags, hwUp, dec, held, ring, core1, arrived>>

\* ... and only then s_hw_up.
GoDown ==
  /\ pc = "off"
  /\ hwUp' = FALSE /\ got' = got \ {"contexts"} /\ pc' = "asleep"
  /\ UNCHANGED <<flags, dec, inbound, tx, core1, arrived>>

-----------------------------------------------------------------------------
(* The decode task. *)

\* A burst arrives and is decoded ...
Arrive ==
  /\ "receiver" \in got /\ dec = NoBurst /\ arrived < MaxBursts
  /\ arrived' = arrived + 1 /\ dec' = arrived'
  /\ UNCHANGED <<flags, pc, device, inbound, tx, core1>>

\* Mutant: the newest frame goes to the front.
FrameInFront ==
  /\ dec # NoBurst
  /\ dec' = NoBurst
  /\ frames' \in {frames, IF Len(frames) < FrameDepth THEN <<dec>> \o frames ELSE frames}
  /\ UNCHANGED <<flags, pc, device, held, ring, words, tx, core1, arrived>>

\* ... and on_frame_rx puts a frame with a good CRC into the frame queue.
FrameIn ==
  /\ dec # NoBurst
  /\ dec' = NoBurst
  /\ frames' \in {frames, Offered(frames, dec, FrameDepth)}
  /\ UNCHANGED <<flags, pc, device, held, ring, words, tx, core1, arrived>>

-----------------------------------------------------------------------------
(* Core 1. *)

Idle == call = "none"

\* Bursts received so far, not counting the one being decoded.
Received == IF dec = NoBurst THEN arrived ELSE arrived - 1

\* Entering and leaving the boop screen, and its buttons, of which the one on the
\* result screen resets the phase.
OpenScreen ==
  /\ Idle /\ ~enabled
  /\ enabled' = TRUE
  /\ UNCHANGED <<listening, busy, pc, device, dec, inbound, tx, core1, arrived>>

CloseScreen ==
  /\ Idle /\ enabled
  /\ enabled' = FALSE /\ busy' = FALSE
  /\ UNCHANGED <<listening, pc, device, dec, inbound, tx, core1, arrived>>

PressStart ==
  /\ Idle /\ enabled /\ busy
  /\ busy' = FALSE
  /\ UNCHANGED <<enabled, listening, pc, device, dec, inbound, tx, core1, arrived>>

\* ir_start: set the flag, wait for the hardware or half a second, drain.
IrStart ==
  /\ Idle
  /\ listening' = TRUE /\ call' = "wait"
  /\ UNCHANGED <<enabled, busy, pc, device, dec, inbound, tx, mark, arrived>>

EndWait ==
  /\ call = "wait"
  /\ call' = "frames" /\ mark' = Received
  /\ UNCHANGED <<flags, pc, device, dec, inbound, tx, arrived>>

\* ir_stop, and ir_flush, which leaves the flag alone.
IrStop ==
  /\ Idle
  /\ listening' = FALSE
  /\ call' = "frames" /\ mark' = Received
  /\ UNCHANGED <<enabled, busy, pc, device, dec, inbound, tx, arrived>>

IrFlush ==
  /\ Idle
  /\ call' = "frames" /\ mark' = Received
  /\ UNCHANGED <<flags, pc, device, dec, inbound, tx, arrived>>

\* Mutant: the frame queue is left for irTask to deliver.
DrainFramesNot ==
  /\ call = "frames" /\ call' = "words"
  /\ UNCHANGED <<flags, pc, device, dec, inbound, tx, mark, arrived>>

\* irDrainPythonRx: the frame queue, then the words, then the ring.
DrainFrames ==
  /\ call = "frames"
  /\ frames' = <<>> /\ call' = "words"
  /\ UNCHANGED <<flags, pc, device, dec, held, ring, words, tx, mark, arrived>>

DrainWords ==
  /\ call = "words"
  /\ words' = <<>> /\ call' = "ring"
  /\ UNCHANGED <<flags, pc, device, dec, frames, held, ring, tx, mark, arrived>>

DrainRing ==
  /\ call = "ring"
  /\ ring' = <<>> /\ call' = "none"
  /\ UNCHANGED <<flags, pc, device, dec, frames, held, words, tx, mark, arrived>>

IrRead ==
  /\ Idle /\ ring # <<>>
  /\ ring' = Tail(ring)
  /\ UNCHANGED <<flags, pc, device, dec, frames, held, words, tx, core1, arrived>>

IrReadWords ==
  /\ Idle /\ words # <<>>
  /\ words' = Tail(words)
  /\ UNCHANGED <<flags, pc, device, dec, frames, held, ring, tx, core1, arrived>>

\* irSendRaw and irSendWords: refused without the queue, given up if it stays full.
IrSend ==
  /\ Idle /\ "queues" \in got /\ tx < TxDepth
  /\ tx' = tx + 1
  /\ UNCHANGED <<flags, pc, device, dec, inbound, core1, arrived>>

-----------------------------------------------------------------------------
IrTask ==
  \/ Wake \/ ComeUp \/ Retry \/ StartOver
  \/ \E r \in Resources : Acquire(r) \/ CannotAcquire(r)
  \/ Loop \/ Boop \/ NoBoop \/ Feed \/ TakeFrame \/ PutInRing \/ PutInWords \/ Transmit
  \/ Shut \/ StopRadio \/ DeleteQueues \/ GoDown

Decode == Arrive \/ FrameIn

Draining == EndWait \/ DrainFrames \/ DrainWords \/ DrainRing

Core1 ==
  \/ OpenScreen \/ CloseScreen \/ PressStart
  \/ IrStart \/ IrStop \/ IrFlush \/ Draining
  \/ IrRead \/ IrReadWords \/ IrSend

Next == IrTask \/ Decode \/ Core1

Spec == Init /\ [][Next]_vars

\* irTask and the decode task run whenever they can, a call on core 1 goes on
\* once begun, and memory and channels that are missing are free again some time.
FairSpec ==
  /\ Spec
  /\ WF_vars(IrTask) /\ WF_vars(FrameIn) /\ WF_vars(Draining)
  /\ \A r \in Resources : SF_vars(Acquire(r))

-----------------------------------------------------------------------------
(* Properties. *)

Increasing(s) == \A i, j \in DOMAIN s : i < j => s[i] < s[j]
Hand(b)       == IF b = NoBurst THEN <<>> ELSE <<b>>

\* MicroPython sees frames in the order they came and none twice, in either of
\* its queues, although they pass through three threads' hands and are drained
\* meanwhile (feedPythonQueue, on_frame_rx, irDrainPythonRx).
InOrder ==
  LET coming == frames \o Hand(dec) IN
  /\ Increasing(ring \o (IF pc = "ring" THEN Hand(held) ELSE <<>>) \o coming)
  /\ Increasing(words \o Hand(held) \o coming)

\* After a drain MicroPython can still be given at most one frame received before
\* it, the one irTask had just taken from the frame queue: the order in which
\* irDrainPythonRx empties the queues is what ensures that it is not more.
Elements(q) == {q[i] : i \in DOMAIN q}
Stale       == {b \in Elements(frames \o ring \o words) \cup {held} : b # NoBurst /\ b <= mark}
FewStale    == Idle => \A a, b \in Stale : a = b

\* Whatever irHwInit failed on, and however often, irTask sleeps holding nothing,
\* with no frame and no request left (the failure paths of irHwInit, irHwDeinit).
NothingHeldAsleep ==
  pc \in {"asleep", "retry"} =>
    /\ got = {} /\ ~hwUp /\ held = NoBurst /\ dec = NoBurst
    /\ frames = <<>> /\ words = <<>> /\ tx = 0

\* The frames of a boop are not handed to MicroPython: feedPythonQueue looks at
\* the phase once and then moves frames until the queue is empty, while core 1
\* may start or leave boops.
BoopKeepsItsFrames == [][(held # held' /\ held' # NoBurst) => ~busy]_vars

\* If somebody wants infrared from some time on, it comes up and stays up, however
\* irTask had to retry (the retry loop of irTask).
ComesUp == <>[]Active => <>[]hwUp

\* If nobody wants it any more, and MicroPython stops sending, irTask lets go of
\* the hardware and sleeps (the end of irTask's loop).
GoesDown == (<>[](~Active) /\ <>[][~IrSend]_vars) => <>[](pc = "asleep" /\ ~hwUp)

=============================================================================
