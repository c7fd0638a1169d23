--------------------------- MODULE Infrared_proofs ---------------------------
(***************************************************************************)
(* The infrared transport and the transmitter below it, for every length of *)
(* their queues, any number of bursts and all carriers.                     *)
(*                                                                         *)
(* BadgeIR: types, what irTask holds while it sleeps, whose frames those of *)
(* a boop are, in which order MicroPython gets the others, and what a drain *)
(* leaves behind (IInv, InLine, Drained).                                   *)
(*                                                                         *)
(* NecTx: there is one notification (OneToken); that is what keeps the ring *)
(* slot idle, and with is_transmitting (AirBusy) what makes the carrier of  *)
(* raw symbols theirs alone (CarrierOwned).                                 *)
(***************************************************************************)
EXTENDS BadgeIR, NecTx, TLAPS


\* What irTask holds at each of its steps.
Starting == pc \in {"init", "reinit"}
Down     == pc \in {"asleep", "retry"}
Feeding  == pc \in {"drain", "ring", "words"}

Ladder == {{}, {"contexts"}, {"contexts", "queues"},
           {"contexts", "queues", "transmitter"}, Resources}

Holdings ==
  /\ Down => got = {}
  /\ Starting => got \in Ladder
  /\ pc = "delete" => got = {"contexts", "queues"}
  /\ pc = "off" => got = {"contexts"}
  /\ pc \notin {"asleep", "retry", "init", "reinit", "delete", "off"} => got = Resources
  /\ hwUp => ~Down /\ ~Starting
  /\ held # NoBurst => pc \in {"ring", "words"}
  /\ dec # NoBurst => "receiver" \in got
  /\ "queues" \notin got => frames = <<>> /\ words = <<>> /\ tx = 0
  /\ Feeding => ~busy
  /\ pc \in {"ring", "words"} => held # NoBurst

IInv == TypeOK /\ Holdings

\* What is done to a queue leaves it one: a new queue is empty, a full one stays
\* as it is, smTick and the readers take from the front.
LEMMA EmptyQueue == ASSUME NEW n \in Nat PROVE <<>> \in QueueOf(n)
  BY DEF QueueOf

LEMMA OfferedQueue ==
  ASSUME NEW n \in Nat, NEW q \in QueueOf(n), NEW b \in Bursts
  PROVE  Offered(q, b, n) \in QueueOf(n)
  BY DEF Offered, QueueOf

LEMMA RestQueue ==
  ASSUME NEW n \in Nat, NEW q \in QueueOf(n), NEW k \in 0 .. Len(q)
  PROVE  SubSeq(q, k + 1, Len(q)) \in QueueOf(n)
  BY DEF QueueOf

LEMMA TailQueue ==
  ASSUME NEW n \in Nat, NEW q \in QueueOf(n), q # <<>>
  PROVE  Tail(q) \in QueueOf(n) /\ Head(q) \in Bursts
  BY DEF QueueOf

\* What a drain notes down is a number of bursts.
LEMMA ReceivedType == TypeOK => Received \in 0 .. MaxBursts
  BY DepthAssumption DEF TypeOK, Received, NoBurst

\* The invariant is inductive; it says of each step of irTask what is held there.
THEOREM InvHolds == Spec => []IInv
<1>0. FrameDepth \in Nat /\ WordsDepth \in Nat /\ RingHolds \in Nat /\ TxDepth \in Nat
      /\ MaxBursts \in Nat /\ Bursts = 1 .. MaxBursts /\ NoBurst = 0
  BY DepthAssumption DEF Bursts, NoBurst
<1> USE <1>0
<1>1. Init => IInv
  <2> SUFFICES ASSUME Init PROVE TypeOK /\ Holdings
    BY DEF IInv
  <2>1. TypeOK
    <3>1. /\ <<>> \in QueueOf(FrameDepth) /\ <<>> \in QueueOf(WordsDepth)
          /\ <<>> \in QueueOf(RingHolds)
      BY EmptyQueue
    <3>2. /\ pc \in TaskSteps /\ call \in Calls /\ got \in SUBSET Resources
          /\ enabled \in BOOLEAN /\ listening \in BOOLEAN /\ busy \in BOOLEAN
          /\ hwUp \in BOOLEAN
      BY DEF Init, TaskSteps, Calls
    <3>3. 0 \in 0 .. MaxBursts /\ 0 \in 0 .. TxDepth
      OBVIOUS
    <3> QED
      BY <3>1, <3>2, <3>3 DEF Init, TypeOK
  <2>2. Holdings
    BY DEF Init, Holdings, Starting, Down, Feeding
  <2> QED
    BY <2>1, <2>2
<1>2. IInv /\ [Next]_vars => IInv'
  <2> SUFFICES ASSUME IInv, [Next]_vars
               PROVE  IInv'
    OBVIOUS
  <2> USE DEF IInv, TypeOK, Holdings, Starting, Down, Feeding, Ladder, Resources,
             TaskSteps, Calls, flags, device, inbound, core1
  <2>1. CASE Wake
    BY <2>1 DEF Wake, Active
  <2>2. CASE ComeUp
    BY <2>2 DEF ComeUp
  <2>3. CASE Retry
    BY <2>3 DEF Retry, Active
  <2>4. CASE StartOver
    BY <2>4 DEF StartOver
  <2>5. CASE Loop
    BY <2>5 DEF Loop, Active
  <2>6. CASE Boop
    BY RestQueue, <2>6 DEF Boop
  <2>7. CASE NoBoop
    BY <2>7 DEF NoBoop
  <2>8. CASE Feed
    BY <2>8 DEF Feed
  <2>9. CASE TakeFrame
    <3>1. TypeOK'
      <4>1. CASE frames # <<>> /\ held' = Head(frames) /\ frames' = Tail(frames) /\ pc' = "ring"
        <5>1. frames' \in QueueOf(FrameDepth) /\ held' \in Bursts
          BY <4>1, TailQueue
        <5> QED
          BY <5>1, <4>1, <2>9 DEF TakeFrame
      <4>2. CASE pc' = "send" /\ UNCHANGED <<held, frames>>
        BY <4>2, <2>9 DEF TakeFrame
      <4> QED
        BY <4>1, <4>2, <2>9 DEF TakeFrame
    <3>2. Holdings'
      BY TailQueue, <2>9 DEF TakeFrame
    <3> QED
      BY <3>1, <3>2
  <2>10. CASE PutInRing
    BY OfferedQueue, <2>10 DEF PutInRing
  <2>11. CASE PutInWords
    BY OfferedQueue, <2>11 DEF PutInWords
  <2>12. CASE Transmit
    BY <2>12 DEF Transmit
  <2>13. CASE Shut
    BY <2>13 DEF Shut
  <2>14. CASE StopRadio
    BY <2>14 DEF StopRadio
  <2>15. CASE DeleteQueues
    BY EmptyQueue, <2>15 DEF DeleteQueues
  <2>16. CASE GoDown
    BY <2>16 DEF GoDown
  <2>17. CASE Arrive
    BY <2>17 DEF Arrive
  <2>18. CASE FrameIn
    BY OfferedQueue, <2>18 DEF FrameIn
  <2>19. CASE OpenScreen
    BY <2>19 DEF OpenScreen, Idle
  <2>20. CASE CloseScreen
    <3>1. TypeOK'
      BY <2>20 DEF CloseScreen, Idle
    <3>2. Holdings'
      BY <2>20 DEF CloseScreen, Idle
    <3> QED
      BY <3>1, <3>2
  <2>21. CASE PressStart
    <3>1. TypeOK'
      BY <2>21 DEF PressStart, Idle
    <3>2. Holdings'
      BY <2>21 DEF PressStart, Idle
    <3> QED
      BY <3>1, <3>2
  <2>22. CASE IrStart
    BY <2>22 DEF IrStart, Idle
  <2>23. CASE IrStop
    <3>1. TypeOK'
      BY <2>23, ReceivedType DEF IrStop, Idle
    <3>2. Holdings'
      BY <2>23, ReceivedType DEF IrStop, Idle
    <3> QED
      BY <3>1, <3>2
  <2>24. CASE IrFlush
    BY <2>24, ReceivedType DEF IrFlush, Idle
  <2>25. CASE EndWait
    BY <2>25, ReceivedType DEF EndWait, Idle
  <2>26. CASE DrainFrames
    BY EmptyQueue, <2>26 DEF DrainFrames
  <2>27. CASE DrainWords
    BY EmptyQueue, <2>27 DEF DrainWords
  <2>28. CASE DrainRing
    BY EmptyQueue, <2>28 DEF DrainRing
  <2>29. CASE IrRead
    BY TailQueue, <2>29 DEF IrRead, Idle
  <2>30. CASE IrReadWords
    BY TailQueue, <2>30 DEF IrReadWords, Idle
  <2>31. CASE IrSend
    BY <2>31 DEF IrSend, Idle
  <2>32. ASSUME NEW r \in Resources, Acquire(r)
        PROVE  IInv'
    BY <2>32 DEF Acquire, Precedes
  <2>33. ASSUME NEW r \in Resources, CannotAcquire(r)
        PROVE  IInv'
    BY EmptyQueue, <2>33 DEF CannotAcquire, Precedes, GivesBack
  <2>34. CASE UNCHANGED vars
    BY <2>34 DEF vars
  <2> QED
    BY <2>1, <2>2, <2>3, <2>4, <2>5, <2>6, <2>7, <2>8, <2>9, <2>10, <2>11, <2>12, <2>13,
       <2>14, <2>15, <2>16, <2>17, <2>18, <2>19, <2>20, <2>21, <2>22, <2>23, <2>24, <2>25,
       <2>26, <2>27, <2>28, <2>29, <2>30, <2>31, <2>32, <2>33, <2>34 DEF Next, IrTask,
       Decode, Core1, Draining
<1> QED
  BY <1>1, <1>2, PTL DEF Spec

\* Types, for every length of the queues and any number of bursts.
THEOREM TypeCorrect == Spec => []TypeOK
  BY InvHolds, PTL DEF IInv

\* Whatever irHwInit fails on, and however irTask is told to stop, it sleeps with
\* no hardware, no queue and no frame (irHwInit, irHwDeinit).
THEOREM SleepsEmptyHanded == Spec => []NothingHeldAsleep
<1> USE DEF NoBurst
<1>1. IInv => NothingHeldAsleep
  BY DEF IInv, Holdings, Down, NothingHeldAsleep
<1> QED
  BY <1>1, InvHolds, PTL

\* feedPythonQueue takes a frame for MicroPython only while no boop is going on.
THEOREM BoopFramesStay == Spec => BoopKeepsItsFrames
<1>1. IInv /\ [Next]_vars => [(held # held' /\ held' # NoBurst) => ~busy]_vars
  <2> SUFFICES ASSUME IInv, Next, held # held', held' # NoBurst
               PROVE  ~busy
    BY DEF vars, inbound
  <2>1. TakeFrame
    BY DEF Next, IrTask, Decode, Core1, Draining, inbound, Wake, ComeUp, Retry, StartOver,
           Acquire, CannotAcquire, Loop, Boop, NoBoop, Feed, PutInRing, PutInWords,
           Transmit, Shut, StopRadio, DeleteQueues, GoDown, Arrive, FrameIn, OpenScreen,
           CloseScreen, PressStart, IrStart, IrStop, IrFlush, EndWait, DrainFrames,
           DrainWords, DrainRing, IrRead, IrReadWords, IrSend
  <2> QED
    BY <2>1 DEF TakeFrame, IInv, Holdings, Feeding
<1> QED
  BY <1>1, InvHolds, PTL DEF Spec, BoopKeepsItsFrames

-----------------------------------------------------------------------------
(* Order, and what a drain leaves behind. *)

\* Everything in s came before everything in t.
Before(s, t) == \A i \in DOMAIN s, j \in DOMAIN t : s[i] < t[j]

\* What has been received is in order wherever it is, and what is nearer to
\* MicroPython came before what is farther away: the two queues it reads, the frame
\* in irTask's hand, the frame queue, the burst being decoded.
Past(q) == \A i \in DOMAIN q : q[i] <= arrived /\ (dec # NoBurst => q[i] < dec)

InLine ==
  /\ Increasing(ring) /\ Increasing(words) /\ Increasing(frames)
  /\ Before(ring, frames) /\ Before(words, frames)
  /\ held # NoBurst =>
       /\ pc = "ring" => \A i \in DOMAIN ring : ring[i] < held
       /\ \A i \in DOMAIN words : words[i] < held
       /\ \A i \in DOMAIN frames : held < frames[i]
  /\ dec # NoBurst => dec = arrived /\ held # dec
  /\ Past(ring) /\ Past(words) /\ Past(frames)
  /\ held <= arrived

\* How far the last drain has come: once it has emptied the frame queue all frames
\* in it are new, and the queue it has emptied next can only get the one frame that
\* irTask had in its hand.
Old(b)        == b # NoBurst /\ b <= mark
AllNew(q)     == \A i \in DOMAIN q : mark < q[i]
OnlyOld(q, v) == \A i \in DOMAIN q : Old(q[i]) => q[i] = v

Drained ==
  /\ dec # NoBurst => mark < dec
  /\ mark <= arrived
  /\ call # "frames" => AllNew(frames)
  /\ call \notin {"frames", "words"} =>
       \E v \in 0 .. MaxBursts :
         /\ OnlyOld(words, v)
         /\ Old(held) => held = v
         /\ call # "ring" => OnlyOld(ring, v)

\* What taking from the front does to a queue in order.
LEMMA TailInLine ==
  ASSUME NEW n \in Nat, NEW q \in QueueOf(n), q # <<>>
  PROVE  /\ DOMAIN Tail(q) = 1 .. Len(q) - 1 /\ DOMAIN q = 1 .. Len(q)
         /\ \A i \in DOMAIN Tail(q) : Tail(q)[i] = q[i + 1] /\ i + 1 \in DOMAIN q
         /\ 1 \in DOMAIN q /\ Head(q) = q[1]
         /\ Increasing(q) => Increasing(Tail(q)) /\ \A i \in DOMAIN Tail(q) : q[1] < Tail(q)[i]
  BY DEF QueueOf, Increasing

\* A queue in order stays so when a later burst is offered to it.
LEMMA OfferedInLine ==
  ASSUME NEW n \in Nat, NEW q \in QueueOf(n), NEW b \in Bursts,
         NEW r, r = Offered(q, b, n)
  PROVE  /\ \A i \in DOMAIN r : r[i] = b \/ (i \in DOMAIN q /\ r[i] = q[i])
         /\ (Increasing(q) /\ \A i \in DOMAIN q : q[i] < b) => Increasing(r)
<1>1. q \in Seq(Bursts) /\ DOMAIN q = 1 .. Len(q) /\ Len(q) \in Nat
  BY DEF QueueOf
<1>2. CASE r = q
  BY <1>2
<1>3. CASE r = Append(q, b)
  <2>1. /\ DOMAIN r = 1 .. Len(q) + 1 /\ r[Len(q) + 1] = b
        /\ \A i \in 1 .. Len(q) : r[i] = q[i]
    BY <1>1, <1>3
  <2>2. \A i \in DOMAIN r : i = Len(q) + 1 \/ i \in DOMAIN q
    BY <1>1, <2>1
  <2>3. ASSUME Increasing(q), \A i \in DOMAIN q : q[i] < b, NEW i \in DOMAIN r,
               NEW j \in DOMAIN r, i < j
        PROVE  r[i] < r[j]
    <3>1. i \in DOMAIN q
      BY <1>1, <2>1, <2>3
    <3>2. CASE j = Len(q) + 1
      BY <2>1, <2>3, <3>1, <3>2, <1>1
    <3>3. CASE j \in DOMAIN q
      BY <2>1, <2>3, <3>1, <3>3, <1>1 DEF Increasing
    <3> QED
      BY <2>2, <3>2, <3>3
  <2> QED
    BY <1>1, <2>1, <2>2, <2>3 DEF Increasing
<1> QED
  BY <1>2, <1>3 DEF Offered

\* What smTick leaves in the queue is in order, too.
LEMMA RestInLine ==
  ASSUME NEW n \in Nat, NEW q \in QueueOf(n), NEW k \in 0 .. Len(q),
         NEW r, r = SubSeq(q, k + 1, Len(q))
  PROVE  /\ \A i \in DOMAIN r : i + k \in DOMAIN q /\ r[i] = q[i + k]
         /\ Increasing(q) => Increasing(r)
  BY SMTT(20) DEF QueueOf, Increasing

\* What is queued is a burst.
LEMMA InQueue ==
  ASSUME NEW n, NEW q \in QueueOf(n)
  PROVE  \A i \in DOMAIN q : q[i] \in Bursts
  BY DEF QueueOf

\* Most steps leave the queues alone or empty one, which keeps everything in line.
LEMMA InLineStep == IInv /\ InLine /\ [Next]_vars => InLine'
<1> SUFFICES ASSUME IInv, InLine, [Next]_vars
             PROVE  InLine'
  OBVIOUS
<1>0. /\ FrameDepth \in Nat /\ WordsDepth \in Nat /\ RingHolds \in Nat
      /\ Bursts = 1 .. MaxBursts /\ MaxBursts \in Nat /\ NoBurst = 0
  BY DepthAssumption DEF Bursts, NoBurst
<1>t. /\ frames \in QueueOf(FrameDepth) /\ words \in QueueOf(WordsDepth)
      /\ ring \in QueueOf(RingHolds)
      /\ dec \in 0 .. MaxBursts /\ held \in 0 .. MaxBursts /\ arrived \in 0 .. MaxBursts
  BY DEF IInv, TypeOK
<1>q. /\ \A i \in DOMAIN frames : frames[i] \in 1 .. MaxBursts
      /\ \A i \in DOMAIN words : words[i] \in 1 .. MaxBursts
      /\ \A i \in DOMAIN ring : ring[i] \in 1 .. MaxBursts
  BY <1>t, <1>0, InQueue
<1> USE <1>0
<1>1. CASE TakeFrame
  <2>1. CASE frames = <<>>
    BY <2>1, <1>1 DEF TakeFrame, IInv, Holdings, InLine, Before, Past
  <2>2. CASE frames # <<>>
    <3>1. /\ held' = frames[1] /\ frames' = Tail(frames) /\ pc' = "ring"
          /\ UNCHANGED <<dec, ring, words, arrived>>
      BY <1>1, <2>2, <1>t, TailInLine DEF TakeFrame
    <3>2. /\ \A i \in DOMAIN Tail(frames) :
               Tail(frames)[i] = frames[i + 1] /\ i + 1 \in DOMAIN frames /\ frames[1] < Tail(frames)[i]
          /\ 1 \in DOMAIN frames /\ Increasing(Tail(frames))
      BY <2>2, <1>t, TailInLine DEF InLine
    <3> QED
      BY <3>1, <3>2, <1>t, <1>q DEF InLine, Before, Past
  <2> QED
    BY <2>1, <2>2
<1>2. CASE PutInRing
  <2>1. held # 0 /\ held \in Bursts
    BY <1>2, <1>t DEF PutInRing, IInv, Holdings
  <2>2. /\ ring' = Offered(ring, held, RingHolds) /\ pc' = "words" /\ pc = "ring"
        /\ UNCHANGED <<dec, frames, held, words, arrived>>
    BY <1>2 DEF PutInRing
  <2>3. /\ \A i \in DOMAIN ring' : ring'[i] = held \/ (i \in DOMAIN ring /\ ring'[i] = ring[i])
        /\ Increasing(ring')
    BY <2>1, <2>2, <1>t, OfferedInLine DEF InLine
  <2> QED
    BY <2>1, <2>2, <2>3, <1>t, <1>q DEF InLine, Before, Past
<1>3. CASE PutInWords
  <2>1. held # 0 /\ held \in Bursts
    BY <1>3, <1>t DEF PutInWords, IInv, Holdings
  <2>2. /\ words' = Offered(words, held, WordsDepth) /\ held' = 0
        /\ UNCHANGED <<dec, frames, ring, arrived>>
    BY <1>3 DEF PutInWords
  <2>3. /\ \A i \in DOMAIN words' : words'[i] = held \/ (i \in DOMAIN words /\ words'[i] = words[i])
        /\ Increasing(words')
    BY <2>1, <2>2, <1>t, OfferedInLine DEF InLine
  <2> QED
    BY <2>1, <2>2, <2>3, <1>t, <1>q DEF InLine, Before, Past
<1>4. CASE Boop
  <2>1. PICK n \in 0 .. Len(frames) : frames' = SubSeq(frames, n + 1, Len(frames))
    BY <1>4 DEF Boop
  <2>2. /\ \A i \in DOMAIN frames' : i + n \in DOMAIN frames /\ frames'[i] = frames[i + n]
        /\ Increasing(frames')
    BY <2>1, <1>t, RestInLine DEF InLine
  <2>3. UNCHANGED <<dec, held, ring, words, arrived>> /\ held = 0
    BY <1>4 DEF Boop, IInv, Holdings
  <2> QED
    BY <2>2, <2>3, <1>t, <1>q DEF InLine, Before, Past
<1>5. CASE FrameIn
  <2>1. dec # 0 /\ dec \in Bursts /\ dec' = 0 /\ UNCHANGED <<pc, held, ring, words, arrived>>
    BY <1>5, <1>t DEF FrameIn
  <2>2. CASE frames' = frames
    BY <2>1, <2>2, <1>t, <1>q DEF InLine, Before, Past
  <2>3. CASE frames' = Offered(frames, dec, FrameDepth)
    <3>1. /\ \A i \in DOMAIN frames' :
               frames'[i] = dec \/ (i \in DOMAIN frames /\ frames'[i] = frames[i])
          /\ Increasing(frames')
      BY <2>1, <2>3, <1>t, OfferedInLine DEF InLine, Past
    <3>2. held # 0 => held < dec
      BY <2>1, <1>t DEF InLine
    <3> QED
      BY <2>1, <3>1, <3>2, <1>t, <1>q DEF InLine, Before, Past
  <2> QED
    BY <2>2, <2>3, <1>5 DEF FrameIn
<1>6. CASE Arrive
  BY <1>6, <1>t, <1>q DEF Arrive, InLine, Before, Past, inbound
<1>7. CASE IrRead
  <2>1. ring # <<>> /\ ring' = Tail(ring) /\ UNCHANGED <<pc, dec, frames, held, words, arrived>>
    BY <1>7 DEF IrRead
  <2>2. /\ \A i \in DOMAIN ring' : i + 1 \in DOMAIN ring /\ ring'[i] = ring[i + 1]
        /\ Increasing(ring')
    BY <2>1, <1>t, TailInLine DEF InLine
  <2> QED
    BY <2>1, <2>2, <1>t, <1>q DEF InLine, Before, Past
<1>8. CASE IrReadWords
  <2>1. words # <<>> /\ words' = Tail(words) /\ UNCHANGED <<pc, dec, frames, held, ring, arrived>>
    BY <1>8 DEF IrReadWords
  <2>2. /\ \A i \in DOMAIN words' : i + 1 \in DOMAIN words /\ words'[i] = words[i + 1]
        /\ Increasing(words')
    BY <2>1, <1>t, TailInLine DEF InLine
  <2> QED
    BY <2>1, <2>2, <1>t, <1>q DEF InLine, Before, Past
<1>9. ASSUME /\ frames' \in {frames, <<>>} /\ ring' \in {ring, <<>>} /\ words' \in {words, <<>>}
             /\ held' = held /\ dec' \in {dec, 0} /\ arrived' = arrived
             /\ pc' = "ring" => pc = "ring"
      PROVE  InLine'
  BY <1>9, <1>t, <1>q DEF InLine, Before, Past, Increasing
<1>10. CASE \/ Wake \/ ComeUp \/ Retry \/ StartOver \/ Loop \/ NoBoop \/ Feed \/ Transmit
            \/ Shut \/ StopRadio \/ DeleteQueues \/ GoDown
            \/ \E r \in Resources : Acquire(r) \/ CannotAcquire(r)
  BY <1>10, <1>9 DEF Wake, ComeUp, Retry, StartOver, Loop, NoBoop, Feed, Transmit, Shut,
     StopRadio, DeleteQueues, GoDown, Acquire, CannotAcquire, inbound
<1>11. CASE \/ OpenScreen \/ CloseScreen \/ PressStart \/ IrStart \/ IrStop \/ IrFlush
            \/ Draining \/ IrSend \/ UNCHANGED vars
  BY <1>11, <1>9 DEF OpenScreen, CloseScreen, PressStart, IrStart, IrStop, IrFlush, IrSend,
     Draining, EndWait, DrainFrames, DrainWords, DrainRing, inbound, vars
<1> QED
  BY <1>1, <1>2, <1>3, <1>4, <1>5, <1>6, <1>7, <1>8, <1>10, <1>11
     DEF Next, IrTask, Decode, Core1

\* What comes into a queue is new, but for the frame irTask had in its hand.
LEMMA DrainedStep == IInv /\ InLine /\ Drained /\ [Next]_vars => Drained'
<1> SUFFICES ASSUME IInv, InLine, Drained, [Next]_vars
             PROVE  Drained'
  OBVIOUS
<1>0. /\ FrameDepth \in Nat /\ WordsDepth \in Nat /\ RingHolds \in Nat
      /\ Bursts = 1 .. MaxBursts /\ MaxBursts \in Nat /\ NoBurst = 0
  BY DepthAssumption DEF Bursts, NoBurst
<1>t. /\ frames \in QueueOf(FrameDepth) /\ words \in QueueOf(WordsDepth)
      /\ ring \in QueueOf(RingHolds) /\ mark \in 0 .. MaxBursts
      /\ dec \in 0 .. MaxBursts /\ held \in 0 .. MaxBursts /\ arrived \in 0 .. MaxBursts
  BY DEF IInv, TypeOK
<1>q. /\ \A i \in DOMAIN frames : frames[i] \in 1 .. MaxBursts
      /\ \A i \in DOMAIN words : words[i] \in 1 .. MaxBursts
      /\ \A i \in DOMAIN ring : ring[i] \in 1 .. MaxBursts
  BY <1>t, <1>0, InQueue
<1> USE <1>0
<1>1. CASE TakeFrame
  <2>1. CASE frames = <<>>
    BY <2>1, <1>1 DEF TakeFrame, Drained, AllNew, OnlyOld, Old, core1
  <2>2. CASE frames # <<>>
    <3>1. /\ held' = frames[1] /\ frames' = Tail(frames) /\ held = 0
          /\ UNCHANGED <<dec, ring, words, arrived, call, mark>>
      BY <1>1, <2>2, <1>t, TailInLine DEF TakeFrame, core1, IInv, Holdings
    <3>2. /\ \A i \in DOMAIN frames' : frames'[i] = frames[i + 1] /\ i + 1 \in DOMAIN frames
          /\ 1 \in DOMAIN frames
      BY <3>1, <2>2, <1>t, TailInLine
    <3> QED
      BY <3>1, <3>2, <1>t, <1>q DEF Drained, AllNew, OnlyOld, Old
  <2> QED
    BY <2>1, <2>2
<1>2. CASE PutInRing
  <2>1. held # 0 /\ held \in Bursts
    BY <1>2, <1>t DEF PutInRing, IInv, Holdings
  <2>2. /\ ring' = Offered(ring, held, RingHolds)
        /\ UNCHANGED <<dec, frames, held, words, arrived, call, mark>>
    BY <1>2 DEF PutInRing, core1
  <2>3. \A i \in DOMAIN ring' : ring'[i] = held \/ (i \in DOMAIN ring /\ ring'[i] = ring[i])
    BY <2>1, <2>2, <1>t, OfferedInLine
  <2> QED
    BY <2>1, <2>2, <2>3, <1>t, <1>q DEF Drained, AllNew, OnlyOld, Old
<1>3. CASE PutInWords
  <2>1. held # 0 /\ held \in Bursts
    BY <1>3, <1>t DEF PutInWords, IInv, Holdings
  <2>2. /\ words' = Offered(words, held, WordsDepth) /\ held' = 0
        /\ UNCHANGED <<dec, frames, ring, arrived, call, mark>>
    BY <1>3 DEF PutInWords, core1
  <2>3. \A i \in DOMAIN words' : words'[i] = held \/ (i \in DOMAIN words /\ words'[i] = words[i])
    BY <2>1, <2>2, <1>t, OfferedInLine
  <2> QED
    BY <2>1, <2>2, <2>3, <1>t, <1>q DEF Drained, AllNew, OnlyOld, Old
<1>4. CASE Boop
  <2>1. PICK n \in 0 .. Len(frames) : frames' = SubSeq(frames, n + 1, Len(frames))
    BY <1>4 DEF Boop
  <2>2. \A i \in DOMAIN frames' : i + n \in DOMAIN frames /\ frames'[i] = frames[i + n]
    BY <2>1, <1>t, RestInLine
  <2>3. UNCHANGED <<dec, held, ring, words, arrived, call, mark>>
    BY <1>4 DEF Boop, core1
  <2> QED
    BY <2>2, <2>3, <1>t, <1>q DEF Drained, AllNew, OnlyOld, Old
<1>5. CASE FrameIn
  <2>1. /\ dec # 0 /\ dec \in Bursts /\ dec' = 0
        /\ UNCHANGED <<held, ring, words, arrived, call, mark>>
    BY <1>5, <1>t DEF FrameIn, core1
  <2>2. CASE frames' = frames
    BY <2>1, <2>2, <1>t, <1>q DEF Drained, AllNew, OnlyOld, Old
  <2>3. CASE frames' = Offered(frames, dec, FrameDepth)
    <3>1. \A i \in DOMAIN frames' :
             frames'[i] = dec \/ (i \in DOMAIN frames /\ frames'[i] = frames[i])
      BY <2>1, <2>3, <1>t, OfferedInLine
    <3> QED
      BY <2>1, <3>1, <1>t, <1>q DEF Drained, AllNew, OnlyOld, Old
  <2> QED
    BY <2>2, <2>3, <1>5 DEF FrameIn
<1>6. CASE Arrive
  BY <1>6, <1>t, <1>q DEF Arrive, Drained, AllNew, OnlyOld, Old, inbound, core1
<1>7. CASE IrRead
  <2>1. ring # <<>> /\ ring' = Tail(ring)
        /\ UNCHANGED <<dec, frames, held, words, arrived, call, mark>>
    BY <1>7 DEF IrRead, core1
  <2>2. \A i \in DOMAIN ring' : i + 1 \in DOMAIN ring /\ ring'[i] = ring[i + 1]
    BY <2>1, <1>t, TailInLine
  <2> QED
    BY <2>1, <2>2, <1>t, <1>q DEF Drained, AllNew, OnlyOld, Old
<1>8. CASE IrReadWords
  <2>1. words # <<>> /\ words' = Tail(words)
        /\ UNCHANGED <<dec, frames, held, ring, arrived, call, mark>>
    BY <1>8 DEF IrReadWords, core1
  <2>2. \A i \in DOMAIN words' : i + 1 \in DOMAIN words /\ words'[i] = words[i + 1]
    BY <2>1, <1>t, TailInLine
  <2> QED
    BY <2>1, <2>2, <1>t, <1>q DEF Drained, AllNew, OnlyOld, Old
<1>9. CASE IrStop \/ IrFlush \/ EndWait
  <2>1. /\ mark' = Received /\ call' = "frames"
        /\ UNCHANGED <<dec, frames, held, ring, words, arrived>>
    BY <1>9 DEF IrStop, IrFlush, EndWait, inbound
  <2>2. mark' \in 0 .. MaxBursts /\ mark' <= arrived /\ (dec # 0 => mark' < dec)
    BY <2>1, <1>t, ReceivedType DEF Received, IInv, InLine
  <2> QED
    BY <2>1, <2>2 DEF Drained
<1>10. CASE DrainFrames
  <2>1. /\ call = "frames" /\ frames' = <<>> /\ call' = "words"
        /\ UNCHANGED <<dec, held, ring, words, mark, arrived>>
    BY <1>10 DEF DrainFrames
  <2> QED
    BY <2>1 DEF Drained, AllNew
<1>11. CASE DrainWords
  <2>1. /\ call = "words" /\ words' = <<>> /\ call' = "ring"
        /\ UNCHANGED <<dec, frames, held, ring, mark, arrived>>
    BY <1>11 DEF DrainWords
  <2>2. OnlyOld(words', held) /\ held \in 0 .. MaxBursts
    BY <2>1, <1>t DEF OnlyOld
  <2> QED
    BY <2>1, <2>2 DEF Drained, AllNew, OnlyOld, Old
<1>12. CASE DrainRing
  <2>1. /\ call = "ring" /\ ring' = <<>> /\ call' = "none"
        /\ UNCHANGED <<dec, frames, held, words, mark, arrived>>
    BY <1>12 DEF DrainRing
  <2> QED
    BY <2>1 DEF Drained, AllNew, OnlyOld, Old
<1>13. ASSUME /\ frames' \in {frames, <<>>} /\ ring' \in {ring, <<>>} /\ words' \in {words, <<>>}
              /\ held' = held /\ dec' \in {dec, 0} /\ UNCHANGED <<arrived, mark>>
              /\ call' = call \/ (call = "none" /\ call' = "wait")
       PROVE  Drained'
  BY <1>13, <1>t, <1>q DEF Drained, AllNew, OnlyOld, Old
<1>14. CASE \/ Wake \/ ComeUp \/ Retry \/ StartOver \/ Loop \/ NoBoop \/ Feed \/ Transmit
            \/ Shut \/ StopRadio \/ DeleteQueues \/ GoDown
            \/ \E r \in Resources : Acquire(r) \/ CannotAcquire(r)
  BY <1>14, <1>13 DEF Wake, ComeUp, Retry, StartOver, Loop, NoBoop, Feed, Transmit, Shut,
     StopRadio, DeleteQueues, GoDown, Acquire, CannotAcquire, inbound, core1
<1>15. CASE OpenScreen \/ CloseScreen \/ PressStart \/ IrStart \/ IrSend \/ UNCHANGED vars
  BY <1>15, <1>13 DEF OpenScreen, CloseScreen, PressStart, IrStart, IrSend, Idle, inbound,
     core1, vars
<1> QED
  BY <1>1, <1>2, <1>3, <1>4, <1>5, <1>6, <1>7, <1>8, <1>9, <1>10, <1>11, <1>12, <1>14, <1>15
     DEF Next, IrTask, Decode, Core1, Draining

\* Whatever the three tasks do, what is received is in line, and new where a drain
\* has been.
THEOREM LineHolds == Spec => [](InLine /\ Drained)
<1>1. Init => InLine /\ Drained
  BY DepthAssumption DEF Init, InLine, Drained, Increasing, Before, Past, AllNew, OnlyOld, Old,
     NoBurst
<1>2. IInv /\ InLine /\ Drained /\ [Next]_vars => (InLine /\ Drained)'
  BY InLineStep, DrainedStep
<1> QED
  BY <1>1, <1>2, InvHolds, PTL DEF Spec

-----------------------------------------------------------------------------
\* Two sequences in order, the first before the second, are in order end to end.
LEMMA EndToEnd ==
  ASSUME NEW s \in Seq(Nat), NEW t \in Seq(Nat)
  PROVE  /\ s \o t \in Seq(Nat)
         /\ Increasing(s) /\ Increasing(t) /\ Before(s, t) => Increasing(s \o t)
         /\ \A u \in Seq(Nat) : Before(s, u) /\ Before(t, u) => Before(s \o t, u)
         /\ \A u \in Seq(Nat) : Before(u, s) /\ Before(u, t) => Before(u, s \o t)
<1>1. /\ s \o t \in Seq(Nat) /\ Len(s \o t) = Len(s) + Len(t)
      /\ DOMAIN s = 1 .. Len(s) /\ DOMAIN t = 1 .. Len(t) /\ DOMAIN (s \o t) = 1 .. Len(s \o t)
      /\ Len(s) \in Nat /\ Len(t) \in Nat
  OBVIOUS
<1>2. ASSUME NEW i \in DOMAIN (s \o t)
      PROVE  \/ i \in DOMAIN s /\ (s \o t)[i] = s[i]
             \/ i - Len(s) \in DOMAIN t /\ (s \o t)[i] = t[i - Len(s)] /\ i > Len(s)
  BY <1>1
<1>3. ASSUME Increasing(s), Increasing(t), Before(s, t),
             NEW i \in DOMAIN (s \o t), NEW j \in DOMAIN (s \o t), i < j
      PROVE  (s \o t)[i] < (s \o t)[j]
  <2>1. CASE i \in DOMAIN s /\ (s \o t)[i] = s[i]
    BY <1>1, <1>2, <1>3, <2>1 DEF Increasing, Before
  <2>2. CASE i - Len(s) \in DOMAIN t /\ (s \o t)[i] = t[i - Len(s)] /\ i > Len(s)
    <3>1. j - Len(s) \in DOMAIN t /\ (s \o t)[j] = t[j - Len(s)]
      BY <1>1, <1>2, <1>3, <2>2
    <3> QED
      BY <1>1, <1>3, <2>2, <3>1 DEF Increasing
  <2> QED
    BY <1>2, <2>1, <2>2
<1> QED
  BY <1>1, <1>2, <1>3 DEF Increasing, Before

\* MicroPython sees frames in the order they came and none twice.
THEOREM OrderKept == Spec => []InOrder
<1>1. IInv /\ InLine => InOrder
  <2> SUFFICES ASSUME IInv, InLine PROVE InOrder
    OBVIOUS
  <2> DEFINE hand == IF pc = "ring" THEN Hand(held) ELSE <<>>
             coming == frames \o Hand(dec)
  <2>t. /\ MaxBursts \in Nat /\ NoBurst = 0 /\ Bursts = 1 .. MaxBursts
        /\ frames \in Seq(Nat) /\ words \in Seq(Nat) /\ ring \in Seq(Nat)
        /\ dec \in Nat /\ held \in Nat /\ arrived \in Nat
        /\ DOMAIN frames = 1 .. Len(frames) /\ DOMAIN words = 1 .. Len(words)
        /\ DOMAIN ring = 1 .. Len(ring)
    BY DepthAssumption DEF IInv, TypeOK, QueueOf, Bursts, NoBurst
  <2>1. /\ Hand(dec) \in Seq(Nat) /\ Hand(held) \in Seq(Nat) /\ hand \in Seq(Nat)
        /\ Increasing(Hand(dec)) /\ Increasing(Hand(held)) /\ Increasing(hand)
    BY <2>t DEF Hand, Increasing
  <2>2. /\ Before(frames, Hand(dec)) /\ Before(words, Hand(dec)) /\ Before(ring, Hand(dec))
    BY <2>t DEF Hand, Before, InLine, Past
  <2>3. /\ Before(Hand(held), Hand(dec)) /\ Before(hand, Hand(dec))
    <3>1. held # 0 /\ dec # 0 => held < dec
      BY <2>t DEF InLine
    <3>2. Before(Hand(held), Hand(dec))
      BY <3>1, <2>t DEF Hand, Before
    <3>3. Before(<<>>, Hand(dec))
      BY DEF Before
    <3> QED
      BY <3>2, <3>3
  <2>4. /\ Before(ring, hand) /\ Before(words, Hand(held))
        /\ Before(hand, frames) /\ Before(Hand(held), frames)
        /\ Before(ring, frames) /\ Before(words, frames)
    BY <2>t DEF Hand, Before, InLine
  <2>5. /\ coming \in Seq(Nat) /\ Increasing(coming)
        /\ Before(ring, coming) /\ Before(words, coming)
        /\ Before(hand, coming) /\ Before(Hand(held), coming)
    BY <2>t, <2>1, <2>2, <2>3, <2>4, EndToEnd DEF InLine
  <2> HIDE DEF coming, hand
  <2>6. /\ ring \o hand \in Seq(Nat) /\ Increasing(ring \o hand)
        /\ Before(ring \o hand, coming)
    BY <2>t, <2>1, <2>4, <2>5, EndToEnd DEF InLine
  <2>7. /\ words \o Hand(held) \in Seq(Nat) /\ Increasing(words \o Hand(held))
        /\ Before(words \o Hand(held), coming)
    BY <2>t, <2>1, <2>4, <2>5, EndToEnd DEF InLine
  <2>8. Increasing((ring \o hand) \o coming) /\ Increasing((words \o Hand(held)) \o coming)
    BY <2>5, <2>6, <2>7, EndToEnd
  <2> QED
    BY <2>8 DEF InOrder, coming, hand
<1> QED
  BY <1>1, InvHolds, LineHolds, PTL

\* After a drain at most one frame from before it is left for MicroPython.
THEOREM FewAreStale == Spec => []FewStale
<1>1. IInv /\ Drained => FewStale
  <2> SUFFICES ASSUME IInv, Drained, Idle, NEW a \in Stale, NEW b \in Stale
               PROVE  a = b
    BY DEF FewStale
  <2>1. PICK v \in 0 .. MaxBursts :
           OnlyOld(words, v) /\ OnlyOld(ring, v) /\ (Old(held) => held = v)
    BY DEF Idle, Drained
  <2>2. AllNew(frames)
    BY DEF Idle, Drained
  <2>t. /\ MaxBursts \in Nat
        /\ frames \in Seq(Nat) /\ words \in Seq(Nat) /\ ring \in Seq(Nat) /\ mark \in Nat
    BY DepthAssumption DEF IInv, TypeOK, QueueOf, Bursts
  <2>3. ASSUME NEW c \in Stale PROVE c = v
    <3>1. Old(c)
      BY DEF Stale, Old
    <3>2. CASE c = held
      BY <2>1, <3>1, <3>2
    <3>3. CASE c \in Elements(frames \o ring \o words)
      <4>1. \/ \E i \in DOMAIN frames : c = frames[i]
            \/ \E i \in DOMAIN ring : c = ring[i]
            \/ \E i \in DOMAIN words : c = words[i]
        BY <2>t, <3>3 DEF Elements
      <4> QED
        BY <2>1, <2>2, <2>t, <3>1, <4>1 DEF OnlyOld, AllNew, Old
    <3> QED
      BY <3>2, <3>3 DEF Stale
  <2> QED
    BY <2>3
<1> QED
  BY <1>1, InvHolds, LineHolds, PTL

-----------------------------------------------------------------------------
(* The transmitter. *)

\* The notification is with irTask, with what is on the air, or ready to be taken.
OneToken ==
  at # "down" =>
    /\ at = "transmit" => air = "none" /\ credit = 0
    /\ air # "none" => credit = 0
    /\ at # "transmit" /\ air = "none" => credit = 1

\* What is on the air is reflected by is_transmitting, which is reset with the channel.
AirBusy ==
  /\ air # "none" \/ at = "transmit" => is_transmitting
  /\ at = "down" => ~is_transmitting

\* The request in hand, by where irTask stands.
HasJob ==
  /\ at \notin {"down", "loop"} => job # "none"
  /\ at = "prepare" => asked # 0
  /\ asked # 0 => job = "raw"

\* A carrier that is not the default is that of the raw symbols in hand, for
\* which nothing else is on the air, and their wait has not timed out.
CarrierOwned ==
  (~stuck /\ carrier # Default) =>
    /\ asked # 0
    /\ at \in {"take", "transmit", "wait", "after"}
    /\ at \in {"take", "after"} => air = "none" /\ ~is_transmitting
    /\ at = "wait" => air \in {"none", "raw"}

TxInv == TxTypeOK /\ OneToken /\ AirBusy /\ HasJob /\ OnAirIsAwaited /\ CarrierOwned

\* Initially the channel is down and nothing is on the air.
LEMMA TxInitInv == TxInit => TxInv
  BY DEF TxInit, TxInv, TxTypeOK, TxSteps, OneToken, AirBusy, HasJob, OnAirIsAwaited,
         CarrierOwned

\* Every step of irTask, of the interrupt and of core 1 keeps the invariant.
LEMMA TxStepInv == TxInv /\ [TxNext]_txVars => TxInv'
<1> SUFFICES ASSUME TxInv, [TxNext]_txVars PROVE TxInv'
  OBVIOUS
<1> USE DEF TxInv, TxTypeOK, TxSteps, Kinds, OneToken, AirBusy, HasJob, OnAirIsAwaited,
            CarrierOwned
<1>1. CASE InitTx
  BY <1>1 DEF InitTx
<1>2. CASE DeinitTx
  BY <1>2 DEF DeinitTx
<1>3. ASSUME NEW j \in Kinds, NEW c \in Overrides \cup {0}, Begin(j, c) PROVE TxInv'
  BY <1>3 DEF Begin
<1>4. CASE Prepare
  BY <1>4 DEF Prepare, Apply
<1>5. CASE Take
  BY <1>5 DEF Take
<1>6. CASE TakeTimeout
  BY <1>6 DEF TakeTimeout
<1>7. CASE RmtTransmit
  <2>1. job # "none" /\ air = "none" /\ credit = 0 /\ is_transmitting
    BY <1>7 DEF RmtTransmit
  <2>2. (TxTypeOK /\ OneToken /\ AirBusy)'
    BY <1>7, <2>1 DEF RmtTransmit
  <2>3. (HasJob /\ OnAirIsAwaited)'
    BY <1>7, <2>1 DEF RmtTransmit
  <2>4. CarrierOwned'
    BY <1>7, <2>1 DEF RmtTransmit
  <2> QED
    BY <2>2, <2>3, <2>4
<1>8. CASE TransmitFails
  <2>1. credit = 0 /\ air = "none"
    BY <1>8 DEF TransmitFails
  <2>2. credit' = 1
    BY <1>8, <2>1 DEF TransmitFails
  <2> QED
    BY <1>8, <2>1, <2>2 DEF TransmitFails
<1>9. CASE WaitDone
  <2>1. air = "none"
    BY <1>9 DEF WaitDone
  <2>2. (TxTypeOK /\ OneToken /\ AirBusy)'
    BY <1>9, <2>1 DEF WaitDone
  <2>3. (HasJob /\ OnAirIsAwaited /\ CarrierOwned)'
    BY <1>9, <2>1 DEF WaitDone
  <2> QED
    BY <2>2, <2>3
<1>10. CASE WaitTimeout
  BY <1>10 DEF WaitTimeout
<1>11. CASE Repeat
  BY <1>11 DEF Repeat
<1>12. CASE Finish
  BY <1>12 DEF Finish, Apply
<1>13. CASE OnTransDone
  <2>1. credit = 0 /\ at # "down" /\ at # "transmit"
    BY <1>13 DEF OnTransDone
  <2>2. credit' = 1
    BY <1>13, <2>1 DEF OnTransDone
  <2> QED
    BY <1>13, <2>1, <2>2 DEF OnTransDone
<1>14. CASE SetTxPower
  BY <1>14 DEF SetTxPower
<1>15. CASE ApplyTxPower
  BY <1>15, ZenonT(30) DEF ApplyTxPower
<1>16. CASE UNCHANGED txVars
  BY <1>16 DEF txVars
<1> QED
  BY <1>1, <1>2, <1>3, <1>4, <1>5, <1>6, <1>7, <1>8, <1>9, <1>10, <1>11, <1>12, <1>13,
     <1>14, <1>15, <1>16 DEF TxNext, TxTask

\* The invariant holds in every reachable state, for every set of carriers.
THEOREM TxInvHolds == TxSpec => []TxInv
  BY TxInitInv, TxStepInv, PTL DEF TxSpec

\* The variables keep their types; in particular the notification is never given
\* twice, however many sends and waits have timed out.
THEOREM TxTypeCorrect == TxSpec => []TxTypeOK
<1>1. TxInv => TxTypeOK
  BY DEF TxInv
<1> QED
  BY <1>1, TxInvHolds, PTL

\* A send finds its ring slot and the channel idle (nec_tx.c:215-216).
THEOREM SlotIsIdle == TxSpec => []SlotIdle
<1>1. TxInv => SlotIdle
  BY DEF TxInv, OneToken, SlotIdle
<1> QED
  BY <1>1, TxInvHolds, PTL

\* Whatever is on the air is waited for, or its wait has timed out.
THEOREM Awaited == TxSpec => []OnAirIsAwaited
<1>1. TxInv => OnAirIsAwaited
  BY DEF TxInv
<1> QED
  BY <1>1, TxInvHolds, PTL

\* Badge and NEC frames go out at 38 kHz (BadgeIR.cpp:705-706), unless the wait for
\* raw symbols at a carrier of their own has timed out.
THEOREM CarrierRestored == TxSpec => []BadgeCarrier
<1>1. TxInv => BadgeCarrier
  <2> SUFFICES ASSUME TxInv, air \in {"badge", "nec"}, ~stuck, carrier # Default
               PROVE FALSE
    BY DEF BadgeCarrier
  <2>1. at \in {"transmit", "wait"}
    BY DEF TxInv, CarrierOwned
  <2> QED
    BY <2>1 DEF TxInv, CarrierOwned, OneToken
<1> QED
  BY <1>1, TxInvHolds, PTL

=============================================================================
