---------------------------- MODULE BoopProtocol ----------------------------
(***************************************************************************)
(* Whole boop sessions between any number of badges: the state machine that *)
(* irTask ticks on core 0 (firmware/src/boops/BoopsProtocol.cpp, smTick),   *)
(* the buttons of the boop screen on core 1, and the field exchange of      *)
(* module Exchange, over one lossy infrared room that everybody hears.      *)
(*                                                                         *)
(* Badges are their UIDs, compared the way memcmp compares them.  Kiosks    *)
(* are installations: they only transmit, and their beacons carry a boop    *)
(* type other than BOOP_PEER.  Time is a choice everywhere: a tick may find *)
(* its beacon due or not, a retry timer run out or not.                     *)
(***************************************************************************)
EXTENDS Exchange, Sequences, FiniteSetsExt

CONSTANTS
  Badges, Kiosks,  \* UIDs of the badges and of the installations in the room
  Card,            \* Card[b]: the tags for which b has something to share
  QueueDepth,      \* frames the receive queue of a badge holds
  Wraps,           \* whether a session may last the 256 beacons it takes for a
                   \* uint8_t beacon counter to be back at zero
  MaxSessions      \* bound: how often one badge's user starts a boop

Nobody == 0        \* peerUidBytes all zero

ASSUME PartiesAssumption ==
  /\ Badges \subseteq Nat \ {Nobody} /\ Kiosks \subseteq Nat \ {Nobody}
  /\ Badges \cap Kiosks = {} /\ IsFiniteSet(Badges \cup Kiosks)
ASSUME CardAssumption == Card \in [Badges -> SUBSET Tags]
ASSUME BoundsAssumption ==
  /\ QueueDepth \in Nat \ {0} /\ MaxSessions \in Nat /\ Wraps \in BOOLEAN

VARIABLES
  phase,      \* boopStatus.phase
  pc,         \* where irTask is: at the "tick" of the loop, blocked in "listen"
              \* (recvFrame of handleBeaconing) or in the "drain" of an exchange
  engaged, cancelReq,      \* boopEngaged, pairingCancelRequested
  peer, type,              \* boopStatus.peerUID, boopStatus.boopType
  rx, tx,                  \* beaconRxCount, beaconTxCount: zero or not
  recorded, peerDone,      \* s_boop_recorded, s_peer_done
  confirm,                 \* s_confirm_tx_remaining
  xchg,       \* s_xchg; read only in EXCHANGE, so that it is cleared by smReset in
              \* the code and by Start here is the same to every reader
  card,       \* card[b][i]: whose value fills boopStatus.peer<tag i>
  inbox,      \* s_frame_queue
  row,        \* row[b][p]: b's journal row for p, see EmptyRow
  session,    \* how many sessions the user of b has started
  ended       \* how the exchange of this session ended: "none" yet, "done", "left"

core1 == <<engaged, cancelReq, session>>
link  == <<peer, type, rx, tx, recorded, peerDone, confirm>>
vars  == <<phase, pc, core1, link, xchg, card, inbox, row, ended>>

Parties   == Badges \cup Kiosks
Phases    == {"IDLE", "BEACONING", "EXCHANGE", "PAIRED_OK", "FAILED", "CANCELLED"}
Terminal  == {"PAIRED_OK", "FAILED", "CANCELLED"}
ConfirmTx == 1     \* kBoopConfirmTxCount
Kinds     == {"BEACON", "DONE", "FIELD", "FIN"}
Frames    == [kind : Kinds, from : Parties, tag : 0 .. Rounds]
BlankCard == [i \in Tags |-> Nobody]
EmptyRow  == [boops |-> 0, fields |-> BlankCard]

TypeOK ==
  /\ phase \in [Badges -> Phases]
  /\ pc \in [Badges -> {"tick", "listen", "drain"}]
  /\ engaged \in [Badges -> BOOLEAN] /\ cancelReq \in [Badges -> BOOLEAN]
  /\ peer \in [Badges -> Parties \cup {Nobody}]
  /\ type \in [Badges -> {"PEER", "OTHER"}]
  /\ rx \in [Badges -> 0 .. 1] /\ tx \in [Badges -> 0 .. 1]
  /\ recorded \in [Badges -> BOOLEAN] /\ peerDone \in [Badges -> BOOLEAN]
  /\ confirm \in [Badges -> 0 .. ConfirmTx]
  /\ xchg \in [Badges -> ExchangeState]
  /\ card \in [Badges -> [Tags -> Badges \cup {Nobody}]]
  /\ inbox \in [Badges -> Seq(Frames)]
  /\ \A b \in Badges : Len(inbox[b]) <= QueueDepth
  /\ row \in [Badges -> [Parties -> [boops : 0 .. MaxSessions,
                                     fields : [Tags -> Badges \cup {Nobody}]]]]
  /\ session \in [Badges -> 0 .. MaxSessions]
  /\ ended \in [Badges -> {"none", "done", "left"}]

Init ==
  /\ phase = [b \in Badges |-> "IDLE"]
  /\ pc = [b \in Badges |-> "tick"]
  /\ engaged = [b \in Badges |-> FALSE]
  /\ cancelReq = [b \in Badges |-> FALSE]
  /\ peer = [b \in Badges |-> Nobody]
  /\ type = [b \in Badges |-> "PEER"]
  /\ rx = [b \in Badges |-> 0]
  /\ tx = [b \in Badges |-> 0]
  /\ recorded = [b \in Badges |-> FALSE]
  /\ peerDone = [b \in Badges |-> FALSE]
  /\ confirm = [b \in Badges |-> 0]
  /\ xchg = [b \in Badges |-> FreshExchange(FALSE)]
  /\ card = [b \in Badges |-> BlankCard]
  /\ inbox = [b \in Badges |-> <<>>]
  /\ row = [b \in Badges |-> [p \in Parties |-> EmptyRow]]
  /\ session = [b \in Badges |-> 0]
  /\ ended = [b \in Badges |-> "none"]

Set(f, b, v) == f' = [f EXCEPT ![b] = v]
Goto(b, where) == Set(pc, b, where)

\* One more beacon.  The code only tells zero from more (the thresholds are 1), so
\* a counter is 1 after an increment, or 0 again when the increment wraps it.
Count(f, b) == \E n \in IF Wraps /\ f[b] # 0 THEN 0 .. 1 ELSE {1} : Set(f, b, n)

-----------------------------------------------------------------------------
(* The room.  A frame reaches the badges of `heard`, each of which queues it *)
(* if its queue has space.  `queues` is what the queues hold before.         *)

Message(b, kind)  == [kind |-> kind, from |-> b, tag |-> Rounds]
FieldOf(b, i)     == [kind |-> "FIELD", from |-> b, tag |-> i]

Broadcast(queues, f, heard) ==
  [c \in Badges |-> IF c \in heard /\ Len(queues[c]) < QueueDepth
                      THEN Append(queues[c], f) ELSE queues[c]]

Send(b, f, heard) == inbox' = Broadcast(inbox, f, heard)

\* b's queue after recvFrame has taken its first frame.
Taken(b) == [inbox EXCEPT ![b] = Tail(@)]
Take(b)  == inbox' = Taken(b)

\* Everybody but the sender may hear a frame; recvFrame drops self-echoes.
Audience(b) == SUBSET (Badges \ {b})

-----------------------------------------------------------------------------
(* The journal, as far as the protocol writes it. *)

\* recordBoop: one more boop with p.
Recorded(b, p) == [row EXCEPT ![b][p].boops = @ + 1]

\* recordBoopEx: a row if there is none, into which the non-blank fields of the
\* card are merged.
Merged(b, p) ==
  [row EXCEPT ![b][p] =
    [boops  |-> IF @.boops = 0 THEN 1 ELSE @.boops,
     fields |-> [i \in Tags |-> IF card[b][i] # Nobody THEN card[b][i]
                                                      ELSE @.fields[i]]]]

\* Mutant: only what was sent counts.
SwappedOut(x) == x.mySent

\* Whether a field went either way: fieldRxMask or fieldTxMask is not zero.
Swapped(x) == x.received # {} \/ x.mySent

\* finishPaired at the end of an exchange whose state is x.
FinishPaired(b, x) ==
  IF recorded[b]
    THEN /\ Set(phase, b, "PAIRED_OK")
         /\ row' = IF Swapped(x) THEN Merged(b, peer[b]) ELSE row
    ELSE Set(phase, b, "FAILED") /\ UNCHANGED row

-----------------------------------------------------------------------------
(* Core 1: the buttons of the boop screen. *)

PressBoop(b) ==
  /\ phase[b] = "IDLE" /\ ~engaged[b] /\ session[b] < MaxSessions
  /\ Set(engaged, b, TRUE)
  /\ UNCHANGED <<phase, pc, cancelReq, session, link, xchg, card, inbox, row, ended>>

PressCancel(b) ==
  /\ phase[b] \in {"BEACONING", "EXCHANGE"} /\ ~cancelReq[b]
  /\ Set(cancelReq, b, TRUE)
  /\ UNCHANGED <<phase, pc, engaged, session, link, xchg, card, inbox, row, ended>>

\* smReset clears the handshake, but neither the counters nor the frame queue.
SmReset(b) ==
  /\ Set(phase, b, "IDLE")
  /\ Set(recorded, b, FALSE) /\ Set(peerDone, b, FALSE) /\ Set(confirm, b, 0)
  /\ UNCHANGED <<peer, type, rx, tx>>

\* "boop" on the result screen starts over without leaving it.
PressAgain(b) ==
  /\ phase[b] \in Terminal /\ session[b] < MaxSessions
  /\ SmReset(b)
  /\ Set(engaged, b, TRUE)
  /\ UNCHANGED <<pc, cancelReq, session, xchg, card, inbox, row, ended>>

\* Leaving the screen: smReset, and irTask tears the hardware and its queue down.
LeaveScreen(b) ==
  /\ phase[b] \in Terminal \cup {"IDLE"}
  /\ SmReset(b)
  /\ Set(engaged, b, FALSE) /\ Set(cancelReq, b, FALSE)
  /\ Set(inbox, b, <<>>)
  /\ UNCHANGED <<pc, session, xchg, card, row, ended>>

-----------------------------------------------------------------------------
(* Core 0: the top of a tick. *)

AtTick(b, p) == phase[b] = p /\ pc[b] = "tick" /\ ~cancelReq[b]

\* A cancel is looked at before anything else.
HandleCancel(b) ==
  /\ cancelReq[b] /\ pc[b] = "tick"
  /\ Set(cancelReq, b, FALSE)
  /\ IF phase[b] \in {"BEACONING", "EXCHANGE"}
       THEN /\ Set(phase, b, "CANCELLED")
            /\ Set(ended, b, IF phase[b] = "EXCHANGE" THEN "left" ELSE ended[b])
       ELSE UNCHANGED <<phase, ended>>
  /\ UNCHANGED <<pc, engaged, session, link, xchg, card, inbox, row>>

\* handleIdle with a boop requested.
Start(b) ==
  /\ AtTick(b, "IDLE") /\ engaged[b]
  /\ Set(engaged, b, FALSE) /\ Set(session, b, session[b] + 1)
  /\ Set(phase, b, "BEACONING")
  /\ Set(peer, b, Nobody) /\ Set(type, b, "PEER") /\ Set(card, b, BlankCard)
  /\ Set(rx, b, 0) /\ Set(tx, b, 0)
  /\ Set(recorded, b, FALSE) /\ Set(peerDone, b, FALSE) /\ Set(confirm, b, 0)
  /\ Set(ended, b, "none") /\ Set(xchg, b, FreshExchange(FALSE))
  /\ UNCHANGED <<pc, cancelReq, inbox, row>>

\* handleIdle otherwise discards one frame.
IdleDrain(b) ==
  /\ AtTick(b, "IDLE") /\ ~engaged[b] /\ inbox[b] # <<>>
  /\ Take(b)
  /\ UNCHANGED <<phase, pc, core1, link, xchg, card, row, ended>>

\* handleTerminal: FAILED and CANCELLED are held for a while, PAIRED_OK until
\* the user acts.
TerminalExpires(b) ==
  /\ phase[b] \in Terminal \ {"PAIRED_OK"} /\ pc[b] = "tick" /\ ~cancelReq[b]
  /\ Set(phase, b, "IDLE") /\ Set(engaged, b, FALSE)
  /\ Set(peer, b, Nobody) /\ Set(card, b, BlankCard)
  /\ Set(rx, b, 0) /\ Set(tx, b, 0)
  /\ UNCHANGED <<pc, cancelReq, session, type, recorded, peerDone, confirm,
                 xchg, inbox, row, ended>>

-----------------------------------------------------------------------------
(* handleBeaconing: record once the threshold is met, transmit if due, then   *)
(* listen for one frame.                                                      *)

\* Mutants: the boop is recorded again at every tick; on a beacon of our own alone.
ThresholdMetAgain(b)   == rx[b] >= 1 /\ tx[b] >= 1
ThresholdMetUnheard(b) == ~recorded[b] /\ tx[b] >= 1

\* recordBoopOnce, at the threshold of one beacon each way.
ThresholdMet(b) == ~recorded[b] /\ rx[b] >= 1 /\ tx[b] >= 1
\* Mutant: nothing is written before the peer is done.
RecordAtConfirm(b) ==
  row' = IF ThresholdMet(b) /\ peerDone[b] THEN Recorded(b, peer[b]) ELSE row

RecordAtThreshold(b) == row' = IF ThresholdMet(b) THEN Recorded(b, peer[b]) ELSE row

\* Mutants: the role is that of the last exchange; the roles are the wrong way round;
\* an installation is taken for a badge.
LockOnInOldRole(b) ==
  IF type[b] = "PEER"
    THEN /\ Set(xchg, b, FreshExchange(xchg[b].primary))
         /\ Set(phase, b, "EXCHANGE") /\ RecordAtThreshold(b)
    ELSE Set(phase, b, "PAIRED_OK") /\ RecordAtThreshold(b) /\ UNCHANGED xchg
LockOnReversed(b) ==
  IF type[b] = "PEER"
    THEN /\ Set(xchg, b, FreshExchange(b > peer[b]))
         /\ Set(phase, b, "EXCHANGE") /\ RecordAtThreshold(b)
    ELSE Set(phase, b, "PAIRED_OK") /\ RecordAtThreshold(b) /\ UNCHANGED xchg
LockOnAnybody(b) ==
  /\ Set(xchg, b, FreshExchange(b < peer[b]))
  /\ Set(phase, b, "EXCHANGE") /\ RecordAtThreshold(b)

\* The beacon that answers the peer's DONE is the last one: resetFieldExchange-
\* State and EXCHANGE for a peer, finishPaired for an installation.
LockOn(b) ==
  IF type[b] = "PEER"
    THEN /\ Set(xchg, b, FreshExchange(b < peer[b]))
         /\ Set(phase, b, "EXCHANGE")
         /\ RecordAtThreshold(b)
    ELSE /\ Set(phase, b, "PAIRED_OK")
         /\ RecordAtThreshold(b)
         /\ UNCHANGED xchg

BeaconTx(b, heard) ==
  LET nowRecorded == recorded[b] \/ ThresholdMet(b)
      confirming  == nowRecorded /\ peerDone[b]
      locked      == confirming /\ confirm[b] <= 1
  IN  /\ AtTick(b, "BEACONING")
      /\ Send(b, Message(b, IF nowRecorded THEN "DONE" ELSE "BEACON"), heard)
      /\ Count(tx, b)
      /\ Set(recorded, b, nowRecorded)
      /\ Set(confirm, b, IF confirming THEN confirm[b] - 1 ELSE confirm[b])
      /\ IF locked
           THEN LockOn(b) /\ Goto(b, "tick")
           ELSE RecordAtThreshold(b) /\ Goto(b, "listen") /\ UNCHANGED <<phase, xchg>>
      /\ UNCHANGED <<core1, peer, type, rx, peerDone, card, ended>>

\* A tick whose beacon is not due yet.
BeaconNotDue(b) ==
  /\ AtTick(b, "BEACONING")
  /\ Set(recorded, b, recorded[b] \/ ThresholdMet(b))
  /\ RecordAtThreshold(b)
  /\ Goto(b, "listen")
  /\ UNCHANGED <<phase, core1, peer, type, rx, tx, peerDone, confirm, xchg,
                 card, inbox, ended>>

ListenTimeout(b) ==
  /\ pc[b] = "listen" /\ inbox[b] = <<>>
  /\ Goto(b, "tick")
  /\ UNCHANGED <<phase, core1, link, xchg, card, inbox, row, ended>>

\* unpackPeerUID reads the second byte of whatever frame came first as the boop
\* type.  In a beacon it is BOOP_PEER (0) or the installation's type; in an
\* exchange frame it is a sequence number, which starts at 1 and does not wrap
\* within an exchange.
TypeByte(f) == IF f.kind \in {"BEACON", "DONE"} /\ f.from \in Badges
                 THEN "PEER" ELSE "OTHER"

UnpackPeer(b, f) ==
  IF rx[b] = 0
    THEN Set(peer, b, f.from) /\ Set(type, b, TypeByte(f)) /\ Set(card, b, BlankCard)
    ELSE UNCHANGED <<peer, type, card>>

HearBeacon(b) ==
  LET f == Head(inbox[b])
      firstDone == f.kind = "DONE" /\ ~peerDone[b]
  IN  /\ pc[b] = "listen" /\ inbox[b] # <<>> /\ f.kind \in {"BEACON", "DONE"}
      /\ UnpackPeer(b, f)
      /\ Count(rx, b)
      /\ Set(peerDone, b, peerDone[b] \/ f.kind = "DONE")
      /\ Set(confirm, b, IF firstDone THEN ConfirmTx ELSE confirm[b])
      /\ Take(b) /\ Goto(b, "tick")
      /\ UNCHANGED <<phase, core1, tx, recorded, xchg, row, ended>>

\* A frame of an exchange means the peer is past its beacons: fast-forward.
HearExchangeFrame(b) ==
  LET f == Head(inbox[b])
      p == IF rx[b] = 0 THEN f.from ELSE peer[b]
  IN  /\ pc[b] = "listen" /\ inbox[b] # <<>> /\ f.kind \in {"FIELD", "FIN"}
      /\ UnpackPeer(b, f)
      /\ Count(rx, b)
      /\ Set(recorded, b, TRUE)
      /\ row' = IF recorded[b] THEN row ELSE Recorded(b, p)
      /\ Set(peerDone, b, TRUE) /\ Set(confirm, b, 1)
      /\ Take(b) /\ Goto(b, "tick")
      /\ UNCHANGED <<phase, core1, tx, xchg, ended>>

-----------------------------------------------------------------------------
(* handleExchangeInfo. *)

InExchange(b) == /\ phase[b] = "EXCHANGE"
                 /\ pc[b] = "drain" \/ (pc[b] = "tick" /\ ~cancelReq[b])

\* Mutant: an exchange in which a field was swapped has no limit.
ExchangeTimeoutIfIdle(b) ==
  /\ AtTick(b, "EXCHANGE") /\ ~Swapped(xchg[b])
  /\ FinishPaired(b, xchg[b])
  /\ Set(ended, b, "left")
  /\ UNCHANGED <<pc, core1, link, xchg, card, inbox>>

\* The hard limit, checked at the top of the tick.
ExchangeTimeout(b) ==
  /\ AtTick(b, "EXCHANGE")
  /\ FinishPaired(b, xchg[b])
  /\ Set(ended, b, "left")
  /\ UNCHANGED <<pc, core1, link, xchg, card, inbox>>

\* processPpFrame does not look at who sent a frame.
HandleField(b, heard) ==
  LET f == Head(inbox[b])
  IN  /\ InExchange(b) /\ inbox[b] # <<>> /\ f.kind = "FIELD"
      /\ Set(xchg, b, AfterField(xchg[b], f.tag))
      /\ card' = IF f.tag \in Card[f.from] THEN [card EXCEPT ![b][f.tag] = f.from]
                                           ELSE card
      /\ inbox' = IF xchg[b].primary THEN Taken(b)
                  ELSE Broadcast(Taken(b), FieldOf(b, f.tag), heard)
      /\ Goto(b, "drain")
      /\ UNCHANGED <<phase, core1, link, row, ended>>

HandleFin(b, heard) ==
  /\ InExchange(b) /\ inbox[b] # <<>> /\ Head(inbox[b]).kind = "FIN"
  /\ Set(xchg, b, AfterDone(xchg[b]))
  /\ inbox' = IF AnswersDone(xchg[b]) THEN Broadcast(Taken(b), Message(b, "FIN"), heard)
              ELSE Taken(b)
  /\ Goto(b, "drain")
  /\ UNCHANGED <<phase, core1, link, card, row, ended>>

IgnoreFrame(b) ==
  /\ InExchange(b) /\ inbox[b] # <<>> /\ Head(inbox[b]).kind \in {"BEACON", "DONE"}
  /\ Take(b) /\ Goto(b, "drain")
  /\ UNCHANGED <<phase, core1, link, xchg, card, row, ended>>

\* The end of a tick: the exchange state is y, which may complete the exchange.
\* The drain stops when the queue is empty or its budget of frames is used up;
\* the budget is a choice, of at least one frame.
Drained(b) == InExchange(b) /\ (inbox[b] = <<>> \/ pc[b] = "drain")

Become(b, y) ==
  /\ Set(xchg, b, y)
  /\ Goto(b, "tick")
  /\ IF Completed(y) THEN FinishPaired(b, y) /\ Set(ended, b, "done")
                     ELSE UNCHANGED <<phase, row, ended>>
  /\ UNCHANGED <<core1, link, card>>

Advance(b) ==
  /\ Drained(b) /\ CanAdvance(xchg[b])
  /\ Become(b, Advanced(xchg[b])) /\ UNCHANGED inbox

Skip(b) ==
  /\ Drained(b) /\ CanSkip(xchg[b], Card[b])
  /\ Become(b, Advanced(xchg[b])) /\ UNCHANGED inbox

SendField(b, heard) ==
  /\ Drained(b) /\ CanSendField(xchg[b])
  /\ Become(b, AfterSendField(xchg[b]))
  /\ Send(b, FieldOf(b, xchg[b].cursor), heard)

SendFin(b, heard) ==
  /\ Drained(b) /\ CanSendDone(xchg[b])
  /\ Become(b, AfterSendDone(xchg[b]))
  /\ Send(b, Message(b, "FIN"), heard)

Complete(b) ==
  /\ Drained(b) /\ Completed(xchg[b])
  /\ Become(b, xchg[b]) /\ UNCHANGED inbox

\* A tick that only waits for a timer or for the peer.
Wait(b) ==
  /\ Drained(b) /\ pc[b] = "drain" /\ MayWait(xchg[b])
  /\ Become(b, xchg[b]) /\ UNCHANGED inbox

-----------------------------------------------------------------------------
\* External: an installation beacons, with the same two frame types.
KioskSends(k, heard) ==
  /\ \E kind \in {"BEACON", "DONE"} : Send(k, Message(k, kind), heard)
  /\ UNCHANGED <<phase, pc, core1, link, xchg, card, row, ended>>

User(b) == PressBoop(b) \/ PressCancel(b) \/ PressAgain(b) \/ LeaveScreen(b)

\* What b does without transmitting, and what it transmits, but for the end of
\* an exchange tick.
Quiet(b) == \/ HandleCancel(b) \/ Start(b) \/ IdleDrain(b) \/ TerminalExpires(b)
            \/ BeaconNotDue(b) \/ ListenTimeout(b)
            \/ HearBeacon(b) \/ HearExchangeFrame(b) \/ IgnoreFrame(b)
Loud(b, heard) == \/ BeaconTx(b, heard)
                  \/ HandleField(b, heard) \/ HandleFin(b, heard)

\* How a tick of the exchange ends.
EndTick(b, heard) == \/ Advance(b) \/ Skip(b) \/ Complete(b) \/ Wait(b)
                     \/ SendField(b, heard) \/ SendFin(b, heard)

Next ==
  \/ \E b \in Badges : \/ User(b) \/ Quiet(b) \/ ExchangeTimeout(b)
                       \/ \E heard \in Audience(b) : Loud(b, heard) \/ EndTick(b, heard)
  \/ \E k \in Kiosks : \E heard \in SUBSET Badges : KioskSends(k, heard)

Spec == Init /\ [][Next]_vars

\* irTask is pinned to core 0 and never stops ticking: whatever it can do on its
\* own, it does.  The two minute limit is taken by the first tick that finds it
\* passed, however often the ticks before found it not passed.  Nothing is asked
\* of the users.
KeepsTicking(b) ==
  /\ WF_vars(Quiet(b))
  /\ WF_vars(\E heard \in Audience(b) : EndTick(b, heard))
  /\ SF_vars(ExchangeTimeout(b))

TickingSpec == Spec /\ \A b \in Badges : KeepsTicking(b)

\* And a kind of frame that is sent over and over is heard by everybody over and
\* over.
KeepsSending(b) ==
  LET all == Badges \ {b}
  IN  /\ WF_vars(\E heard \in Audience(b) : Loud(b, heard))
      /\ SF_vars(BeaconTx(b, all))
      /\ SF_vars(HandleField(b, all)) /\ SF_vars(HandleFin(b, all))
      /\ SF_vars(SendField(b, all)) /\ SF_vars(SendFin(b, all))

FairSpec == TickingSpec /\ \A b \in Badges : KeepsSending(b)

-----------------------------------------------------------------------------
(* Properties. *)

\* The boops that b has counted: the k-th with p, for every k up to what p's row says.
Boops(b) == Cardinality({n \in Parties \X (1 .. MaxSessions) : n[2] <= row[b][n[1]].boops})

\* A session counts one boop at most, and a badge that got as far as an exchange
\* or a result has counted it, whatever was lost, left over from an earlier
\* session, cancelled or timed out (recordBoopOnce, BoopsProtocol.cpp:472-486).
OneBoopPerSession ==
  \A b \in Badges :
    /\ Boops(b) <= session[b]
    /\ phase[b] \in {"EXCHANGE", "PAIRED_OK"} => row[b][peer[b]].boops > 0

\* Only badges swap fields, and between two badges in an exchange with each other
\* exactly one leads it (BoopsProtocol.cpp:450-463, 614-635).
OneLeader ==
  \A b \in Badges : phase[b] = "EXCHANGE" =>
    /\ peer[b] \in Badges \ {b}
    /\ phase[peer[b]] = "EXCHANGE" /\ peer[peer[b]] = b =>
         xchg[b].primary # xchg[peer[b]].primary

\* A boop that completed its exchange is a boop on both sides: the other badge has
\* a row for this one too.
MutualBoop ==
  \A b \in Badges : ended[b] = "done" /\ phase[b] = "PAIRED_OK" =>
    row[peer[b]][b].boops > 0

\* A completed exchange leaves the peer's whole card in the journal.
WholeCard ==
  \A b \in Badges : ended[b] = "done" /\ phase[b] = "PAIRED_OK" =>
    \A i \in Card[peer[b]] : row[b][peer[b]].fields[i] = peer[b]

\* Nobody is trapped in an exchange: it ends, by itself or at the limit
\* (kExchangeMaxMs, BoopsHandlers.cpp:149-163).
ExchangeEnds ==
  \A b \in Badges : phase[b] = "EXCHANGE" ~> phase[b] # "EXCHANGE"

\* BadgeBoops.h:47 has the boop type come from a beacon.  It may come from a frame
\* of an exchange (BoopsProtocol.cpp:701-703), left over in the queue or heard when a
\* counter wrapped, and a badge then takes its peer for an installation and swaps
\* nothing with it.  What that never costs is the boop: both have a row by then.
MisreadHasBooped ==
  \A b \in Badges : type[b] = "OTHER" /\ peer[b] \in Badges =>
    row[b][peer[b]].boops > 0 /\ row[peer[b]][b].boops > 0

\* A badge whose peer is in the exchange with it does not stay at its beacons
\* for ever: the frames of the exchange pull it in, unless the peer's user cancels
\* (BoopsProtocol.cpp:677-684).
FollowsIntoExchange ==
  \A b, c \in Badges :
    phase[b] = "BEACONING" /\ phase[c] = "EXCHANGE" /\ peer[c] = b
      ~> phase[b] # "BEACONING" \/ phase[c] = "CANCELLED"

\* In a room of two badges that boop once, the exchange is the one of PingPong:
\* the badge with the smaller UID leads.
Side(s) == IF s = "pri" THEN Min(Badges) ELSE Max(Badges)

\* Whether b has begun its exchange.
Begun(b) == phase[b] = "EXCHANGE" \/ ended[b] # "none"

\* The frames of a queue that belong to an exchange, named as in PingPong.  What they
\* come after are beacons: a badge that is through with its beacons sends no more.
Lead(s) == CHOOSE n \in 0 .. Len(s) :
             \A k \in 1 .. Len(s) : k <= n <=> s[k].kind \in {"BEACON", "DONE"}
Plain(f)  == [kind |-> f.kind, tag |-> f.tag]
Behind(s) == [k \in 1 .. Len(s) - Lead(s) |-> Plain(s[k + Lead(s)])]

PairCard  == [s \in {"pri", "sec"} |-> Card[Side(s)]]
PairX     == [s \in {"pri", "sec"} |->
                IF Begun(Side(s)) THEN xchg[Side(s)] ELSE FreshExchange(s = "pri")]
PairStage == [s \in {"pri", "sec"} |->
                IF phase[Side(s)] = "EXCHANGE" THEN "open"
                ELSE IF ended[Side(s)] = "none" THEN "beaconing" ELSE ended[Side(s)]]
PairQueue == [s \in {"pri", "sec"} |-> Behind(inbox[Side(s)])]

Pair == INSTANCE PingPong WITH
          Card <- PairCard, x <- PairX, stage <- PairStage, q <- PairQueue

PairSpec == Pair!Spec

=============================================================================
