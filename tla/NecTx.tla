------------------------------- MODULE NecTx --------------------------------
(***************************************************************************)
(* The infrared transmitter (firmware/src/hw/ir/nec_tx.c) and its three    *)
(* users in irTask (ir/BadgeIR.cpp): badge frames, consumer NEC frames with *)
(* repeats, and raw symbols at a carrier of their own.                      *)
(*                                                                         *)
(* irTask and the driver's interrupt hand one task notification to and fro: *)
(* a send takes it, the interrupt at the end of the transmission gives it   *)
(* back, a wait takes it and gives it back at once.  Sends and waits give up *)
(* after a time limit.  Meanwhile MicroPython on core 1 may set the power,  *)
(* which applies the carrier anew.                                          *)
(***************************************************************************)
EXTENDS Naturals

CONSTANTS Overrides   \* the carriers irRawSend is asked for, 0 for the default

ASSUME OverridesAssumption == Overrides \subseteq {0} \cup (3000 .. 60000)

Default == 38000      \* the carrier of nec_tx_init and nec_tx_set_carrier_duty
Kinds   == {"badge", "nec", "raw"}
TxSteps == {"down", "loop", "prepare", "take", "transmit", "wait", "after"}

VARIABLES
  at,        \* where irTask stands
  job,       \* what it is sending, "none" between requests
  asked,     \* the carrier the request asks for, or 0
  credit,    \* irTask's notification count
  is_transmitting,
  air,       \* what is on the air, or "none"
  abandoned, \* the wait for what is on the air has timed out
  carrier,   \* of the channel
  power,     \* core 1 is in irSetTxPower, past the test of is_transmitting
  stuck      \* history: a wait for a transmission at a carrier of its own timed out

txVars == <<at, job, asked, credit, is_transmitting, air, abandoned, carrier, power, stuck>>

TxTypeOK ==
  /\ at \in TxSteps /\ job \in Kinds \cup {"none"} /\ asked \in Overrides \cup {0}
  /\ credit \in {0, 1} /\ is_transmitting \in BOOLEAN
  /\ air \in Kinds \cup {"none"} /\ abandoned \in BOOLEAN
  /\ carrier \in Overrides \cup {Default}
  /\ power \in BOOLEAN /\ stuck \in BOOLEAN

TxInit ==
  /\ at = "down" /\ job = "none" /\ asked = 0
  /\ credit = 0 /\ is_transmitting = FALSE /\ air = "none" /\ abandoned = FALSE
  /\ carrier = Default /\ power = FALSE /\ stuck = FALSE

-----------------------------------------------------------------------------
(* irTask: the channel. *)

\* nec_tx_init, then irHwInit drains the notifications and gives one.
InitTx ==
  /\ at = "down"
  /\ credit' = 1 /\ is_transmitting' = FALSE /\ air' = "none" /\ abandoned' = FALSE
  /\ carrier' = Default /\ stuck' = FALSE /\ at' = "loop"
  /\ UNCHANGED <<job, asked, power>>

\* nec_tx_deinit: the channel is disabled and deleted, whatever is on the air.
DeinitTx ==
  /\ at = "loop"
  /\ is_transmitting' = FALSE /\ air' = "none" /\ abandoned' = FALSE /\ at' = "down"
  /\ UNCHANGED <<job, asked, credit, carrier, power, stuck>>

-----------------------------------------------------------------------------
(* irTask: the three senders. *)

\* Only raw symbols have a carrier of their own.
Begin(j, c) ==
  /\ at = "loop" /\ (c # 0 => j = "raw")
  /\ job' = j /\ asked' = c
  /\ at' = IF c # 0 THEN "prepare" ELSE "take"
  /\ UNCHANGED <<credit, is_transmitting, air, abandoned, carrier, power, stuck>>

\* The carrier is not touched while is_transmitting, which nobody is told.
Apply(c) == carrier' = IF is_transmitting THEN carrier ELSE c

Prepare ==
  /\ at = "prepare"
  /\ Apply(asked) /\ at' = "take"
  /\ UNCHANGED <<job, asked, credit, is_transmitting, air, abandoned, power, stuck>>

\* nec_tx_send, nec_tx_send_symbols: take the notification, or give up ...
Take ==
  /\ at = "take" /\ credit > 0
  /\ credit' = 0 /\ is_transmitting' = TRUE /\ at' = "transmit"
  /\ UNCHANGED <<job, asked, air, abandoned, carrier, power, stuck>>

TakeTimeout ==
  /\ at = "take" /\ credit = 0
  /\ at' = "after"
  /\ UNCHANGED <<job, asked, credit, is_transmitting, air, abandoned, carrier, power, stuck>>

\* ... and rmt_transmit, which takes one transmission at a time ...
RmtTransmit ==
  /\ at = "transmit" /\ air = "none"
  /\ air' = job /\ abandoned' = FALSE
  /\ at' = "wait"
  /\ UNCHANGED <<job, asked, credit, is_transmitting, carrier, power, stuck>>

\* Mutant: the notification is lost with the transmission.
TransmitFailsOnly ==
  /\ at = "transmit"
  /\ is_transmitting' = FALSE /\ at' = "after"
  /\ UNCHANGED <<job, asked, credit, air, abandoned, carrier, power, stuck>>

\* ... or refuses, and the notification is given back.
TransmitFails ==
  /\ at = "transmit"
  /\ is_transmitting' = FALSE /\ credit' = credit + 1 /\ at' = "after"
  /\ UNCHANGED <<job, asked, air, abandoned, carrier, power, stuck>>

\* nec_tx_wait: taken when the interrupt has given it, and given back.
WaitDone ==
  /\ at = "wait" /\ credit > 0
  /\ credit' = 1 /\ is_transmitting' = FALSE /\ at' = "after"
  /\ UNCHANGED <<job, asked, air, abandoned, carrier, power, stuck>>

\* Mutant: a wait that gives up makes the next send possible.
WaitTimeoutGives ==
  /\ at = "wait" /\ credit = 0
  /\ abandoned' = TRUE
  /\ stuck' = (stuck \/ asked # 0)
  /\ credit' = 1 /\ at' = "after"
  /\ UNCHANGED <<job, asked, is_transmitting, air, carrier, power>>

\* It may give up; nobody looks at what it returns.
WaitTimeout ==
  /\ at = "wait" /\ credit = 0
  /\ abandoned' = TRUE
  /\ stuck' = (stuck \/ asked # 0)
  /\ at' = "after"
  /\ UNCHANGED <<job, asked, credit, is_transmitting, air, carrier, power>>

\* Repeats of a consumer NEC frame, which are sent even if the frame was not.
Repeat ==
  /\ at = "after" /\ job = "nec"
  /\ at' = "take"
  /\ UNCHANGED <<job, asked, credit, is_transmitting, air, abandoned, carrier, power, stuck>>

\* Mutant: the carrier stays as the raw symbols had it.
FinishOnly ==
  /\ at = "after"
  /\ at' = "loop" /\ job' = "none" /\ asked' = 0
  /\ UNCHANGED <<credit, is_transmitting, air, abandoned, carrier, power, stuck>>

\* The end of a request; serviceRawTx restores the carrier if it was changed.
Finish ==
  /\ at = "after"
  /\ IF asked # 0 THEN Apply(Default) ELSE UNCHANGED carrier
  /\ at' = "loop" /\ job' = "none" /\ asked' = 0
  /\ UNCHANGED <<credit, is_transmitting, air, abandoned, power, stuck>>

-----------------------------------------------------------------------------
(* The interrupt at the end of a transmission, and core 1. *)

OnTransDone ==
  /\ air # "none"
  /\ air' = "none" /\ abandoned' = FALSE /\ credit' = credit + 1
  /\ UNCHANGED <<at, job, asked, is_transmitting, carrier, power, stuck>>

\* irSetTxPower: tests is_transmitting, then applies the default carrier.
SetTxPower ==
  /\ ~power /\ at # "down" /\ ~is_transmitting
  /\ power' = TRUE
  /\ UNCHANGED <<at, job, asked, credit, is_transmitting, air, abandoned, carrier, stuck>>

ApplyTxPower ==
  /\ power /\ power' = FALSE
  /\ carrier' = Default
  /\ UNCHANGED <<at, job, asked, credit, is_transmitting, air, abandoned, stuck>>

-----------------------------------------------------------------------------
TxTask ==
  \/ InitTx \/ DeinitTx
  \/ \E j \in Kinds, c \in Overrides \cup {0} : Begin(j, c)
  \/ Prepare \/ Take \/ TakeTimeout \/ RmtTransmit \/ TransmitFails
  \/ WaitDone \/ WaitTimeout \/ Repeat \/ Finish

TxNext == TxTask \/ OnTransDone \/ SetTxPower \/ ApplyTxPower

TxSpec == TxInit /\ [][TxNext]_txVars

\* irTask goes on, what is transmitted ends, and the driver takes a transmission
\* that it is offered over and over.
FairTxSpec == TxSpec /\ WF_txVars(TxTask) /\ WF_txVars(OnTransDone) /\ SF_txVars(RmtTransmit)

-----------------------------------------------------------------------------
(* Properties. *)

\* The ring slot that a send writes, and the channel it goes to, are idle: "slot N
\* is always idle when ring_idx == N" (nec_tx.c:215-216), however many waits have
\* timed out before.
SlotIdle == at = "transmit" => air = "none"

\* What is on the air has a sender that waits for it, and so keeps its symbols valid
\* (nec_tx.h: "until nec_tx_wait() returns") and the channel alive, unless that wait
\* has timed out.
OnAirIsAwaited ==
  air # "none" => abandoned \/ (at = "wait" /\ job = air)

\* "Restore the default 38 kHz carrier so any subsequent badge-mode traffic is
\* unaffected" (BadgeIR.cpp:705-706): badge and NEC frames are on the air at 38 kHz,
\* unless the wait for raw symbols at a carrier of their own has timed out.
BadgeCarrier == (air \in {"badge", "nec"} /\ ~stuck) => carrier = Default

\* A transmitter that is used again and again transmits again and again: no time
\* limit and no refusal by the driver loses the notification for good.
NeverMute == []<>(at = "take") => []<>(at = "wait")

=============================================================================
