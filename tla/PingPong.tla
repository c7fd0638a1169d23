------------------------------ MODULE PingPong ------------------------------
(***************************************************************************)
(* One field exchange between two badges, from the moment either enters    *)
(* BOOP_PHASE_EXCHANGE until both are out of it                             *)
(* (firmware/src/boops/BoopsHandlers.cpp, peer_tickPostConfirm and          *)
(* processPpFrame).  "pri" is the badge with the smaller UID.               *)
(*                                                                         *)
(* The infrared medium loses any frame it likes and never reorders or       *)
(* duplicates; a frame that arrives waits in the receiver's queue, which    *)
(* drops the newest frame when it is full.  Timers only decide when a step  *)
(* that is allowed happens, so each is a choice.                            *)
(***************************************************************************)
EXTENDS Exchange, Sequences

CONSTANTS
  QueueDepth,   \* frames the receive queue holds
  Card          \* Card[b]: the tags for which b has something to share

Sides == {"pri", "sec"}
Other(b) == IF b = "pri" THEN "sec" ELSE "pri"

ASSUME QueueDepthAssumption == QueueDepth \in Nat \ {0}
ASSUME CardAssumption == Card \in [Sides -> SUBSET Tags]

VARIABLES
  x,       \* x[b]: b's s_xchg
  stage,   \* stage[b]: "beaconing" before the exchange, "open" in it, then
           \* "done", or "left" when b cancelled or hit the two minute limit
  q        \* q[b]: frames waiting for b

vars == <<x, stage, q>>

Field(i) == [kind |-> "FIELD", tag |-> i]
Done     == [kind |-> "FIN", tag |-> Rounds]
Frames   == {Field(i) : i \in Tags} \cup {Done}

TypeOK ==
  /\ x \in [Sides -> ExchangeState]
  /\ stage \in [Sides -> {"beaconing", "open", "done", "left"}]
  /\ q \in [Sides -> Seq(Frames)]
  /\ \A b \in Sides : Len(q[b]) <= QueueDepth

Init ==
  /\ x = [b \in Sides |-> FreshExchange(b = "pri")]
  /\ stage = [b \in Sides |-> "beaconing"]
  /\ q = [b \in Sides |-> <<>>]

-----------------------------------------------------------------------------
(* The medium. *)

\* The queue of the badge across from the sender of f.
Offered(queue, f, heard) ==
  IF heard /\ Len(queue) < QueueDepth THEN Append(queue, f) ELSE queue

Send(b, f, heard) == q' = [q EXCEPT ![Other(b)] = Offered(@, f, heard)]

\* b takes its first frame off the queue and answers with f.
TakeAndSend(b, f, heard) ==
  q' = [q EXCEPT ![b] = Tail(@), ![Other(b)] = Offered(@, f, heard)]

Take(b) == q' = [q EXCEPT ![b] = Tail(@)]

-----------------------------------------------------------------------------
(* Before and after the exchange. *)

\* Exchange frames that reach a badge at its beacons, or back at its idle screen,
\* are taken off the queue and not used.
Drop(b) ==
  /\ stage[b] # "open" /\ q[b] # <<>>
  /\ Take(b)
  /\ UNCHANGED <<x, stage>>

\* Leaving the boop screen deletes the queue with all that is in it.
TearDown(b) ==
  /\ stage[b] # "open" /\ q[b] # <<>>
  /\ q' = [q EXCEPT ![b] = <<>>]
  /\ UNCHANGED <<x, stage>>

Enter(b) ==
  /\ stage[b] = "beaconing"
  /\ stage' = [stage EXCEPT ![b] = "open"]
  /\ UNCHANGED <<x, q>>

\* The user cancels, or the exchange runs into kExchangeMaxMs.
Leave(b) ==
  /\ stage[b] = "open"
  /\ stage' = [stage EXCEPT ![b] = "left"]
  /\ UNCHANGED <<x, q>>

-----------------------------------------------------------------------------
(* Draining the queue. *)

Receiving(b, kind) == stage[b] = "open" /\ q[b] # <<>> /\ Head(q[b]).kind = kind

\* A secondary always answers a FIELD with its own FIELD for that tag.
HandleField(b, heard) ==
  /\ Receiving(b, "FIELD")
  /\ LET i == Head(q[b]).tag
     IN  /\ x' = [x EXCEPT ![b] = AfterField(@, i)]
         /\ IF x[b].primary THEN Take(b) ELSE TakeAndSend(b, Field(i), heard)
  /\ UNCHANGED stage

HandleDone(b, heard) ==
  /\ Receiving(b, "FIN")
  /\ x' = [x EXCEPT ![b] = AfterDone(@)]
  /\ IF AnswersDone(x[b]) THEN TakeAndSend(b, Done, heard) ELSE Take(b)
  /\ UNCHANGED stage

-----------------------------------------------------------------------------
(* The rest of a tick.  The drain before it stops when the queue is empty   *)
(* or its budget of frames is used up; the budget is a choice here, and the *)
(* steps below do not look at the queue.                                     *)

Ticking(b) == stage[b] = "open"

\* Every tick ends with the completion test.
Become(b, y) ==
  /\ x' = [x EXCEPT ![b] = y]
  /\ stage' = [stage EXCEPT ![b] = IF Completed(y) THEN "done" ELSE @]

Advance(b) ==
  /\ Ticking(b) /\ CanAdvance(x[b])
  /\ Become(b, Advanced(x[b]))
  /\ UNCHANGED q

SendField(b, heard) ==
  /\ Ticking(b) /\ CanSendField(x[b])
  /\ Become(b, AfterSendField(x[b]))
  /\ Send(b, Field(x[b].cursor), heard)

Skip(b) ==
  /\ Ticking(b) /\ CanSkip(x[b], Card[b])
  /\ Become(b, Advanced(x[b]))
  /\ UNCHANGED q

SendDone(b, heard) ==
  /\ Ticking(b) /\ CanSendDone(x[b])
  /\ Become(b, AfterSendDone(x[b]))
  /\ Send(b, Done, heard)

Complete(b) ==
  /\ Ticking(b) /\ Completed(x[b])
  /\ Become(b, x[b])
  /\ UNCHANGED q

-----------------------------------------------------------------------------
Handle(b, heard) == HandleField(b, heard) \/ HandleDone(b, heard)

Tick(b) == Advance(b) \/ Skip(b) \/ Complete(b)

Next ==
  \E b \in Sides :
    \/ Drop(b) \/ TearDown(b) \/ Enter(b) \/ Leave(b) \/ Tick(b)
    \/ \E heard \in BOOLEAN :
         Handle(b, heard) \/ SendField(b, heard) \/ SendDone(b, heard)

Spec == Init /\ [][Next]_vars

\* irTask ticks for ever on its own core, so each badge keeps draining, sending
\* and advancing; and a link on which retries are worth anything delivers a frame
\* that is sent again and again.  Nothing obliges anyone to leave.
FairLink(b) ==
  /\ WF_vars(Enter(b)) /\ WF_vars(Tick(b))
  /\ WF_vars(\E heard \in BOOLEAN : Handle(b, heard))
  /\ WF_vars(\E heard \in BOOLEAN : SendField(b, heard))
  /\ WF_vars(\E heard \in BOOLEAN : SendDone(b, heard))
  /\ SF_vars(Handle(b, TRUE))
  /\ SF_vars(SendField(b, TRUE))
  /\ SF_vars(SendDone(b, TRUE))

FairSpec == Spec /\ \A b \in Sides : FairLink(b)

-----------------------------------------------------------------------------
(* Properties. *)

\* A badge that ends its exchange because it is complete, on either side, does
\* so only when both badges have heard every field and the secondary has walked
\* its whole tag order (BoopsHandlers.cpp:313-316, the `done` test).
CompleteTogether ==
  \A b \in Sides : stage[b] = "done" =>
    /\ \A c \in Sides : x[c].received = Tags
    /\ x["pri"].cursor = Rounds /\ x["sec"].cursor = Rounds

\* A cursor jumps forward only over tags the peer already has from us
\* (BoopsHandlers.cpp:465-467).
JumpIsSafe ==
  \A b \in Sides : q[b] # <<>> /\ Head(q[b]).kind = "FIELD" =>
    \A i \in x[b].cursor .. Head(q[b]).tag - 1 : i \in x[Other(b)].received

\* The two walks, as they stand between any two steps: what CompleteTogether and
\* JumpIsSafe rest on (BoopsHandlers.cpp:192-302, 454-508).

\* The frames that wait for b.
Waiting(b) == {q[b][k] : k \in DOMAIN q[b]}

Roles == \A b \in Sides : x[b].primary = (b = "pri")

\* The primary has heard exactly the tags it is past, and perhaps its current one,
\* and each of them only after the secondary did.
PrimaryWalk ==
  /\ \A i \in Tags : i < x["pri"].cursor => i \in x["pri"].received
  /\ \A i \in x["pri"].received : i <= x["pri"].cursor /\ i \in x["sec"].received

\* The secondary has heard nothing past its own cursor or the primary's, and what it
\* has not said at its cursor it has not heard: that is what lets it stay silent
\* until the primary asks again.
SecondaryWalk ==
  /\ \A i \in x["sec"].received : i <= x["sec"].cursor /\ i <= x["pri"].cursor
  /\ PeerSent(x["sec"]) => x["sec"].mySent

\* A FIELD on its way to the secondary is one the primary has reached; one on its
\* way back answers one the secondary has heard.
FieldsInFlight ==
  /\ \A f \in Waiting("sec") : f.kind = "FIELD" => f.tag <= x["pri"].cursor
  /\ \A f \in Waiting("pri") : f.kind = "FIELD" => /\ f.tag <= x["pri"].cursor
                                                   /\ f.tag \in x["sec"].received

\* Every DONE, sent, seen or on its way, has a badge at the end of its walk behind it.
DoneChain ==
  /\ \A b \in Sides : x[b].doneSent => x[b].cursor = Rounds
  /\ \A b \in Sides : x[b].finSeen => x[Other(b)].doneSent
  /\ \A b \in Sides : \A f \in Waiting(b) : f.kind = "FIN" => x[Other(b)].doneSent
  /\ \A b \in Sides : stage[b] = "done" => Completed(x[b])

Lockstep == Roles /\ PrimaryWalk /\ SecondaryWalk /\ FieldsInFlight /\ DoneChain

\* If nobody cancels or runs out of time, a link that delivers what is retried
\* gets every field across (BoopsHandlers.cpp:105-115).
FieldsGetAcross ==
  <>(\/ \E b \in Sides : stage[b] = "left"
     \/ \A b \in Sides : x[b].received = Tags)

\* The exchange keeps the promise of FieldSwap, when what a badge has learned is
\* what it has received and the stages before "done" and "left" are all "open".
Swap == INSTANCE FieldSwap WITH
          learned <- [b \in Sides |-> x[b].received],
          verdict <- [b \in Sides |->
                        IF stage[b] \in {"done", "left"} THEN stage[b] ELSE "open"]

SwapSpec == Swap!Spec

=============================================================================
