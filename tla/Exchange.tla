------------------------------ MODULE Exchange ------------------------------
(***************************************************************************)
(* The per-badge bookkeeping of the v3 "pingpong" field exchange           *)
(* (firmware/src/boops/BoopsHandlers.cpp), as operators on one record, the *)
(* part of XchgState that the v3 code uses.  Both PingPong (two badges, one *)
(* exchange) and BoopProtocol (any number of badges, whole sessions) are   *)
(* built from these operators.                                             *)
(*                                                                         *)
(* A tag is its index in kPpTagOrder: the code walks the order by index and *)
(* every mask is keyed by the tag at that index.                           *)
(***************************************************************************)
EXTENDS Naturals

CONSTANT Rounds        \* kPpTagOrderCount: how many fields are swapped

ASSUME RoundsAssumption == Rounds \in Nat

Tags == 0 .. Rounds - 1

\* s_xchg: `cursor` is ppCursor, `mySent` ppMySent, `received` localReceivedMask,
\* `doneSent` ppDoneSent, `finSeen` peerFinSeen.
ExchangeState ==
  [primary : BOOLEAN, cursor : 0 .. Rounds, mySent : BOOLEAN,
   received : SUBSET Tags, doneSent : BOOLEAN, finSeen : BOOLEAN]

\* resetFieldExchangeState: everything zero, the role decided by the UIDs.
FreshExchange(isPrimary) ==
  [primary |-> isPrimary, cursor |-> 0, mySent |-> FALSE,
   received |-> {}, doneSent |-> FALSE, finSeen |-> FALSE]

-----------------------------------------------------------------------------
(* Inbound frames: processPpFrame. *)

\* A FIELD for tag i: mark it received, jump the cursor forward when the peer
\* is ahead, and let a secondary that replies at its cursor count as sent.
AfterField(x, i) ==
  LET jumped == i > x.cursor
      cursor == IF jumped THEN i ELSE x.cursor
  IN  [x EXCEPT !.received = @ \cup {i},
                !.cursor   = cursor,
                !.mySent   = \/ ~jumped /\ @
                             \/ ~x.primary /\ i = cursor]

\* A DONE: remember it; a secondary whose cursor is at the end answers at once.
\* Mutant: the secondary answers wherever it is in its walk.
AnswersDoneAnywhere(x) == ~x.primary

AnswersDone(x) == ~x.primary /\ x.cursor = Rounds

AfterDone(x) ==
  [x EXCEPT !.finSeen = TRUE, !.doneSent = @ \/ AnswersDone(x)]

-----------------------------------------------------------------------------
(* The tick after the drain: section 2 of peer_tickPostConfirm.  At most one *)
(* of these guards holds of a state; `mine` is the set of this badge's own   *)
(* non-empty fields.                                                         *)

Walking(x)  == x.cursor < Rounds
PeerSent(x) == x.cursor \in x.received

\* Mutant: the cursor moves on once we have spoken.
CanAdvanceUnheard(x) == Walking(x) /\ x.mySent

CanAdvance(x) == Walking(x) /\ PeerSent(x) /\ x.mySent
Advanced(x)   == [x EXCEPT !.cursor = @ + 1, !.mySent = FALSE]

\* Mutant: no retry.
CanSendFieldOnce(x) == Walking(x) /\ x.primary /\ ~x.mySent

\* The primary sends FIELD(cursor) once, then again while it hears no reply.
CanSendField(x)  == /\ Walking(x) /\ x.primary
                    /\ ~x.mySent \/ ~PeerSent(x)
AfterSendField(x) == [x EXCEPT !.mySent = TRUE]

\* Mutant: a primary with nothing to say gives up waiting too.
CanSkipEither(x, mine) == Walking(x) /\ x.cursor \notin mine /\ ~PeerSent(x)

\* A secondary with nothing to say gives up waiting for this tag.
CanSkip(x, mine) == /\ Walking(x) /\ ~x.primary
                    /\ x.cursor \notin mine /\ ~PeerSent(x)

\* The primary leads the DONE handshake and retries until it is answered; the
\* secondary sends a DONE of its own only if it saw one before it got here.
CanSendDone(x) == /\ x.cursor = Rounds
                  /\ IF x.primary THEN ~x.doneSent \/ ~x.finSeen
                                  ELSE x.finSeen /\ ~x.doneSent
AfterSendDone(x) == [x EXCEPT !.doneSent = TRUE]

\* Mutant: a DONE of our own is enough.
CompletedUnheard(x) == x.cursor = Rounds /\ x.doneSent

\* Section 3: what ends the exchange.
Completed(x) == x.cursor = Rounds /\ x.doneSent /\ x.finSeen

\* Otherwise the tick has nothing to do, or only a timer that has not run out.
MayWait(x) == /\ ~CanAdvance(x) /\ ~Completed(x)
              /\ CanSendField(x) => x.mySent
              /\ CanSendDone(x) => x.primary /\ x.doneSent

=============================================================================
