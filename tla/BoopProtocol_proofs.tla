------------------------ MODULE BoopProtocol_proofs ------------------------
(***************************************************************************)
(* Proofs about BoopProtocol, for any number of badges and installations,   *)
(* any queue depth and any number of sessions, except where a theorem says  *)
(* who meets and how often.                                                 *)
(*                                                                         *)
(* The argument is in layers.  IInv is inductive on its own: it gives the   *)
(* types and says, of every badge, which phases go with which counters      *)
(* (Session), who its peer can be (Peer), how much it has counted (Counted), *)
(* and what its queue can hold (FramesFor).  On top of it Single counts the  *)
(* boops of all rows together, and Mutual follows the frames of an exchange *)
(* to what their sender has written.                                        *)
(*                                                                         *)
(* For two badges that meet once, Paired says what the frames in a queue    *)
(* tell of their sender and in which order they came, and TypeKept that     *)
(* neither takes the other for an installation.  With these every step is a *)
(* step of PingPong or a stutter, so that what PingPong_proofs shows of the *)
(* bare exchange (PP, below) holds of the whole session; Whole says that    *)
(* the stored card is the one the exchange built.                           *)
(*                                                                         *)
(* A step of one badge is split into what it does to itself (one lemma for  *)
(* each action, put together in OwnStep), what it leaves alone (OthersStay), *)
(* and what it adds to the queues of the others (InboxStep).                *)
(***************************************************************************)
EXTENDS BoopProtocol, FiniteSetTheorems, TLAPS

\* The queues of a badge.
Queues == {q \in Seq(Frames) : Len(q) <= QueueDepth}

\* The frames in a queue.
Held(q) == {q[k] : k \in DOMAIN q}

\* TypeOK, but for the bound on the rows, which is proved by counting.
Types ==
  /\ phase \in [Badges -> Phases]
  /\ pc \in [Badges -> {"tick", "listen", "drain"}]
  /\ engaged \in [Badges -> BOOLEAN] /\ cancelReq \in [Badges -> BOOLEAN]
  /\ peer \in [Badges -> Parties \cup {Nobody}]
  /\ type \in [Badges -> {"PEER", "OTHER"}]
  /\ rx \in [Badges -> 0 .. 1] /\ tx \in [Badges -> 0 .. 1]
  /\ recorded \in [Badges -> BOOLEAN] /\ peerDone \in [Badges -> BOOLEAN]
  /\ confirm \in [Badges -> 0 .. 1]
  /\ xchg \in [Badges -> ExchangeState]
  /\ card \in [Badges -> [Tags -> Badges \cup {Nobody}]]
  /\ inbox \in [Badges -> Queues]
  /\ session \in [Badges -> 0 .. MaxSessions]
  /\ ended \in [Badges -> {"none", "done", "left"}]

\* Journal rows, however many boops they count.
Rows == [boops : Nat, fields : [Tags -> Badges \cup {Nobody}]]

\* The listening and the draining are of a phase, a session is under way in every
\* phase but IDLE, and it has not ended while it beacons or exchanges.
Session(b) ==
  /\ pc[b] = "listen" => phase[b] = "BEACONING"
  /\ pc[b] = "drain" => phase[b] = "EXCHANGE"
  /\ engaged[b] => session[b] < MaxSessions
  /\ phase[b] # "IDLE" => session[b] > 0
  /\ phase[b] \in {"BEACONING", "EXCHANGE"} => ended[b] = "none"

\* The peer is somebody else, known once a beacon was heard; a peer of type PEER is a
\* badge; and in an exchange the smaller UID leads.  confirm is why the beacon after
\* the peer's DONE locks on.
Peer(b) ==
  /\ peer[b] # b
  /\ rx[b] > 0 => peer[b] # Nobody
  /\ phase[b] = "BEACONING" /\ (peerDone[b] \/ recorded[b]) => peer[b] # Nobody
  /\ phase[b] = "BEACONING" /\ peerDone[b] => confirm[b] = 1
  /\ type[b] = "PEER" /\ peer[b] # Nobody => peer[b] \in Badges
  /\ phase[b] = "EXCHANGE" =>
       peer[b] \in Badges /\ xchg[b].primary = (b < peer[b])

\* No row counts more boops than sessions were started, and one fewer before the
\* boop of this session is recorded.
Counted(b) ==
  /\ \A p \in Parties : row[b][p].boops <= session[b]
  /\ phase[b] = "BEACONING" /\ ~recorded[b] =>
       \A p \in Parties : row[b][p].boops < session[b]

\* What may be in b's queue: frames of others, those of an exchange from badges only.
FramesFor(b) == {f \in Frames : /\ f.from # b
                                /\ f.kind \in {"FIELD", "FIN"} => f.from \in Badges
                                /\ f.kind = "FIELD" => f.tag \in Tags}

\* The inductive invariant.
IInv ==
  /\ Types
  /\ row \in [Badges -> [Parties -> Rows]]
  /\ \A b \in Badges : Session(b) /\ Peer(b) /\ Counted(b)
  /\ \A b \in Badges : Held(inbox[b]) \subseteq FramesFor(b)

\* Every badge has one other party in the room at most.
Duo == \A b \in Badges : \A p, q \in Parties \ {b} : p = q

\* The peer of a session stays: the first frame decides who it is, and only a beacon
\* counter that wraps to zero makes a later frame the first again.  With two others
\* in the room such a session may count a boop with each of them.
Steady == Wraps => Duo

\* The boop of this session is in the row of its peer, and the rows together count
\* no more boops than sessions were started.
Single(b) ==
  /\ phase[b] = "BEACONING" /\ recorded[b] =>
       row[b][peer[b]].boops > 0 /\ (~Wraps => rx[b] = 1)
  /\ phase[b] = "EXCHANGE" => recorded[b]
  /\ phase[b] \in {"EXCHANGE", "PAIRED_OK"} => peer[b] \in Parties
       /\ row[b][peer[b]].boops > 0
  /\ Boops(b) <= session[b]
  /\ phase[b] = "BEACONING" /\ ~recorded[b] => Boops(b) < session[b]

\* What the other badge knows by the time a frame of its exchange arrives.
Mutual(b) ==
  /\ \A f \in Held(inbox[b]) : f.kind \in {"FIELD", "FIN"} => row[f.from][b].boops > 0
  /\ phase[b] = "EXCHANGE" /\ xchg[b].finSeen => row[peer[b]][b].boops > 0
  /\ phase[b] = "PAIRED_OK" /\ ended[b] = "done" =>
       peer[b] \in Badges /\ row[peer[b]][b].boops > 0

-----------------------------------------------------------------------------
(* The constants, the queues, the rows and the exchange state. *)

\* What the assumptions say of the parties and the bounds.
LEMMA Constants ==
  /\ Badges \subseteq Parties /\ Kiosks \subseteq Parties /\ Parties \subseteq Nat
  /\ Nobody \notin Parties /\ Badges \cap Kiosks = {} /\ IsFiniteSet(Parties)
  /\ Card \in [Badges -> SUBSET Tags] /\ Rounds \in Nat /\ Tags = 0 .. Rounds - 1
  /\ QueueDepth \in Nat \ {0} /\ MaxSessions \in Nat /\ Wraps \in BOOLEAN
  BY PartiesAssumption, CardAssumption, BoundsAssumption, RoundsAssumption
     DEF Parties, Nobody, Tags

\* A beacon, a DONE or a FIN is a frame of its sender.
LEMMA MessageFacts ==
  ASSUME NEW b \in Parties, NEW kind \in Kinds
  PROVE  /\ Message(b, kind) \in Frames
         /\ Message(b, kind).kind = kind /\ Message(b, kind).from = b
  BY RoundsAssumption DEF Message, Frames

\* A FIELD is a frame of its sender that names a tag.
LEMMA FieldOfFacts ==
  ASSUME NEW b \in Parties, NEW i \in Tags
  PROVE  /\ FieldOf(b, i) \in Frames /\ FieldOf(b, i).kind = "FIELD"
         /\ FieldOf(b, i).from = b /\ FieldOf(b, i).tag = i
  BY RoundsAssumption DEF FieldOf, Frames, Kinds, Tags

\* A queue with space takes a frame and stays a queue.
LEMMA AppendHeld ==
  ASSUME NEW q \in Queues, NEW f \in Frames, Len(q) < QueueDepth
  PROVE  Append(q, f) \in Queues /\ Held(Append(q, f)) \subseteq Held(q) \cup {f}
  BY BoundsAssumption DEF Queues, Held

\* What recvFrame takes was in the queue; the rest stays a queue.
LEMMA TailHeld ==
  ASSUME NEW q \in Queues, q # <<>>
  PROVE  /\ Tail(q) \in Queues /\ Held(Tail(q)) \subseteq Held(q)
         /\ Head(q) \in Held(q) /\ Head(q) \in Frames
  BY BoundsAssumption DEF Queues, Held

\* Whatever of the room hears a frame, the queues stay queues and hold nothing else
\* that is new.
LEMMA BroadcastFacts ==
  ASSUME NEW queues \in [Badges -> Queues], NEW f \in Frames, NEW heard
  PROVE  /\ Broadcast(queues, f, heard) \in [Badges -> Queues]
         /\ \A c \in Badges : Held(Broadcast(queues, f, heard)[c]) \subseteq
                                Held(queues[c]) \cup (IF c \in heard THEN {f} ELSE {})
<1>1. ASSUME NEW c \in Badges
      PROVE  /\ Broadcast(queues, f, heard)[c] \in Queues
             /\ Held(Broadcast(queues, f, heard)[c]) \subseteq
                  Held(queues[c]) \cup (IF c \in heard THEN {f} ELSE {})
  <2>1. CASE c \in heard /\ Len(queues[c]) < QueueDepth
    BY <2>1, AppendHeld DEF Broadcast
  <2>2. CASE ~(c \in heard /\ Len(queues[c]) < QueueDepth)
    BY <2>2 DEF Broadcast
  <2> QED
    BY <2>1, <2>2
<1> QED
  BY <1>1 DEF Broadcast

\* Taking the first frame of a queue adds nothing to any queue.
LEMMA TakenFacts ==
  ASSUME inbox \in [Badges -> Queues], NEW b \in Badges, inbox[b] # <<>>
  PROVE  /\ Taken(b) \in [Badges -> Queues]
         /\ \A c \in Badges : Held(Taken(b)[c]) \subseteq Held(inbox[c])
         /\ Head(inbox[b]) \in Held(inbox[b]) /\ Head(inbox[b]) \in Frames
  BY TailHeld DEF Taken

\* recordBoop counts one boop in one row.
LEMMA RecordedFacts ==
  ASSUME row \in [Badges -> [Parties -> Rows]], NEW b \in Badges, NEW p \in Parties
  PROVE  /\ Recorded(b, p) \in [Badges -> [Parties -> Rows]]
         /\ \A c \in Badges \ {b} : Recorded(b, p)[c] = row[c]
         /\ \A r \in Parties : r # p => Recorded(b, p)[b][r] = row[b][r]
         /\ Recorded(b, p)[b][p].boops = row[b][p].boops + 1
         /\ Recorded(b, p)[b][p].fields = row[b][p].fields
<1> DEFINE v == [row[b][p] EXCEPT !.boops = @ + 1]
<1>1. /\ v \in Rows /\ v.boops = row[b][p].boops + 1 /\ v.fields = row[b][p].fields
  BY DEF Rows
<1>2. Recorded(b, p) = [row EXCEPT ![b] = [row[b] EXCEPT ![p] = v]]
  BY DEF Recorded
<1> HIDE DEF v
<1> QED BY <1>1, <1>2

\* recordBoopEx touches one row, and counts a boop only in a row it has to make.
LEMMA MergedFacts ==
  ASSUME row \in [Badges -> [Parties -> Rows]], NEW b \in Badges, NEW p \in Parties,
         card \in [Badges -> [Tags -> Badges \cup {Nobody}]]
  PROVE  /\ Merged(b, p) \in [Badges -> [Parties -> Rows]]
         /\ \A c \in Badges \ {b} : Merged(b, p)[c] = row[c]
         /\ \A r \in Parties : r # p => Merged(b, p)[b][r] = row[b][r]
         /\ Merged(b, p)[b][p].boops = IF row[b][p].boops = 0 THEN 1 ELSE row[b][p].boops
         /\ \A i \in Tags : Merged(b, p)[b][p].fields[i] =
              IF card[b][i] # Nobody THEN card[b][i] ELSE row[b][p].fields[i]
  BY DEF Merged, Rows

\* No step of an exchange changes the role, and only the FIN sets finSeen.
LEMMA ExchangeFacts ==
  /\ \A r \in BOOLEAN : FreshExchange(r) \in ExchangeState /\ FreshExchange(r).primary = r
       /\ FreshExchange(r).finSeen = FALSE
  /\ \A y \in ExchangeState :
       /\ \A i \in Tags : AfterField(y, i) \in ExchangeState
            /\ AfterField(y, i).primary = y.primary
                          /\ AfterField(y, i).finSeen = y.finSeen
       /\ AfterDone(y) \in ExchangeState /\ AfterDone(y).primary = y.primary
       /\ Walking(y) => Advanced(y) \in ExchangeState /\ Advanced(y).primary = y.primary
            /\ Advanced(y).finSeen = y.finSeen
       /\ AfterSendField(y) \in ExchangeState /\ AfterSendField(y).primary = y.primary
            /\ AfterSendField(y).finSeen = y.finSeen
       /\ AfterSendDone(y) \in ExchangeState /\ AfterSendDone(y).primary = y.primary
            /\ AfterSendDone(y).finSeen = y.finSeen
<1>0. Rounds \in Nat /\ Tags = 0 .. Rounds - 1
  BY RoundsAssumption DEF Tags
<1>1. \A r \in BOOLEAN : FreshExchange(r) \in ExchangeState
        /\ FreshExchange(r).primary = r /\ FreshExchange(r).finSeen = FALSE
  BY <1>0 DEF FreshExchange, ExchangeState
<1>2. ASSUME NEW y \in ExchangeState, NEW i \in Tags
      PROVE AfterField(y, i) \in ExchangeState /\ AfterField(y, i).primary = y.primary
            /\ AfterField(y, i).finSeen = y.finSeen
  <2> DEFINE cur == IF i > y.cursor THEN i ELSE y.cursor
             said == (~(i > y.cursor) /\ y.mySent) \/ (~y.primary /\ i = cur)
  <2>1. cur \in 0 .. Rounds /\ y.received \cup {i} \in SUBSET Tags /\ said \in BOOLEAN
    BY <1>0 DEF ExchangeState
  <2>2. AfterField(y, i) = [y EXCEPT !.received = y.received \cup {i}, !.cursor = cur,
                                 !.mySent = said]
    BY DEF AfterField
  <2> QED
    BY <2>1, <2>2 DEF ExchangeState
<1>3. ASSUME NEW y \in ExchangeState
      PROVE
       /\ AfterDone(y) \in ExchangeState /\ AfterDone(y).primary = y.primary
       /\ Walking(y) => Advanced(y) \in ExchangeState /\ Advanced(y).primary = y.primary
            /\ Advanced(y).finSeen = y.finSeen
       /\ AfterSendField(y) \in ExchangeState /\ AfterSendField(y).primary = y.primary
            /\ AfterSendField(y).finSeen = y.finSeen
       /\ AfterSendDone(y) \in ExchangeState /\ AfterSendDone(y).primary = y.primary
            /\ AfterSendDone(y).finSeen = y.finSeen
  <2>1. /\ AfterDone(y) \in ExchangeState /\ AfterDone(y).primary = y.primary
        /\ AfterSendField(y) \in ExchangeState /\ AfterSendField(y).primary = y.primary
             /\ AfterSendField(y).finSeen = y.finSeen
        /\ AfterSendDone(y) \in ExchangeState /\ AfterSendDone(y).primary = y.primary
             /\ AfterSendDone(y).finSeen = y.finSeen
    BY <1>0 DEF AfterDone, AnswersDone, AfterSendField, AfterSendDone, ExchangeState
  <2>2. ASSUME Walking(y)
        PROVE  /\ Advanced(y) \in ExchangeState /\ Advanced(y).primary = y.primary
               /\ Advanced(y).finSeen = y.finSeen
    <3>1. y.cursor + 1 \in 0 .. Rounds
      BY <1>0, <2>2 DEF Walking, ExchangeState
    <3> QED BY <3>1 DEF Advanced, ExchangeState
  <2> QED BY <2>1, <2>2
<1> QED
  BY <1>1, <1>2, <1>3

-----------------------------------------------------------------------------
(* What a step changes, action by action. *)

\* Everything of c but its inbox.
Own(c) == <<phase[c], pc[c], engaged[c], cancelReq[c], session[c], peer[c], type[c],
            rx[c], tx[c], recorded[c], peerDone[c], confirm[c], xchg[c], card[c],
            row[c], ended[c]>>

\* The steps of badge b.
Step(b) == \/ User(b) \/ Quiet(b) \/ ExchangeTimeout(b)
           \/ \E heard \in Audience(b) : Loud(b, heard) \/ EndTick(b, heard)

\* The types, with the rows.
Typed == Types /\ row \in [Badges -> [Parties -> Rows]]

\* A step of one badge changes nothing of another but its inbox.
LEMMA OthersStay ==
  ASSUME Typed, NEW b \in Badges, Step(b), NEW c \in Badges, c # b
  PROVE  Own(c)' = Own(c)
<1> USE DEF Typed, Types, Own, Set, Goto, core1, link, Count
<1>1. \A p : Recorded(b, p)[c] = row[c] /\ Merged(b, p)[c] = row[c]
  BY DEF Recorded, Merged
<1>2. CASE User(b)
  BY <1>2 DEF User, PressBoop, PressCancel, PressAgain, LeaveScreen, SmReset
<1>3. CASE HandleCancel(b)
  BY <1>3 DEF HandleCancel
<1>4. CASE Start(b)
  BY <1>4 DEF Start
<1>5. CASE IdleDrain(b) \/ ListenTimeout(b) \/ IgnoreFrame(b)
  BY <1>5 DEF IdleDrain, ListenTimeout, IgnoreFrame
<1>6. CASE TerminalExpires(b)
  BY <1>6 DEF TerminalExpires
<1>7. CASE BeaconNotDue(b)
  BY <1>7, <1>1 DEF BeaconNotDue, RecordAtThreshold
<1>8. CASE HearBeacon(b)
  BY <1>8 DEF HearBeacon, UnpackPeer
<1>9. CASE HearExchangeFrame(b)
  BY <1>9, <1>1 DEF HearExchangeFrame, UnpackPeer
<1>10. CASE ExchangeTimeout(b)
  BY <1>10, <1>1 DEF ExchangeTimeout, FinishPaired
<1>11. ASSUME NEW heard \in Audience(b), BeaconTx(b, heard) PROVE Own(c)' = Own(c)
  <2>1. phase'[c] = phase[c] /\ xchg'[c] = xchg[c] /\ pc'[c] = pc[c] /\ row'[c] = row[c]
    BY <1>11, <1>1 DEF BeaconTx, LockOn, RecordAtThreshold
  <2> QED BY <1>11, <2>1 DEF BeaconTx
<1>12. ASSUME NEW heard \in Audience(b), HandleField(b, heard) PROVE Own(c)' = Own(c)
  BY <1>12 DEF HandleField
<1>13. ASSUME NEW heard \in Audience(b), HandleFin(b, heard) PROVE Own(c)' = Own(c)
  BY <1>13 DEF HandleFin
<1>14. ASSUME NEW y, Become(b, y) PROVE Own(c)' = Own(c)
  BY <1>14, <1>1 DEF Become, FinishPaired
<1>15. ASSUME NEW heard \in Audience(b), EndTick(b, heard) PROVE Own(c)' = Own(c)
  BY <1>14, <1>15 DEF EndTick, Advance, Skip, Complete, Wait, SendField, SendFin
<1> QED
  BY <1>2, <1>3, <1>4, <1>5, <1>6, <1>7, <1>8, <1>9, <1>10, <1>11, <1>12, <1>13, <1>15
     DEF Step, Quiet, Loud

\* What IInv says of b alone.
Local(b) == Session(b) /\ Peer(b) /\ Counted(b)

\* What b does to itself keeps what is said of it.
LEMMA UserStep ==
  ASSUME IInv, NEW b \in Badges, User(b)
  PROVE  Types' /\ row' = row /\ Local(b)'
<1> USE DEF IInv, Set, core1, link, Session
<1>0. row' = row BY DEF User, PressBoop, PressCancel, PressAgain, LeaveScreen
<1>a. ASSUME LeaveScreen(b) PROVE inbox' \in [Badges -> Queues]
  BY <1>a, Constants DEF LeaveScreen, Types, Queues
<1>1. Types'
  <2>1. CASE PressBoop(b) \/ PressCancel(b)
    BY <2>1 DEF PressBoop, PressCancel, Types
  <2>2. CASE PressAgain(b)
    BY <2>2 DEF PressAgain, SmReset, Types, Phases
  <2>3. CASE LeaveScreen(b)
    BY <2>3, <1>a DEF LeaveScreen, SmReset, Types, Phases
  <2> QED BY <2>1, <2>2, <2>3 DEF User
<1>2. (Session(b) /\ Peer(b))'
  BY DEF User, PressBoop, PressCancel, PressAgain, LeaveScreen, SmReset, Types, Peer, Terminal
<1>3. Counted(b)'
  BY <1>0 DEF User, PressBoop, PressCancel, PressAgain, LeaveScreen, SmReset, Types,
     Terminal, Counted
<1> QED BY <1>0, <1>1, <1>2, <1>3 DEF Local

\* A cancel ends the session without touching the journal.
LEMMA CancelStep ==
  ASSUME IInv, NEW b \in Badges, HandleCancel(b)
  PROVE  Types' /\ row' = row /\ Local(b)'
<1> USE DEF IInv, Set, core1, link
<1>1. Types' /\ row' = row
  BY DEF HandleCancel, Types, Phases
<1>2. (Session(b) /\ Peer(b))'
  BY DEF HandleCancel, Types, Session, Peer
<1>3. Counted(b)'
  BY <1>1 DEF HandleCancel, Types, Counted
<1> QED BY <1>1, <1>2, <1>3 DEF Local

\* A session starts clean, with room for one more boop in every row.
LEMMA StartStep ==
  ASSUME IInv, NEW b \in Badges, Start(b)
  PROVE  Types' /\ row' = row /\ Local(b)'
<1> USE DEF IInv, Set, core1, link, Start, AtTick
<1>0. FreshExchange(FALSE) \in ExchangeState /\ BlankCard \in [Tags -> Badges \cup {Nobody}]
  BY ExchangeFacts DEF BlankCard
<1>s. session[b] + 1 \in 1 .. MaxSessions /\ session[b] \in Nat
  BY Constants DEF Types, Session
<1>1. Types' /\ row' = row
  <2>1. phase' \in [Badges -> Phases] /\ session' \in [Badges -> 0 .. MaxSessions]
    BY <1>s DEF Types, Phases
  <2>2. xchg' \in [Badges -> ExchangeState]
          /\ card' \in [Badges -> [Tags -> Badges \cup {Nobody}]]
    BY <1>0 DEF Types
  <2>3. /\ rx' \in [Badges -> 0 .. 1] /\ tx' \in [Badges -> 0 .. 1]
             /\ confirm' \in [Badges -> 0 .. 1]
        /\ peer' \in [Badges -> Parties \cup {Nobody}]
             /\ type' \in [Badges -> {"PEER", "OTHER"}]
    BY DEF Types
  <2>4. /\ engaged' \in [Badges -> BOOLEAN] /\ recorded' \in [Badges -> BOOLEAN]
        /\ peerDone' \in [Badges -> BOOLEAN]
             /\ ended' \in [Badges -> {"none", "done", "left"}]
    BY DEF Types
  <2>5. UNCHANGED <<pc, cancelReq, inbox, row>>
    OBVIOUS
  <2> HIDE DEF Start
  <2> QED BY <2>1, <2>2, <2>3, <2>4, <2>5 DEF Types
<1>2. (Session(b) /\ Peer(b))'
  BY <1>s, Constants DEF Types, Session, Peer
<1>3. Counted(b)'
  <2>1. \A p \in Parties : row[b][p].boops \in Nat /\ row[b][p].boops <= session[b]
    BY DEF Rows, Counted
  <2>2. session'[b] = session[b] + 1 /\ row' = row
    BY DEF Types
  <2> QED BY <1>s, <2>1, <2>2 DEF Counted
<1> QED BY <1>1, <1>2, <1>3 DEF Local

\* A frame that is thrown away, or none that comes.
LEMMA PassStep ==
  ASSUME IInv, NEW b \in Badges, IdleDrain(b) \/ ListenTimeout(b) \/ IgnoreFrame(b)
  PROVE Types' /\ row' = row /\ Local(b)'
<1> USE DEF IInv, Set, Goto, core1, link
<1>0. inbox' \in [Badges -> Queues]
  BY TakenFacts DEF IdleDrain, ListenTimeout, IgnoreFrame, Take, Types
<1>1. Types' /\ row' = row
  BY <1>0 DEF IdleDrain, ListenTimeout, IgnoreFrame, Types
<1>2. (Session(b) /\ Peer(b))'
  BY DEF IdleDrain, ListenTimeout, IgnoreFrame, Types, Session, Peer, InExchange
<1>3. Counted(b)'
  BY <1>1 DEF IdleDrain, ListenTimeout, IgnoreFrame, Types, Counted
<1> QED BY <1>1, <1>2, <1>3 DEF Local

\* A result that was held long enough.
LEMMA ExpireStep ==
  ASSUME IInv, NEW b \in Badges, TerminalExpires(b)
  PROVE  Types' /\ row' = row /\ Local(b)'
<1> USE DEF IInv, Set, core1, link, TerminalExpires
<1>0. BlankCard \in [Tags -> Badges \cup {Nobody}]
  BY DEF BlankCard
<1>1. Types' /\ row' = row
  BY <1>0 DEF Types, Phases
<1>2. (Session(b) /\ Peer(b))'
  BY Constants DEF Types, Session, Peer
<1>3. Counted(b)'
  BY <1>1 DEF Types, Counted
<1> QED BY <1>1, <1>2, <1>3 DEF Local

\* A first boop of the session is within the session's budget.
LEMMA CountOne ==
  ASSUME IInv, NEW b \in Badges, phase[b] = "BEACONING", ~recorded[b], NEW p \in Parties
  PROVE  \A r \in Parties : Recorded(b, p)[b][r].boops <= session[b]
<1> SUFFICES ASSUME NEW r \in Parties PROVE Recorded(b, p)[b][r].boops <= session[b]
  OBVIOUS
<1>1. row[b][r].boops \in Nat /\ row[b][r].boops < session[b] /\ session[b] \in Nat
  BY DEF IInv, Counted, Rows, Types
<1>2. Recorded(b, p)[b][r].boops \in {row[b][r].boops, row[b][r].boops + 1}
  <2>1. CASE r = p BY <2>1, RecordedFacts DEF IInv
  <2>2. CASE r # p BY <2>2, RecordedFacts DEF IInv
  <2> QED BY <2>1, <2>2
<1> QED BY <1>1, <1>2

\* A beacon, with the boop it may record and the exchange or result it may lead to.
LEMMA BeaconTxStep ==
  ASSUME IInv, NEW b \in Badges, NEW heard \in Audience(b), BeaconTx(b, heard)
  PROVE  Typed' /\ Local(b)'
<1> USE DEF IInv, Set, Goto, core1, link
<1> DEFINE now == recorded[b] \/ ThresholdMet(b)
           confirming == now /\ peerDone[b]
           locked == confirming /\ confirm[b] <= 1
           f == Message(b, IF now THEN "DONE" ELSE "BEACON")
<1>2. f \in Frames
  BY MessageFacts, Constants DEF Kinds
<1>3. inbox' \in [Badges -> Queues]
  BY <1>2, BroadcastFacts DEF Types, BeaconTx, Send
<1>4. now => peer[b] \in Parties /\ peer[b] # Nobody
  <2>1. phase[b] = "BEACONING" /\ peer[b] \in Parties \cup {Nobody} /\ Peer(b)
    BY DEF BeaconTx, AtTick, Types
  <2>2. now => recorded[b] \/ rx[b] > 0
    <3>1. rx[b] \in 0 .. 1
      BY DEF Types
    <3> HIDE DEF IInv
    <3> QED BY <3>1 DEF ThresholdMet
  <2> QED BY <2>1, <2>2 DEF Peer
<1>5. row' = IF ThresholdMet(b) THEN Recorded(b, peer[b]) ELSE row
  BY DEF BeaconTx, LockOn, RecordAtThreshold
<1>6. row' \in [Badges -> [Parties -> Rows]]
  BY <1>4, <1>5, RecordedFacts
<1>7. Types'
  <2>1. phase' \in [Badges -> Phases] /\ xchg' \in [Badges -> ExchangeState]
    <3>1. (b < peer[b]) \in BOOLEAN OBVIOUS
    <3>2. FreshExchange(b < peer[b]) \in ExchangeState
      BY <3>1, ExchangeFacts
    <3>3. CASE locked /\ type[b] = "PEER"
      <4>1. /\ xchg' = [xchg EXCEPT ![b] = FreshExchange(b < peer[b])]
            /\ phase' = [phase EXCEPT ![b] = "EXCHANGE"]
        BY <3>3 DEF BeaconTx, LockOn
      <4>2. phase \in [Badges -> Phases] /\ xchg \in [Badges -> ExchangeState]
        BY DEF Types
      <4> QED BY <3>2, <4>1, <4>2 DEF Phases
    <3>4. CASE locked /\ type[b] # "PEER"
      BY <3>4 DEF BeaconTx, LockOn, Types, Phases
    <3>5. CASE ~locked
      BY <3>5 DEF BeaconTx, Types
    <3> QED BY <3>3, <3>4, <3>5
  <2>2. pc' \in [Badges -> {"tick", "listen", "drain"}]
    BY DEF BeaconTx, Types
  <2>3. tx' \in [Badges -> 0 .. 1] /\ recorded' \in [Badges -> BOOLEAN]
          /\ confirm' \in [Badges -> 0 .. 1]
    BY DEF BeaconTx, Types, Count, AtTick, Peer
  <2>4. UNCHANGED <<engaged, cancelReq, session, peer, type, rx, peerDone, card, ended>>
    BY DEF BeaconTx
  <2> QED BY <1>3, <2>1, <2>2, <2>3, <2>4 DEF Types
<1>8. Session(b)'
  BY DEF BeaconTx, AtTick, Types, Session, LockOn
<1>9. Peer(b)'
  <2>1. UNCHANGED <<peer, type, rx, peerDone>> /\ recorded'[b] = now /\ phase[b] = "BEACONING"
    BY DEF BeaconTx, AtTick, Types
  <2>2. CASE locked
    <3>1. phase'[b] \in {"EXCHANGE", "PAIRED_OK"}
      BY <2>2 DEF BeaconTx, LockOn, Types
    <3>2. phase'[b] = "EXCHANGE" => type[b] = "PEER" /\ xchg'[b] = FreshExchange(b < peer[b])
      BY <2>2 DEF BeaconTx, LockOn, Types
    <3>3. FreshExchange(b < peer[b]).primary = (b < peer[b])
      BY DEF FreshExchange
    <3> QED BY <2>1, <1>4, <2>2, <3>1, <3>2, <3>3 DEF Peer
  <2>3. CASE ~locked
    <3>1. phase'[b] = "BEACONING"
      BY <2>1, <2>3 DEF BeaconTx
    <3>2. confirm'[b] = confirm[b]
      BY <2>1, <2>3 DEF BeaconTx, Peer, Types
    <3> QED BY <2>1, <1>4, <2>3, <3>1, <3>2 DEF Peer
  <2> QED BY <2>2, <2>3
<1>10. Counted(b)'
  <2>1. /\ \A p \in Parties : row[b][p].boops \in Nat /\ row[b][p].boops <= session[b]
        /\ session[b] \in Nat /\ session' = session
    BY DEF Rows, Counted, Types, BeaconTx
  <2>2. recorded'[b] = now /\ phase[b] = "BEACONING"
    BY DEF BeaconTx, AtTick, Types
  <2>3. CASE ThresholdMet(b)
    <3>1. ~recorded[b] /\ row' = Recorded(b, peer[b]) /\ recorded'[b]
      BY <2>2, <2>3, <1>5 DEF ThresholdMet
    <3>2. peer[b] \in Parties
      BY <1>4, <2>3
    <3>3. \A r \in Parties : row'[b][r].boops <= session[b]
      BY <2>2, <3>1, <3>2, CountOne
    <3> QED BY <2>1, <3>1, <3>3 DEF Counted
  <2>4. CASE ~ThresholdMet(b)
    BY <1>5, <2>1, <2>2, <2>4 DEF Counted
  <2> QED BY <2>3, <2>4
<1> QED BY <1>6, <1>7, <1>8, <1>9, <1>10 DEF Local, Typed

\* A tick without a beacon may record the boop all the same.
LEMMA NotDueStep ==
  ASSUME IInv, NEW b \in Badges, BeaconNotDue(b)
  PROVE  Typed' /\ Local(b)'
<1> USE DEF IInv, Set, Goto, core1, link
<1> DEFINE now == recorded[b] \/ ThresholdMet(b)
<1>4. now => peer[b] \in Parties /\ peer[b] # Nobody
  <2>1. phase[b] = "BEACONING" /\ peer[b] \in Parties \cup {Nobody} /\ Peer(b)
    BY DEF BeaconNotDue, AtTick, Types
  <2>2. now => recorded[b] \/ rx[b] > 0
    <3>1. rx[b] \in 0 .. 1
      BY DEF Types
    <3> HIDE DEF IInv
    <3> QED BY <3>1 DEF ThresholdMet
  <2> QED BY <2>1, <2>2 DEF Peer
<1>5. row' = IF ThresholdMet(b) THEN Recorded(b, peer[b]) ELSE row
  BY DEF BeaconNotDue, RecordAtThreshold
<1>6. row' \in [Badges -> [Parties -> Rows]]
  BY <1>4, <1>5, RecordedFacts
<1>7. Types'
  BY DEF BeaconNotDue, Types
<1>8. Session(b)'
  BY DEF BeaconNotDue, AtTick, Types, Session
<1>9. Peer(b)'
  BY <1>4 DEF BeaconNotDue, AtTick, Types, Peer
<1>10. Counted(b)'
  <2>1. /\ \A p \in Parties : row[b][p].boops \in Nat /\ row[b][p].boops <= session[b]
        /\ session[b] \in Nat /\ session' = session
    BY DEF Rows, Counted, Types, BeaconNotDue
  <2>2. recorded'[b] = now /\ phase[b] = "BEACONING"
    BY DEF BeaconNotDue, AtTick, Types
  <2>3. CASE ThresholdMet(b)
    <3>1. ~recorded[b] /\ row' = Recorded(b, peer[b]) /\ recorded'[b]
      BY <2>2, <2>3, <1>5 DEF ThresholdMet
    <3>2. peer[b] \in Parties
      BY <1>4, <2>3
    <3>3. \A r \in Parties : row'[b][r].boops <= session[b]
      BY <2>2, <3>1, <3>2, CountOne
    <3> QED BY <2>1, <3>1, <3>3 DEF Counted
  <2>4. CASE ~ThresholdMet(b)
    <3>1. row' = row /\ (recorded'[b] <=> recorded[b]) /\ phase' = phase
      BY <2>2, <2>4, <1>5 DEF BeaconNotDue
    <3> QED BY <2>1, <2>2, <2>4, <3>1 DEF Counted
  <2> QED BY <2>3, <2>4
<1> QED BY <1>6, <1>7, <1>8, <1>9, <1>10 DEF Local, Typed

\* The peer is somebody else, and a peer of type PEER is a badge.
LEMMA UnpackFacts ==
  ASSUME IInv, NEW b \in Badges, NEW f \in FramesFor(b), UnpackPeer(b, f)
  PROVE  /\ peer' \in [Badges -> Parties \cup {Nobody}]
              /\ type' \in [Badges -> {"PEER", "OTHER"}]
         /\ card' \in [Badges -> [Tags -> Badges \cup {Nobody}]]
         /\ peer'[b] = IF rx[b] = 0 THEN f.from ELSE peer[b]
         /\ peer'[b] \in Parties \ {b, Nobody}
         /\ type'[b] = "PEER" => peer'[b] \in Badges
<1> USE DEF IInv, Set
<1>1. f.from \in Parties \ {b, Nobody}
  BY Constants DEF FramesFor, Frames
<1>2. CASE rx[b] = 0
  <2>1. BlankCard \in [Tags -> Badges \cup {Nobody}]
    BY DEF BlankCard
  <2>2. /\ peer' = [peer EXCEPT ![b] = f.from] /\ type' = [type EXCEPT ![b] = TypeByte(f)]
        /\ card' = [card EXCEPT ![b] = BlankCard]
    BY <1>2 DEF UnpackPeer
  <2>3. TypeByte(f) \in {"PEER", "OTHER"} /\ (TypeByte(f) = "PEER" => f.from \in Badges)
    BY DEF TypeByte
  <2> QED BY <1>1, <1>2, <2>1, <2>2, <2>3 DEF Types
<1>3. CASE rx[b] # 0
  <2>1. rx[b] > 0 /\ peer[b] \in Parties \cup {Nobody}
    BY <1>3 DEF Types
  <2> QED BY <1>3, <2>1 DEF UnpackPeer, Types, Peer
<1> QED BY <1>2, <1>3

\* The frame that is read was meant for b.
LEMMA HeadFacts ==
  ASSUME IInv, NEW b \in Badges, inbox[b] # <<>>
  PROVE  Head(inbox[b]) \in FramesFor(b) /\ Taken(b) \in [Badges -> Queues]
  BY TakenFacts DEF IInv, Types

\* A beacon that is heard.
LEMMA HearBeaconStep ==
  ASSUME IInv, NEW b \in Badges, HearBeacon(b)
  PROVE  Types' /\ row' = row /\ Local(b)'
<1> USE DEF IInv, Set, Goto, core1, link
<1> DEFINE f == Head(inbox[b])
<1>1. f \in FramesFor(b) /\ inbox' \in [Badges -> Queues]
  BY HeadFacts DEF HearBeacon, Take
<1>2. /\ peer' \in [Badges -> Parties \cup {Nobody}]
           /\ type' \in [Badges -> {"PEER", "OTHER"}]
      /\ card' \in [Badges -> [Tags -> Badges \cup {Nobody}]]
      /\ peer'[b] \in Parties \ {b, Nobody}
      /\ type'[b] = "PEER" => peer'[b] \in Badges
  BY <1>1, UnpackFacts DEF HearBeacon
<1>3. Types' /\ row' = row
  <2>1. /\ rx' \in [Badges -> 0 .. 1] /\ peerDone' \in [Badges -> BOOLEAN]
        /\ confirm' \in [Badges -> 0 .. 1] /\ pc' \in [Badges -> {"tick", "listen", "drain"}]
    BY DEF HearBeacon, Count, Types, ConfirmTx
  <2>2. UNCHANGED <<phase, engaged, cancelReq, session, tx, recorded, xchg, row, ended>>
    BY DEF HearBeacon
  <2> QED BY <1>1, <1>2, <2>1, <2>2 DEF Types
<1>4. Session(b)'
  BY DEF HearBeacon, Types, Session
<1>5. Peer(b)'
  <2>1. phase[b] = "BEACONING" /\ phase' = phase /\ recorded' = recorded
    BY DEF HearBeacon, Session
  <2>2. peerDone'[b] => confirm'[b] = 1
    <3>1. CASE f.kind = "DONE" /\ ~peerDone[b]
      BY <3>1 DEF HearBeacon, Types, ConfirmTx
    <3>2. CASE ~(f.kind = "DONE" /\ ~peerDone[b])
      BY <3>2, <2>1 DEF HearBeacon, Types, Peer
    <3> QED BY <3>1, <3>2
  <2> QED BY <1>2, <2>1, <2>2 DEF Peer
<1>6. Counted(b)'
  <2>1. UNCHANGED <<phase, recorded, session, row>>
    BY DEF HearBeacon
  <2> QED BY <2>1 DEF Counted
<1> QED BY <1>3, <1>4, <1>5, <1>6 DEF Local

\* A frame of an exchange that pulls b in records the boop at most once.
LEMMA HearExchangeStep ==
  ASSUME IInv, NEW b \in Badges, HearExchangeFrame(b)
  PROVE  Typed' /\ Local(b)'
<1> USE DEF IInv, Set, Goto, core1, link
<1> DEFINE f == Head(inbox[b])
           p == IF rx[b] = 0 THEN f.from ELSE peer[b]
<1>1. f \in FramesFor(b) /\ inbox' \in [Badges -> Queues]
  BY HeadFacts DEF HearExchangeFrame, Take
<1>2. /\ peer' \in [Badges -> Parties \cup {Nobody}]
           /\ type' \in [Badges -> {"PEER", "OTHER"}]
      /\ card' \in [Badges -> [Tags -> Badges \cup {Nobody}]]
      /\ peer'[b] \in Parties \ {b, Nobody} /\ peer'[b] = p
      /\ type'[b] = "PEER" => peer'[b] \in Badges
  BY <1>1, UnpackFacts DEF HearExchangeFrame
<1>3. row' = IF recorded[b] THEN row ELSE Recorded(b, p)
  BY DEF HearExchangeFrame
<1>4. row' \in [Badges -> [Parties -> Rows]]
  BY <1>2, <1>3, RecordedFacts
<1>5. Types'
  <2>1. /\ rx' \in [Badges -> 0 .. 1] /\ peerDone' \in [Badges -> BOOLEAN]
             /\ recorded' \in [Badges -> BOOLEAN]
        /\ confirm' \in [Badges -> 0 .. 1] /\ pc' \in [Badges -> {"tick", "listen", "drain"}]
    BY DEF HearExchangeFrame, Count, Types
  <2>2. UNCHANGED <<phase, engaged, cancelReq, session, tx, xchg, ended>>
    BY DEF HearExchangeFrame
  <2> QED BY <1>1, <1>2, <2>1, <2>2 DEF Types
<1>6. Session(b)'
  BY DEF HearExchangeFrame, Types, Session
<1>7. phase[b] = "BEACONING" /\ phase' = phase /\ recorded'[b] /\ confirm'[b] = 1
        /\ session' = session
  BY DEF HearExchangeFrame, Session, Types
<1>8. Peer(b)'
  BY <1>2, <1>7 DEF Peer
<1>9. Counted(b)'
  <2>1. \A r \in Parties : row'[b][r].boops <= session[b]
    <3>1. CASE recorded[b]
      BY <3>1, <1>3 DEF Counted
    <3>2. CASE ~recorded[b]
      BY <3>2, <1>2, <1>3, <1>7, CountOne
    <3> QED BY <3>1, <3>2
  <2> QED BY <2>1, <1>7 DEF Counted
<1> QED BY <1>4, <1>5, <1>6, <1>8, <1>9 DEF Local, Typed

-----------------------------------------------------------------------------
(* The end of an exchange. *)

\* finishPaired counts no boop that the session has not counted.
LEMMA FinishFacts ==
  ASSUME IInv, NEW b \in Badges, NEW y, phase[b] = "EXCHANGE", FinishPaired(b, y)
  PROVE  /\ phase' \in [Badges -> Phases]
         /\ phase'[b] = IF recorded[b] THEN "PAIRED_OK" ELSE "FAILED"
         /\ row' = row \/ row' = Merged(b, peer[b])
         /\ row' \in [Badges -> [Parties -> Rows]]
         /\ \A p \in Parties : row'[b][p].boops <= session[b]
<1> USE DEF IInv, Set
<1>1. peer[b] \in Parties
  BY Constants DEF Peer
<1>2. row' = row \/ row' = Merged(b, peer[b])
  BY DEF FinishPaired
<1>3. row' \in [Badges -> [Parties -> Rows]]
  BY <1>1, <1>2, MergedFacts DEF Types
<1>4. ASSUME NEW p \in Parties
      PROVE  row'[b][p].boops <= session[b]
  <2>1. row[b][p].boops \in Nat /\ row[b][p].boops <= session[b] /\ session[b] \in Nat
          /\ session[b] > 0
    BY DEF Counted, Rows, Session, Types
  <2>2. row'[b][p].boops \in {row[b][p].boops, 1}
    <3>1. CASE p = peer[b]
      BY <3>1, <1>1, <1>2, MergedFacts DEF Types
    <3>2. CASE p # peer[b]
      BY <3>2, <1>1, <1>2, MergedFacts DEF Types
    <3> QED BY <3>1, <3>2
  <2> QED BY <2>1, <2>2
<1>5. /\ phase' \in [Badges -> Phases]
      /\ phase'[b] = IF recorded[b] THEN "PAIRED_OK" ELSE "FAILED"
  BY DEF FinishPaired, Types, Phases
<1> QED BY <1>2, <1>3, <1>4, <1>5

\* The hard limit of the exchange.
LEMMA TimeoutStep ==
  ASSUME IInv, NEW b \in Badges, ExchangeTimeout(b)
  PROVE  Typed' /\ Local(b)'
<1> USE DEF Set, Goto, core1, link
<1>1. /\ phase' \in [Badges -> Phases] /\ phase'[b] \in {"PAIRED_OK", "FAILED"}
      /\ row' \in [Badges -> [Parties -> Rows]]
      /\ \A p \in Parties : row'[b][p].boops <= session[b]
  BY FinishFacts DEF ExchangeTimeout, AtTick
<1>2. Types'
  BY <1>1 DEF ExchangeTimeout, Types, IInv
<1>3. Session(b)' /\ Peer(b)' /\ Counted(b)'
  <2>1. UNCHANGED <<pc, core1, link, xchg>> /\ pc[b] = "tick" /\ phase[b] = "EXCHANGE"
    BY DEF ExchangeTimeout, AtTick
  <2> QED BY <1>1, <2>1 DEF IInv, Session, Peer, Counted
<1> QED BY <1>1, <1>2, <1>3 DEF Local, Typed

\* A FIELD or a FIN that is handled in the exchange.
LEMMA HandleStep ==
  ASSUME IInv, NEW b \in Badges, NEW heard \in Audience(b),
         HandleField(b, heard) \/ HandleFin(b, heard)
  PROVE  Types' /\ row' = row /\ Local(b)'
<1> USE DEF IInv, Set, Goto, core1, link
<1> DEFINE f == Head(inbox[b])
<1>1. f \in FramesFor(b) /\ Taken(b) \in [Badges -> Queues] /\ b \in Parties
        /\ phase[b] = "EXCHANGE"
  BY HeadFacts, Constants DEF HandleField, HandleFin, InExchange
<1>2. CASE HandleField(b, heard)
  <2>1. f.tag \in Tags /\ f.from \in Badges
    BY <1>1, <1>2 DEF HandleField, FramesFor
  <2>2. /\ inbox' \in [Badges -> Queues]
    BY <1>1, <1>2, <2>1, FieldOfFacts, BroadcastFacts DEF HandleField
  <2>3. /\ xchg' \in [Badges -> ExchangeState] /\ xchg'[b].primary = xchg[b].primary
    <3>1. xchg' = [xchg EXCEPT ![b] = AfterField(xchg[b], f.tag)] /\ xchg[b] \in ExchangeState
      BY <1>2 DEF HandleField, Types
    <3>2. AfterField(xchg[b], f.tag) \in ExchangeState
            /\ AfterField(xchg[b], f.tag).primary = xchg[b].primary
      BY <2>1, <3>1, ExchangeFacts
    <3> QED BY <3>1, <3>2 DEF Types
  <2>4. card' \in [Badges -> [Tags -> Badges \cup {Nobody}]]
    BY <1>2, <2>1 DEF HandleField, Types
  <2>5. pc' \in [Badges -> {"tick", "listen", "drain"}] /\ pc'[b] = "drain"
        /\ UNCHANGED <<phase, core1, link, row, ended>>
    BY <1>2 DEF HandleField, Types
  <2> HIDE DEF f
  <2>6. Types'
    BY <2>2, <2>3, <2>4, <2>5 DEF Types
  <2> QED BY <1>1, <2>3, <2>5, <2>6 DEF Local, Session, Peer, Counted
<1>3. CASE HandleFin(b, heard)
  <2>2. /\ inbox' \in [Badges -> Queues]
    BY <1>1, <1>3, MessageFacts, BroadcastFacts DEF HandleFin, Kinds
  <2>3. /\ xchg' \in [Badges -> ExchangeState] /\ xchg'[b].primary = xchg[b].primary
    BY <1>3, ExchangeFacts DEF HandleFin, Types
  <2>5. pc' \in [Badges -> {"tick", "listen", "drain"}] /\ pc'[b] = "drain"
        /\ UNCHANGED <<phase, core1, link, card, row, ended>>
    BY <1>3 DEF HandleFin, Types
  <2> HIDE DEF f
  <2>6. Types'
    BY <2>2, <2>3, <2>5 DEF Types
  <2> QED BY <1>1, <2>3, <2>5, <2>6 DEF Local, Session, Peer, Counted
<1> QED BY <1>2, <1>3

\* The end of a tick: everything that Become says, of the exchange state it leaves.
Ends(b) ==
  /\ phase[b] = "EXCHANGE" /\ inbox' \in [Badges -> Queues]
  /\ xchg' \in [Badges -> ExchangeState]
  /\ xchg'[b].primary = xchg[b].primary /\ xchg'[b].finSeen = xchg[b].finSeen
  /\ pc' \in [Badges -> {"tick", "listen", "drain"}] /\ pc'[b] = "tick"
  /\ IF Completed(xchg'[b]) THEN FinishPaired(b, xchg'[b]) /\ Set(ended, b, "done")
                            ELSE UNCHANGED <<phase, row, ended>>
  /\ UNCHANGED <<core1, link, card>>

\* Become, for an exchange state that keeps the role.
LEMMA BecomeFacts ==
  ASSUME IInv, NEW b \in Badges, NEW y \in ExchangeState, Become(b, y),
         phase[b] = "EXCHANGE", inbox' \in [Badges -> Queues],
         y.primary = xchg[b].primary, y.finSeen = xchg[b].finSeen
  PROVE  Ends(b)
<1>1. xchg' \in [Badges -> ExchangeState] /\ xchg'[b] = y
  BY DEF Become, Set, IInv, Types
<1>2. pc' \in [Badges -> {"tick", "listen", "drain"}] /\ pc'[b] = "tick"
  BY DEF Become, Goto, Set, IInv, Types
<1> QED BY <1>1, <1>2 DEF Become, Ends

\* Every way to end an exchange tick says so much.
LEMMA EndTickFacts ==
  ASSUME IInv, NEW b \in Badges, NEW heard \in Audience(b), EndTick(b, heard)
  PROVE  Ends(b)
<1>1. phase[b] = "EXCHANGE" /\ xchg[b] \in ExchangeState /\ inbox \in [Badges -> Queues]
        /\ b \in Parties
  BY Constants DEF IInv, EndTick, Advance, Skip, Complete, Wait, SendField, SendFin,
     Drained, InExchange, Types
<1>2. CASE Advance(b) \/ Skip(b)
  <2>1. PICK y \in ExchangeState : y = Advanced(xchg[b])
    BY <1>1, <1>2, ExchangeFacts DEF Advance, Skip, CanAdvance, CanSkip
  <2>2. Become(b, y) /\ inbox' = inbox
    BY <1>2, <2>1 DEF Advance, Skip, Become, Set, Goto, FinishPaired, Swapped, Completed
  <2>3. y.primary = xchg[b].primary /\ y.finSeen = xchg[b].finSeen
    BY <1>1, <1>2, <2>1, ExchangeFacts DEF Advance, Skip, CanAdvance, CanSkip
  <2> QED BY <1>1, <2>2, <2>3, BecomeFacts
<1>3. CASE Complete(b) \/ Wait(b)
  <2>1. PICK y \in ExchangeState : y = xchg[b]
    BY <1>1
  <2>2. Become(b, y) /\ inbox' = inbox
    BY <1>3, <2>1 DEF Complete, Wait, Become, Set, Goto, FinishPaired, Swapped, Completed
  <2> QED BY <1>1, <2>1, <2>2, BecomeFacts
<1>4. CASE SendField(b, heard)
  <2>1. xchg[b].cursor \in Tags
    BY <1>1, <1>4, RoundsAssumption DEF SendField, CanSendField, Walking, ExchangeState, Tags
  <2>2. PICK y \in ExchangeState : y = AfterSendField(xchg[b])
    BY <1>1, ExchangeFacts
  <2>3. y.primary = xchg[b].primary /\ y.finSeen = xchg[b].finSeen
    BY <1>1, <2>2, ExchangeFacts
  <2>4. Become(b, y)
    BY <1>4, <2>2 DEF SendField, Become, Set, Goto, FinishPaired, Swapped, Completed
  <2>5. inbox' \in [Badges -> Queues]
    BY <1>1, <1>4, <2>1, FieldOfFacts, BroadcastFacts DEF SendField, Send
  <2> QED BY <1>1, <2>3, <2>4, <2>5, BecomeFacts
<1>5. CASE SendFin(b, heard)
  <2>2. PICK y \in ExchangeState : y = AfterSendDone(xchg[b])
    BY <1>1, ExchangeFacts
  <2>3. y.primary = xchg[b].primary /\ y.finSeen = xchg[b].finSeen
    BY <1>1, <2>2, ExchangeFacts
  <2>4. Become(b, y)
    BY <1>5, <2>2 DEF SendFin, Become, Set, Goto, FinishPaired, Swapped, Completed
  <2>5. inbox' \in [Badges -> Queues]
    BY <1>1, <1>5, MessageFacts, BroadcastFacts DEF SendFin, Send, Kinds
  <2> QED BY <1>1, <2>3, <2>4, <2>5, BecomeFacts
<1> QED BY <1>2, <1>3, <1>4, <1>5 DEF EndTick

\* The end of an exchange tick.
LEMMA EndTickStep ==
  ASSUME IInv, NEW b \in Badges, NEW heard \in Audience(b), EndTick(b, heard)
  PROVE  Typed' /\ Local(b)'
<1> USE DEF Set, core1, link
<1>1. Ends(b)
  BY EndTickFacts
<1>4. CASE Completed(xchg'[b])
  <2>0. PICK y \in ExchangeState : y = xchg'[b]
    BY <1>1 DEF Ends
  <2>1. FinishPaired(b, y) /\ phase[b] = "EXCHANGE" /\ Set(ended, b, "done")
    BY <1>1, <1>4, <2>0 DEF Ends
  <2>2. /\ phase' \in [Badges -> Phases] /\ phase'[b] \in {"PAIRED_OK", "FAILED"}
        /\ row' \in [Badges -> [Parties -> Rows]]
        /\ \A p \in Parties : row'[b][p].boops <= session[b]
        /\ ended' \in [Badges -> {"none", "done", "left"}]
    BY <2>1, FinishFacts DEF IInv, Types
  <2> QED BY <1>1, <2>2 DEF Ends, IInv, Types, Typed, Local, Session, Peer, Counted
<1>5. CASE ~Completed(xchg'[b])
  <2>1. UNCHANGED <<phase, row, ended>>
    BY <1>1, <1>5 DEF Ends
  <2> QED BY <1>1, <2>1 DEF Ends, IInv, Types, Typed, Local, Session, Peer, Counted
<1> QED BY <1>4, <1>5

-----------------------------------------------------------------------------
(* The air, the invariant, and what follows from it at once. *)

\* The frames that b puts on the air: exchange frames only in an exchange, and beacons
\* only in BEACONING.
Sent(b) ==
  {f \in Frames : /\ f.from = b
                  /\ f.kind \in {"FIELD", "FIN"} => b \in Badges /\ phase[b] = "EXCHANGE"
                  /\ f.kind \in {"BEACON", "DONE"} /\ b \in Badges => phase[b] = "BEACONING"
                  /\ f.kind = "FIELD" => f.tag \in Tags}

\* b transmits f, in an exchange perhaps in answer to the frame it has just taken.
Airing(b, f, heard) ==
  \/ inbox' = Broadcast(inbox, f, heard)
  \/ /\ phase[b] = "EXCHANGE" /\ inbox[b] # <<>>
     /\ inbox' = Broadcast(Taken(b), f, heard)

\* One of its frames is sent; with a DONE goes a row that is written.
Airs(b) == \E f \in Sent(b) : \E heard \in Audience(b) :
             Airing(b, f, heard) /\ (f.kind = "DONE" => recorded'[b])

\* All that a step of b can do to the queues.
LEMMA InboxCases ==
  ASSUME IInv, NEW b \in Badges, Step(b)
  PROVE  \/ inbox' = inbox
         \/ inbox[b] # <<>> /\ inbox' = Taken(b)
         \/ inbox' = [inbox EXCEPT ![b] = <<>>]
         \/ Airs(b)
<1>0. b \in Parties
  BY Constants
<1>2. CASE User(b)
  BY <1>2 DEF User, PressBoop, PressCancel, PressAgain, LeaveScreen, Set
<1>3. CASE Quiet(b)
  BY <1>3 DEF Quiet, HandleCancel, Start, IdleDrain, TerminalExpires, BeaconNotDue,
     ListenTimeout, HearBeacon, HearExchangeFrame, IgnoreFrame, Take
<1>4. CASE ExchangeTimeout(b)
  BY <1>4 DEF ExchangeTimeout
<1>5. ASSUME NEW heard \in Audience(b), BeaconTx(b, heard)
      PROVE  Airs(b)
  <2> DEFINE now == recorded[b] \/ ThresholdMet(b)
  <2>1. PICK kind \in {"BEACON", "DONE"} :
          /\ kind = IF now THEN "DONE" ELSE "BEACON"
          /\ Send(b, Message(b, kind), heard)
    BY <1>5 DEF BeaconTx
  <2>2. phase[b] = "BEACONING" /\ recorded'[b] = now
    BY <1>5 DEF BeaconTx, AtTick, Set, IInv, Types
  <2>3. Message(b, kind) \in Sent(b) /\ Message(b, kind).kind = kind
    BY <1>0, <2>2, MessageFacts DEF Sent, Kinds
  <2> QED BY <2>1, <2>2, <2>3 DEF Airs, Airing, Send
<1>6. ASSUME NEW heard \in Audience(b), phase[b] = "EXCHANGE",
             NEW f, f = Message(b, "FIN") \/ (\E i \in Tags : f = FieldOf(b, i)),
             Airing(b, f, heard)
      PROVE  Airs(b)
  <2>1. f \in Sent(b) /\ f.kind # "DONE"
    BY <1>0, <1>6, MessageFacts, FieldOfFacts DEF Sent, Kinds
  <2> QED BY <1>6, <2>1 DEF Airs
<1>7. ASSUME NEW heard \in Audience(b), HandleField(b, heard)
      PROVE  (inbox[b] # <<>> /\ inbox' = Taken(b)) \/ Airs(b)
  <2>1. phase[b] = "EXCHANGE" /\ inbox[b] # <<>> /\ Head(inbox[b]).tag \in Tags
    BY <1>7, HeadFacts DEF HandleField, InExchange, FramesFor
  <2>2. \/ inbox' = Taken(b)
        \/ inbox' = Broadcast(Taken(b), FieldOf(b, Head(inbox[b]).tag), heard)
    BY <1>7 DEF HandleField
  <2> QED BY <1>6, <2>1, <2>2 DEF Airing
<1>8. ASSUME NEW heard \in Audience(b), HandleFin(b, heard)
      PROVE  (inbox[b] # <<>> /\ inbox' = Taken(b)) \/ Airs(b)
  <2>1. phase[b] = "EXCHANGE" /\ inbox[b] # <<>>
    BY <1>8 DEF HandleFin, InExchange
  <2>2. inbox' = Taken(b) \/ inbox' = Broadcast(Taken(b), Message(b, "FIN"), heard)
    BY <1>8 DEF HandleFin
  <2> QED BY <1>6, <2>1, <2>2 DEF Airing
<1>9. ASSUME NEW heard \in Audience(b), EndTick(b, heard)
      PROVE  inbox' = inbox \/ Airs(b)
  <2>1. phase[b] = "EXCHANGE" /\ xchg[b] \in ExchangeState
    BY <1>9, EndTickFacts DEF Ends, IInv, Types
  <2>2. CASE SendField(b, heard)
    <3>1. xchg[b].cursor \in Tags
      BY <2>1, <2>2, RoundsAssumption DEF SendField, CanSendField, Walking, ExchangeState, Tags
    <3>2. inbox' = Broadcast(inbox, FieldOf(b, xchg[b].cursor), heard)
      BY <2>2 DEF SendField, Send
    <3> QED BY <1>6, <2>1, <3>1, <3>2 DEF Airing
  <2>3. CASE SendFin(b, heard)
    <3>1. inbox' = Broadcast(inbox, Message(b, "FIN"), heard)
      BY <2>3 DEF SendFin, Send
    <3> QED BY <1>6, <2>1, <3>1 DEF Airing
  <2>4. CASE Advance(b) \/ Skip(b) \/ Complete(b) \/ Wait(b)
    BY <2>4 DEF Advance, Skip, Complete, Wait
  <2> QED BY <1>9, <2>2, <2>3, <2>4 DEF EndTick
<1> QED BY <1>2, <1>3, <1>4, <1>5, <1>7, <1>8, <1>9 DEF Step, Loud

\* What the queues of the others gain is of b's frames.
LEMMA InboxStep ==
  ASSUME IInv, NEW b \in Badges, Step(b)
  PROVE  \A c \in Badges : Held(inbox'[c]) \subseteq
           Held(inbox[c]) \cup (IF c = b THEN {} ELSE Sent(b))
<1> SUFFICES ASSUME NEW c \in Badges
             PROVE  Held(inbox'[c]) \subseteq
                      Held(inbox[c]) \cup (IF c = b THEN {} ELSE Sent(b))
  OBVIOUS
<1>0. inbox \in [Badges -> Queues] /\ Held(<<>>) = {}
  BY DEF IInv, Types, Held
<1>1. inbox[b] # <<>> => /\ Taken(b) \in [Badges -> Queues]
                        /\ Held(Taken(b)[c]) \subseteq Held(inbox[c])
  BY <1>0, TakenFacts
<1>2. ASSUME Airs(b)
      PROVE  Held(inbox'[c]) \subseteq Held(inbox[c]) \cup (IF c = b THEN {} ELSE Sent(b))
  <2>1. PICK f \in Sent(b), heard \in Audience(b) : Airing(b, f, heard)
    BY <1>2 DEF Airs
  <2>2. f \in Frames /\ b \notin heard
    BY DEF Sent, Audience
  <2>3. ASSUME NEW queues \in [Badges -> Queues], Held(queues[c]) \subseteq Held(inbox[c])
        PROVE  Held(Broadcast(queues, f, heard)[c]) \subseteq
                 Held(inbox[c]) \cup (IF c = b THEN {} ELSE Sent(b))
    <3>1. Held(Broadcast(queues, f, heard)[c]) \subseteq
            Held(queues[c]) \cup (IF c \in heard THEN {f} ELSE {})
      BY <2>2, BroadcastFacts
    <3> QED BY <2>2, <2>3, <3>1
  <2> QED BY <1>0, <1>1, <2>1, <2>3 DEF Airing
<1> QED BY <1>0, <1>1, <1>2, InboxCases

\* An installation changes the queues only.
LEMMA KioskStep ==
  ASSUME IInv, NEW k \in Kiosks, NEW heard \in SUBSET Badges, KioskSends(k, heard)
  PROVE  /\ Types' /\ row' = row /\ \A c \in Badges : Own(c)' = Own(c)
         /\ \A c \in Badges : Held(inbox'[c]) \subseteq Held(inbox[c]) \cup Sent(k)
<1> PICK kind \in {"BEACON", "DONE"} : Send(k, Message(k, kind), heard)
  BY DEF KioskSends
<1>1. Message(k, kind) \in Frames /\ Message(k, kind) \in Sent(k)
  BY MessageFacts, Constants DEF Kinds, Sent
<1>2. /\ inbox' \in [Badges -> Queues]
      /\ \A c \in Badges : Held(inbox'[c]) \subseteq Held(inbox[c]) \cup Sent(k)
  <2>1. inbox \in [Badges -> Queues] /\ inbox' = Broadcast(inbox, Message(k, kind), heard)
    BY DEF Send, IInv, Types
  <2>2. \A c \in Badges : Held(inbox'[c]) \subseteq
           Held(inbox[c]) \cup (IF c \in heard THEN {Message(k, kind)} ELSE {})
    BY <1>1, <2>1, BroadcastFacts
  <2>3. inbox' \in [Badges -> Queues]
    BY <1>1, <2>1, BroadcastFacts
  <2> QED BY <1>1, <2>2, <2>3
<1>3. UNCHANGED <<phase, pc, core1, link, xchg, card, row, ended>>
  BY DEF KioskSends
<1> QED BY <1>2, <1>3 DEF IInv, Types, Own, core1, link

\* What one badge sends, another may hold.
LEMMA SentIsForOthers ==
  ASSUME NEW c \in Badges, NEW b \in Parties, b # c
  PROVE  Sent(b) \subseteq FramesFor(c)
  BY DEF Sent, FramesFor

\* Every step of b keeps what is said of b.
LEMMA OwnStep ==
  ASSUME IInv, NEW b \in Badges, Step(b)
  PROVE  Typed' /\ Local(b)'
<1>1. CASE \E heard \in Audience(b) : Loud(b, heard) \/ EndTick(b, heard)
  BY <1>1, BeaconTxStep, HandleStep, EndTickStep DEF Loud, Typed, IInv
<1>2. CASE User(b) \/ Quiet(b) \/ ExchangeTimeout(b)
  BY <1>2, UserStep, CancelStep, StartStep, PassStep, ExpireStep, NotDueStep, HearBeaconStep,
     HearExchangeStep, TimeoutStep DEF Quiet, Typed, IInv
<1> QED BY <1>1, <1>2 DEF Step

\* A step of the room is one of a badge or of an installation.
LEMMA NextIsStep ==
  Next <=> \/ \E b \in Badges : Step(b)
           \/ \E k \in Kiosks : \E heard \in SUBSET Badges : KioskSends(k, heard)
  BY DEF Next, Step

\* What is said of a badge is kept by steps that leave the badge alone.
LEMMA LocalStays ==
  ASSUME NEW c, Local(c), Own(c)' = Own(c)
  PROVE  Local(c)'
  BY DEF Local, Own, Session, Peer, Counted

\* The invariant holds at boot.
LEMMA InitInv == Init => IInv
<1> SUFFICES ASSUME Init PROVE IInv OBVIOUS
<1>1. Types
  <2>1. FreshExchange(FALSE) \in ExchangeState
    BY ExchangeFacts
  <2>2. BlankCard \in [Tags -> Badges \cup {Nobody}] /\ <<>> \in Queues
    BY BoundsAssumption DEF BlankCard, Queues
  <2>3. inbox \in [Badges -> Queues] /\ xchg \in [Badges -> ExchangeState]
        /\ card \in [Badges -> [Tags -> Badges \cup {Nobody}]]
    BY <2>1, <2>2 DEF Init
  <2>4. session \in [Badges -> 0 .. MaxSessions] /\ confirm \in [Badges -> 0 .. 1]
        /\ rx \in [Badges -> 0 .. 1] /\ tx \in [Badges -> 0 .. 1]
    BY Constants DEF Init
  <2> QED BY <2>3, <2>4 DEF Init, Types, Phases
<1>2. row \in [Badges -> [Parties -> Rows]]
  BY DEF Init, EmptyRow, BlankCard, Rows
<1>3. ASSUME NEW b \in Badges PROVE Session(b) /\ Peer(b) /\ Counted(b) /\ Held(inbox[b]) = {}
  BY Constants DEF Init, Session, Peer, Counted, EmptyRow, Held
<1> QED BY <1>1, <1>2, <1>3 DEF IInv

\* And every step keeps it.
LEMMA StepInv == IInv /\ [Next]_vars => IInv'
<1> SUFFICES ASSUME IInv, [Next]_vars PROVE IInv' OBVIOUS
<1>1. ASSUME NEW b \in Badges, Step(b) PROVE IInv'
  <2>1. Typed' /\ Local(b)'
    BY <1>1, OwnStep
  <2>2. \A c \in Badges : Local(c)'
    <3> SUFFICES ASSUME NEW c \in Badges, c # b PROVE Local(c)'
      BY <2>1
    <3>1. Own(c)' = Own(c)
      BY <1>1, OthersStay DEF IInv, Typed
    <3> QED BY <3>1, LocalStays DEF IInv, Local
  <2>3. \A c \in Badges : Held(inbox'[c]) \subseteq FramesFor(c)
    BY <1>1, InboxStep, SentIsForOthers, Constants DEF IInv
  <2> QED BY <2>1, <2>2, <2>3 DEF IInv, Typed, Local, FramesFor
<1>2. ASSUME NEW k \in Kiosks, NEW heard \in SUBSET Badges, KioskSends(k, heard) PROVE IInv'
  <2>1. /\ Types' /\ row' = row /\ \A c \in Badges : Own(c)' = Own(c)
        /\ \A c \in Badges : Held(inbox'[c]) \subseteq Held(inbox[c]) \cup Sent(k)
    BY <1>2, KioskStep
  <2>2. \A c \in Badges : Local(c)'
    BY <2>1, LocalStays DEF IInv, Local
  <2>3. \A c \in Badges : Held(inbox'[c]) \subseteq FramesFor(c)
    BY <2>1, SentIsForOthers, Constants DEF IInv
  <2> QED BY <2>1, <2>2, <2>3 DEF IInv, Local, FramesFor
<1>3. CASE UNCHANGED vars
  BY <1>3 DEF vars, core1, link, IInv, Types, Session, Peer, Counted, FramesFor
<1> QED BY <1>1, <1>2, <1>3, NextIsStep

\* The inductive invariant: what is written above of sessions, peers, counts and
\* frames holds in every room, with any badges, installations and losses.
THEOREM InvHolds == Spec => []IInv
  BY InitInv, StepInv, PTL DEF Spec

\* TypeOK: the queues stay within their depth, and no row counts more boops than
\* sessions were started.
THEOREM TypeCorrect == Spec => []TypeOK
<1>1. IInv => TypeOK
  <2> SUFFICES ASSUME IInv PROVE TypeOK OBVIOUS
  <2>1. row \in [Badges -> [Parties -> [boops : 0 .. MaxSessions,
                                         fields : [Tags -> Badges \cup {Nobody}]]]]
    <3>1. ASSUME NEW b \in Badges, NEW p \in Parties
          PROVE row[b][p] \in [boops : 0 .. MaxSessions,
                                fields : [Tags -> Badges \cup {Nobody}]]
      <4>1. row[b][p].boops \in 0 .. MaxSessions
        BY Constants DEF IInv, Counted, Types, Rows
      <4> QED BY <4>1 DEF IInv, Rows
    <3> QED BY <3>1 DEF IInv
  <2>2. inbox \in [Badges -> Seq(Frames)] /\ \A b \in Badges : Len(inbox[b]) <= QueueDepth
    BY DEF IInv, Types, Queues
  <2> QED BY <2>1, <2>2 DEF IInv, Types, TypeOK, ConfirmTx
<1> QED BY <1>1, InvHolds, PTL

\* OneLeader: only badges swap fields, and of two badges in an exchange with each
\* other exactly one leads (handleBeaconing's comparison of the UIDs).
THEOREM Leads == Spec => []OneLeader
<1>1. IInv => OneLeader
  <2> SUFFICES ASSUME IInv, NEW b \in Badges, phase[b] = "EXCHANGE"
      PROVE  /\ peer[b] \in Badges \ {b}
             /\ phase[peer[b]] = "EXCHANGE" /\ peer[peer[b]] = b =>
                  xchg[b].primary # xchg[peer[b]].primary
    BY DEF OneLeader
  <2>1. peer[b] \in Badges \ {b} /\ xchg[b].primary = (b < peer[b])
    BY DEF IInv, Peer
  <2>2. ASSUME phase[peer[b]] = "EXCHANGE", peer[peer[b]] = b
        PROVE xchg[b].primary # xchg[peer[b]].primary
    <3>1. xchg[peer[b]].primary = (peer[b] < b)
      BY <2>1, <2>2 DEF IInv, Peer
    <3>2. b \in Nat /\ peer[b] \in Nat
      BY <2>1, Constants
    <3> QED BY <2>1, <3>1, <3>2
  <2> QED BY <2>1, <2>2
<1> QED BY <1>1, InvHolds, PTL

-----------------------------------------------------------------------------
(* One boop per session. *)

\* The boops that Boops counts, as a set.
Ticks(b) == {n \in Parties \X (1 .. MaxSessions) : n[2] <= row[b][n[1]].boops}

\* The boops of a badge are finitely many.
LEMMA BoopsFinite ==
  ASSUME NEW b
  PROVE  IsFiniteSet(Ticks(b)) /\ Cardinality(Ticks(b)) = Boops(b) /\ Boops(b) \in Nat
<1>1. IsFiniteSet(Parties) /\ IsFiniteSet(1 .. MaxSessions)
  BY Constants, FS_Interval
<1>2. IsFiniteSet(Parties \X (1 .. MaxSessions))
  BY <1>1, FS_Product
<1>3. Ticks(b) \in SUBSET (Parties \X (1 .. MaxSessions))
  BY DEF Ticks
<1> QED BY <1>2, <1>3, FS_Subset, FS_CardinalityType DEF Boops, Ticks

\* Rows that count the same count the same in all.
LEMMA SameBoops ==
  ASSUME NEW b, \A p \in Parties : row'[b][p].boops = row[b][p].boops
  PROVE  Boops(b)' = Boops(b)
<1>1. Ticks(b)' = Ticks(b)
  BY DEF Ticks
<1> QED BY <1>1 DEF Boops, Ticks

\* recordBoop adds one to the boops of its badge.
LEMMA OneMoreBoop ==
  ASSUME IInv, NEW b \in Badges, NEW p \in Parties, row[b][p].boops < MaxSessions,
         row' = Recorded(b, p)
  PROVE  Boops(b)' = Boops(b) + 1
<1> DEFINE k == row[b][p].boops
<1>1. k \in Nat /\ k + 1 \in 1 .. MaxSessions
  BY Constants DEF IInv, Rows
<1>2. \A r \in Parties : row'[b][r].boops = IF r = p THEN k + 1 ELSE row[b][r].boops
  BY RecordedFacts DEF IInv
<1>3. \A r \in Parties : row[b][r].boops \in Nat
  BY DEF IInv, Rows
<1>4. Ticks(b)' = Ticks(b) \cup {<<p, k + 1>>}
  <2>1. ASSUME NEW r \in Parties, NEW n \in 1 .. MaxSessions
        PROVE n <= row'[b][r].boops <=> n <= row[b][r].boops \/ <<r, n>> = <<p, k + 1>>
    <3>1. CASE r = p
      <4>1. row'[b][r].boops = k + 1 /\ row[b][r].boops = k
        BY <3>1, <1>2
      <4>2. n <= k + 1 <=> n <= k \/ n = k + 1
        <5>1. k \in Nat /\ n \in Nat
          BY <1>1, Constants
        <5> HIDE DEF k
        <5> QED BY <5>1
      <4> HIDE DEF k
      <4> QED BY <3>1, <4>1, <4>2
    <3>2. CASE r # p BY <3>2, <1>2
    <3> QED BY <3>1, <3>2
  <2>2. <<p, k + 1>> \in Parties \X (1 .. MaxSessions)
    BY <1>1
  <2> DEFINE D == Parties \X (1 .. MaxSessions)
  <2>3. \A n \in D : n[1] \in Parties /\ n[2] \in 1 .. MaxSessions /\ n = <<n[1], n[2]>>
    OBVIOUS
  <2>4. \A n \in D : n[2] <= row'[b][n[1]].boops <=> n[2] <= row[b][n[1]].boops
          \/ n = <<p, k + 1>>
    BY <2>1, <2>3
  <2> QED BY <2>2, <2>4 DEF Ticks
<1>5. <<p, k + 1>> \notin Ticks(b)
  BY <1>1 DEF Ticks
<1>6. Boops(b)' = Cardinality(Ticks(b)')
  BY DEF Boops, Ticks
<1> HIDE DEF k
<1> QED BY <1>4, <1>5, <1>6, BoopsFinite, FS_AddElement

\* A session that has not counted its boop leaves room for it.
LEMMA RoomForOne ==
  ASSUME IInv, NEW b \in Badges, phase[b] = "BEACONING", ~recorded[b], NEW p \in Parties
  PROVE  row[b][p].boops \in Nat /\ row[b][p].boops < MaxSessions
<1>1. session[b] \in Nat /\ session[b] <= MaxSessions /\ MaxSessions \in Nat
  BY Constants DEF IInv, Types
<1>2. row[b][p].boops \in Nat
  BY DEF IInv, Rows
<1>3. row[b][p].boops < session[b]
  BY DEF IInv, Counted
<1> QED BY <1>1, <1>2, <1>3

\* The peer of a session that is recorded stays who it is.
LEMMA SamePeer ==
  ASSUME IInv, Steady, NEW b \in Badges, Single(b), NEW f \in FramesFor(b), UnpackPeer(b, f),
         phase[b] = "BEACONING", recorded[b]
  PROVE  peer'[b] = peer[b] /\ (rx[b] = 0 => f.from = peer[b])
<1>1. CASE rx[b] # 0
  BY <1>1 DEF UnpackPeer
<1>2. CASE rx[b] = 0
  <2>1. Duo
    BY <1>2, BoundsAssumption DEF Single, Steady
  <2>2. peer[b] \in Parties \ {b} /\ f.from \in Parties \ {b}
    BY DEF IInv, Peer, Types, FramesFor, Frames
  <2>3. peer'[b] = f.from
    BY <1>2, UnpackFacts
  <2> QED BY <2>1, <2>2, <2>3 DEF Duo
<1> QED BY <1>1, <1>2

\* recordBoopOnce at the threshold: the boop of this session, once.
LEMMA RecordAtThresholdSingle ==
  ASSUME IInv, NEW b \in Badges, Single(b), phase[b] = "BEACONING", RecordAtThreshold(b)
  PROVE  /\ recorded[b] \/ ThresholdMet(b) => row'[b][peer[b]].boops > 0
              /\ (~Wraps => rx[b] = 1)
         /\ Boops(b)' <= session[b]
         /\ ~(recorded[b] \/ ThresholdMet(b)) => Boops(b)' < session[b]
<1>0. Boops(b) \in Nat /\ session[b] \in Nat
  BY BoopsFinite, Constants DEF IInv, Types
<1>1. CASE ThresholdMet(b)
  <2>1. peer[b] \in Parties /\ rx[b] = 1 /\ ~recorded[b]
    BY <1>1, Constants DEF ThresholdMet, IInv, Types, Peer
  <2>2. row' = Recorded(b, peer[b])
    BY <1>1 DEF RecordAtThreshold
  <2>3. row[b][peer[b]].boops \in Nat /\ row[b][peer[b]].boops < MaxSessions
    BY <2>1, RoomForOne
  <2>4. row'[b][peer[b]].boops = row[b][peer[b]].boops + 1
    BY <2>1, <2>2, RecordedFacts DEF IInv
  <2>5. Boops(b)' = Boops(b) + 1
    BY <2>1, <2>2, <2>3, OneMoreBoop
  <2>6. Boops(b) < session[b]
    BY <2>1 DEF Single
  <2> QED BY <1>0, <1>1, <2>1, <2>3, <2>4, <2>5, <2>6
<1>2. CASE ~ThresholdMet(b)
  <2>1. row' = row
    BY <1>2 DEF RecordAtThreshold
  <2>2. Boops(b)' = Boops(b)
    BY <2>1, SameBoops
  <2> QED BY <1>2, <2>1, <2>2 DEF Single
<1> QED BY <1>1, <1>2

\* finishPaired finds the row of the peer, and adds no boop.
LEMMA FinishSingle ==
  ASSUME IInv, NEW b \in Badges, Single(b), phase[b] = "EXCHANGE", NEW y, FinishPaired(b, y),
         peer' = peer, session' = session
  PROVE  Single(b)'
<1>1. peer[b] \in Parties /\ row[b][peer[b]].boops \in Nat /\ row[b][peer[b]].boops > 0
  BY DEF Single, IInv, Rows
<1>2. phase'[b] \in {"PAIRED_OK", "FAILED"} /\ (row' = row \/ row' = Merged(b, peer[b]))
  BY FinishFacts
<1>3. \A p \in Parties : row'[b][p].boops = row[b][p].boops
  <2> SUFFICES ASSUME NEW p \in Parties, row' = Merged(b, peer[b])
               PROVE  row'[b][p].boops = row[b][p].boops
    BY <1>2
  <2>1. CASE p = peer[b]
    <3>1. row'[b][peer[b]].boops =
            IF row[b][peer[b]].boops = 0 THEN 1 ELSE row[b][peer[b]].boops
      BY <1>1, MergedFacts DEF IInv, Types
    <3> QED BY <1>1, <2>1, <3>1
  <2>2. CASE p # peer[b]
    BY <1>1, <2>2, MergedFacts DEF IInv, Types
  <2> QED BY <2>1, <2>2
<1>4. Boops(b)' = Boops(b)
  BY <1>3, SameBoops
<1> QED BY <1>1, <1>2, <1>3, <1>4 DEF Single

\* Every step of b keeps the count of b within its sessions.
LEMMA SingleStep ==
  ASSUME IInv, Steady, NEW b \in Badges, Single(b), Step(b)
  PROVE  Single(b)'
<1> USE DEF Set, Goto, core1, link
<1>0. Boops(b) \in Nat /\ session[b] \in Nat
  BY BoopsFinite, Constants DEF IInv, Types
<1>1. CASE User(b) \/ HandleCancel(b) \/ TerminalExpires(b)
  <2>1. row' = row /\ session' = session
    BY <1>1 DEF User, PressBoop, PressCancel, PressAgain, LeaveScreen, HandleCancel,
       TerminalExpires
  <2>2. Boops(b)' = Boops(b)
    BY <2>1, SameBoops
  <2>3. \/ phase'[b] \in {"IDLE", "CANCELLED"}
        \/ UNCHANGED <<phase, recorded, peer, rx>>
    BY <1>1 DEF User, PressBoop, PressCancel, PressAgain, LeaveScreen, SmReset,
       HandleCancel, TerminalExpires, IInv, Types
  <2> QED BY <2>1, <2>2, <2>3 DEF Single
<1>2. CASE Start(b)
  <2>1. row' = row /\ session'[b] = session[b] + 1 /\ phase'[b] = "BEACONING" /\ ~recorded'[b]
    BY <1>2 DEF Start, IInv, Types
  <2>2. Boops(b)' = Boops(b)
    BY <2>1, SameBoops
  <2> QED BY <1>0, <2>1, <2>2 DEF Single
<1>3. CASE IdleDrain(b) \/ ListenTimeout(b) \/ IgnoreFrame(b)
  <2>1. UNCHANGED <<phase, recorded, peer, rx, row, session>>
    BY <1>3 DEF IdleDrain, ListenTimeout, IgnoreFrame
  <2>2. Boops(b)' = Boops(b)
    BY <2>1, SameBoops
  <2> QED BY <2>1, <2>2 DEF Single
<1>4. ASSUME NEW heard \in Audience(b), HandleField(b, heard) \/ HandleFin(b, heard)
      PROVE  Single(b)'
  <2>1. UNCHANGED <<phase, recorded, peer, rx, row, session>>
    BY <1>4 DEF HandleField, HandleFin
  <2>2. Boops(b)' = Boops(b)
    BY <2>1, SameBoops
  <2> QED BY <2>1, <2>2 DEF Single
<1>5. CASE BeaconNotDue(b)
  <2>1. /\ phase[b] = "BEACONING" /\ RecordAtThreshold(b)
             /\ recorded'[b] = (recorded[b] \/ ThresholdMet(b))
        /\ UNCHANGED <<phase, peer, rx, session>>
    BY <1>5 DEF BeaconNotDue, AtTick, IInv, Types
  <2> QED BY <2>1, RecordAtThresholdSingle DEF Single
<1>6. ASSUME NEW heard \in Audience(b), BeaconTx(b, heard) PROVE Single(b)'
  <2>1. /\ phase[b] = "BEACONING" /\ RecordAtThreshold(b)
             /\ recorded'[b] = (recorded[b] \/ ThresholdMet(b))
        /\ UNCHANGED <<peer, rx, session>>
    BY <1>6 DEF BeaconTx, AtTick, LockOn, IInv, Types
  <2>2. \/ phase'[b] = "BEACONING"
        \/ phase'[b] \in {"EXCHANGE", "PAIRED_OK"} /\ (recorded[b] \/ ThresholdMet(b))
    BY <1>6, <2>1 DEF BeaconTx, LockOn, IInv, Types
  <2>3. recorded[b] \/ ThresholdMet(b) => peer[b] \in Parties
    BY <2>1, Constants DEF IInv, Peer, Types, ThresholdMet
  <2> QED BY <2>1, <2>2, <2>3, RecordAtThresholdSingle DEF Single
<1>7. ASSUME HearBeacon(b) \/ HearExchangeFrame(b)
      PROVE  /\ phase[b] = "BEACONING" /\ phase' = phase /\ session' = session
             /\ recorded[b] => peer'[b] = peer[b]
             /\ ~Wraps => rx'[b] = 1
             /\ peer'[b] \in Parties
                  /\ peer'[b] = IF rx[b] = 0 THEN Head(inbox[b]).from ELSE peer[b]
  <2>1. /\ inbox[b] # <<>> /\ UnpackPeer(b, Head(inbox[b])) /\ phase[b] = "BEACONING"
        /\ phase' = phase /\ session' = session
    BY <1>7 DEF HearBeacon, HearExchangeFrame, IInv, Session
  <2>2. Head(inbox[b]) \in FramesFor(b)
    BY <2>1, HeadFacts
  <2>3. ~Wraps => rx'[b] = 1
    BY <1>7 DEF HearBeacon, HearExchangeFrame, Count, IInv, Types
  <2> QED BY <2>1, <2>2, <2>3, SamePeer, UnpackFacts
<1>8. CASE HearBeacon(b)
  <2>1. row' = row /\ recorded' = recorded
    BY <1>8 DEF HearBeacon
  <2>2. Boops(b)' = Boops(b)
    BY <2>1, SameBoops
  <2> QED BY <1>7, <1>8, <2>1, <2>2 DEF Single
<1>9. CASE HearExchangeFrame(b)
  <2>1. /\ recorded'[b]
        /\ row' = IF recorded[b] THEN row
             ELSE Recorded(b, IF rx[b] = 0 THEN Head(inbox[b]).from ELSE peer[b])
    BY <1>9 DEF HearExchangeFrame, IInv, Types
  <2>2. CASE recorded[b]
    <3>1. Boops(b)' = Boops(b)
      BY <2>1, <2>2, SameBoops
    <3> QED BY <1>7, <1>9, <2>1, <2>2, <3>1 DEF Single
  <2>3. CASE ~recorded[b]
    <3>1. row' = Recorded(b, peer'[b]) /\ peer'[b] \in Parties /\ phase[b] = "BEACONING"
      BY <1>7, <1>9, <2>1, <2>3
    <3>2. PICK p \in Parties : p = peer'[b]
      BY <3>1
    <3>3. row[b][p].boops \in Nat /\ row[b][p].boops < MaxSessions
      BY <2>3, <3>1, RoomForOne
    <3>4. row' = Recorded(b, p) BY <3>1, <3>2 DEF Recorded
    <3>5. Boops(b)' = Boops(b) + 1
      BY <3>3, <3>4, OneMoreBoop
    <3>6. row'[b][p].boops = row[b][p].boops + 1
      BY <3>4, RecordedFacts DEF IInv
    <3>7. Boops(b) < session[b]
      BY <2>3, <3>1 DEF Single
    <3> QED BY <1>0, <1>7, <1>9, <2>1, <3>2, <3>3, <3>5, <3>6, <3>7 DEF Single
  <2> QED BY <2>2, <2>3
<1>10. CASE ExchangeTimeout(b)
  BY <1>10, FinishSingle DEF ExchangeTimeout, AtTick
<1>11. ASSUME NEW heard \in Audience(b), EndTick(b, heard) PROVE Single(b)'
  <2>1. Ends(b)
    BY <1>11, EndTickFacts
  <2>2. CASE Completed(xchg'[b])
    <3>0. PICK y \in ExchangeState : y = xchg'[b]
      BY <2>1 DEF Ends
    <3>1. FinishPaired(b, y) /\ phase[b] = "EXCHANGE"
      BY <2>1, <2>2, <3>0 DEF Ends, FinishPaired, Swapped
    <3> QED BY <2>1, <3>1, FinishSingle DEF Ends
  <2>3. CASE ~Completed(xchg'[b])
    <3>1. UNCHANGED <<phase, recorded, peer, rx, row, session>>
      BY <2>1, <2>3 DEF Ends
    <3>2. Boops(b)' = Boops(b)
      BY <3>1, SameBoops
    <3> QED BY <3>1, <3>2 DEF Single
  <2> QED BY <2>2, <2>3
<1> QED BY <1>1, <1>2, <1>3, <1>4, <1>5, <1>6, <1>8, <1>9, <1>10, <1>11 DEF Step, Quiet, Loud

\* Nothing is counted at boot.
LEMMA SingleInit == Init => \A b \in Badges : Single(b)
<1> SUFFICES ASSUME Init, NEW b \in Badges PROVE Single(b)
  OBVIOUS
<1>1. phase[b] = "IDLE" /\ session[b] = 0 /\ \A p \in Parties : row[b][p].boops = 0
  BY DEF Init, EmptyRow
<1>2. Ticks(b) = {}
  <2>1. \A n \in Parties \X (1 .. MaxSessions) : n[1] \in Parties /\ n[2] \in 1 .. MaxSessions
    OBVIOUS
  <2>2. \A n \in Parties \X (1 .. MaxSessions) : ~(n[2] <= row[b][n[1]].boops)
    <3>1. \A p \in Parties : \A k \in 1 .. MaxSessions : ~(k <= row[b][p].boops)
      BY <1>1, Constants
    <3> QED BY <2>1, <3>1
  <2> QED BY <2>2 DEF Ticks
<1>3. Boops(b) = 0
  BY <1>2, FS_EmptySet DEF Boops, Ticks
<1> QED BY <1>1, <1>3 DEF Single

\* Nothing is known of c but what c has, and its inbox.
LEMMA SingleStays ==
  ASSUME NEW c, Single(c), Own(c)' = Own(c)
  PROVE  Single(c)'
<1>1. UNCHANGED <<phase[c], recorded[c], peer[c], rx[c], row[c], session[c]>>
  BY DEF Own
<1>2. Boops(c)' = Boops(c)
  BY <1>1, SameBoops
<1> QED BY <1>1, <1>2 DEF Single

\* The count is kept by every step of the room.
LEMMA SingleInv ==
  ASSUME IInv, Steady, \A b \in Badges : Single(b), [Next]_vars
  PROVE  \A b \in Badges : Single(b)'
<1> SUFFICES ASSUME NEW c \in Badges PROVE Single(c)'
  OBVIOUS
<1>1. ASSUME NEW b \in Badges, Step(b) PROVE Single(c)'
  <2>1. CASE c = b
    BY <1>1, <2>1, SingleStep
  <2>2. CASE c # b
    BY <1>1, <2>2, OthersStay, SingleStays DEF IInv, Typed
  <2> QED BY <2>1, <2>2
<1>2. ASSUME NEW k \in Kiosks, NEW heard \in SUBSET Badges, KioskSends(k, heard)
      PROVE  Single(c)'
  BY <1>2, KioskStep, SingleStays
<1>3. CASE UNCHANGED vars
  BY <1>3, SingleStays DEF vars, core1, link, Own
<1> QED BY <1>1, <1>2, <1>3, NextIsStep

\* OneBoopPerSession: whatever is lost, left over, cancelled or timed out, a session
\* counts one boop at most (recordBoopOnce and s_boop_recorded).
THEOREM CountsOnce ==
  ASSUME Steady
  PROVE  Spec => []OneBoopPerSession
<1> DEFINE S == \A b \in Badges : Single(b)
<1>1. Init => S
  BY SingleInit
<1>2. IInv /\ S /\ [Next]_vars => S'
  BY SingleInv
<1>3. S => OneBoopPerSession
  BY DEF Single, OneBoopPerSession
<1> HIDE DEF S
<1> QED BY <1>1, <1>2, <1>3, InvHolds, PTL DEF Spec

-----------------------------------------------------------------------------
(* A boop on both sides. *)

\* Rows only grow.
LEMMA RowsGrow ==
  ASSUME IInv, NEW b \in Badges, Step(b), NEW c \in Badges, NEW p \in Parties,
         row[c][p].boops > 0
  PROVE  row'[c][p].boops > 0
<1>0. row[c][p].boops \in Nat
  BY DEF IInv, Rows
<1>1. CASE c # b
  <2>1. Own(c)' = Own(c)
    BY <1>1, OthersStay DEF IInv, Typed
  <2> QED BY <2>1 DEF Own
<1>2. CASE row' = row
  BY <1>2
<1>3. ASSUME NEW r \in Parties, row' = Recorded(b, r) \/ row' = Merged(b, r), c = b
      PROVE  row'[c][p].boops > 0
  <2>1. CASE p = r
    <3>1. \/ row'[b][r].boops = row[b][r].boops + 1
          \/ row'[b][r].boops = IF row[b][r].boops = 0 THEN 1 ELSE row[b][r].boops
      BY <1>3, RecordedFacts, MergedFacts DEF IInv, Types
    <3> QED BY <1>0, <1>3, <2>1, <3>1
  <2>2. CASE p # r
    BY <1>0, <1>3, <2>2, RecordedFacts, MergedFacts DEF IInv, Types
  <2> QED BY <2>1, <2>2
<1>4. \/ row' = row
      \/ \E r \in Parties : row' = Recorded(b, r) \/ row' = Merged(b, r)
  <2>1. CASE RecordAtThreshold(b) /\ phase[b] = "BEACONING"
    <3>1. ThresholdMet(b) => peer[b] \in Parties
      BY Constants DEF ThresholdMet, IInv, Peer, Types
    <3> QED BY <2>1, <3>1 DEF RecordAtThreshold
  <2>2. ASSUME NEW y, FinishPaired(b, y), phase[b] = "EXCHANGE"
        PROVE  \/ row' = row
               \/ \E r \in Parties : row' = Recorded(b, r) \/ row' = Merged(b, r)
    BY <2>2, FinishFacts, Constants DEF IInv, Peer
  <2>3. CASE HearExchangeFrame(b)
    <3>1. PICK f \in FramesFor(b) : f = Head(inbox[b])
      BY <2>3, HeadFacts DEF HearExchangeFrame
    <3>2. /\ row' = IF recorded[b] THEN row
                  ELSE Recorded(b, IF rx[b] = 0 THEN f.from ELSE peer[b])
          /\ UnpackPeer(b, f)
      BY <2>3, <3>1 DEF HearExchangeFrame, UnpackPeer
    <3>3. peer'[b] \in Parties /\ peer'[b] = IF rx[b] = 0 THEN f.from ELSE peer[b]
      BY <3>2, UnpackFacts
    <3> QED BY <3>2, <3>3
  <2>4. ASSUME NEW heard \in Audience(b), EndTick(b, heard)
        PROVE  \/ row' = row
               \/ \E r \in Parties : row' = Recorded(b, r) \/ row' = Merged(b, r)
    <3>1. Ends(b)
      BY <2>4, EndTickFacts
    <3>2. PICK y \in ExchangeState : y = xchg'[b]
      BY <3>1 DEF Ends
    <3>3. row' = row \/ FinishPaired(b, y)
      BY <3>1, <3>2 DEF Ends, FinishPaired, Swapped
    <3> QED BY <2>2, <3>1, <3>3 DEF Ends
  <2>5. CASE ExchangeTimeout(b)
    BY <2>2, <2>5 DEF ExchangeTimeout, AtTick
  <2>6. CASE \E heard \in Audience(b) : Loud(b, heard)
    BY <2>1, <2>6 DEF Loud, BeaconTx, LockOn, HandleField, HandleFin, AtTick
  <2>7. CASE User(b) \/ Quiet(b)
    BY <2>1, <2>3, <2>7 DEF User, Quiet, PressBoop, PressCancel, PressAgain, LeaveScreen,
       HandleCancel,
         Start, IdleDrain, TerminalExpires, BeaconNotDue, ListenTimeout, HearBeacon,
           IgnoreFrame, AtTick
  <2> QED BY <2>4, <2>5, <2>6, <2>7 DEF Step
<1> QED BY <1>1, <1>2, <1>3, <1>4

\* A step of one badge: its frames carry the fact that it has a row, the FIN of a
\* peer that it has one too.
LEMMA MutualStep ==
  ASSUME IInv, Duo, \A c \in Badges : Single(c) /\ Mutual(c), NEW b \in Badges, Step(b)
  PROVE  \A c \in Badges : Mutual(c)'
<1> USE DEF Set
<1>0. Steady
  BY DEF Steady
<1>t. IInv' /\ \A c \in Badges : Single(c)'
  <2>1. [Next]_vars
    BY NextIsStep
  <2> QED BY <1>0, <2>1, StepInv, SingleInv
<1>1. ASSUME NEW c \in Badges, NEW f \in Held(inbox'[c]), f.kind \in {"FIELD", "FIN"}
      PROVE  row'[f.from][c].boops > 0
  <2>1. CASE f \in Held(inbox[c])
    <3>1. f.from \in Badges /\ row[f.from][c].boops > 0
      BY <1>1, <2>1 DEF IInv, FramesFor, Mutual
    <3> QED BY <3>1, RowsGrow, Constants
  <2>2. CASE f \in Sent(b) /\ c # b
    <3>1. f.from = b /\ phase[b] = "EXCHANGE"
      BY <1>1, <2>2 DEF Sent
    <3>2. peer[b] \in Parties \ {b} /\ c \in Parties \ {b} /\ row[b][peer[b]].boops > 0
      BY <3>1, <2>2, Constants DEF IInv, Peer, Single
    <3>3. peer[b] = c
      BY <3>2 DEF Duo
    <3> QED BY <3>1, <3>2, <3>3, RowsGrow, Constants
  <2> QED BY <1>1, <2>1, <2>2, InboxStep
<1>2. ASSUME NEW c \in Badges, c # b
      PROVE  /\ phase'[c] = "EXCHANGE" /\ xchg'[c].finSeen => row'[peer'[c]][c].boops > 0
             /\ phase'[c] = "PAIRED_OK" /\ ended'[c] = "done" =>
                  peer'[c] \in Badges /\ row'[peer'[c]][c].boops > 0
  <2>1. Own(c)' = Own(c)
    BY <1>2, OthersStay DEF IInv, Typed
  <2>2. UNCHANGED <<phase[c], xchg[c], ended[c], peer[c]>>
    BY <2>1 DEF Own
  <2>3. ASSUME row[peer[c]][c].boops > 0, peer[c] \in Badges PROVE row'[peer[c]][c].boops > 0
    BY <2>3, RowsGrow, Constants
  <2>4. phase[c] = "EXCHANGE" => peer[c] \in Badges
    BY DEF IInv, Peer
  <2> QED BY <2>2, <2>3, <2>4 DEF Mutual
<1>3. ASSUME phase[b] = "EXCHANGE", peer' = peer,
             phase'[b] = "EXCHANGE" \/ (phase'[b] = "PAIRED_OK" /\ ended'[b] = "done"),
             (phase'[b] = "PAIRED_OK" \/ xchg'[b].finSeen) => xchg[b].finSeen
               \/ \E f \in Held(inbox[b]) : f.kind = "FIN"
      PROVE  /\ phase'[b] = "EXCHANGE" /\ xchg'[b].finSeen => row'[peer'[b]][b].boops > 0
             /\ phase'[b] = "PAIRED_OK" /\ ended'[b] = "done" =>
                  peer'[b] \in Badges /\ row'[peer'[b]][b].boops > 0
  <2>1. peer[b] \in Badges \ {b}
    BY <1>3 DEF IInv, Peer
  <2>2. (phase'[b] = "PAIRED_OK" \/ xchg'[b].finSeen) => row[peer[b]][b].boops > 0
    <3>1. ASSUME NEW f \in Held(inbox[b]), f.kind = "FIN" PROVE row[peer[b]][b].boops > 0
      <4>1. f.from \in Badges \ {b} /\ row[f.from][b].boops > 0
        BY <3>1 DEF IInv, FramesFor, Mutual
      <4>2. f.from = peer[b]
        BY <2>1, <4>1, Constants DEF Duo
      <4> QED BY <4>1, <4>2
    <3> QED BY <1>3, <3>1 DEF Mutual
  <2> QED BY <1>3, <2>1, <2>2, RowsGrow, Constants
<1>4. /\ phase'[b] = "EXCHANGE" /\ xchg'[b].finSeen => row'[peer'[b]][b].boops > 0
      /\ phase'[b] = "PAIRED_OK" /\ ended'[b] = "done" =>
           peer'[b] \in Badges /\ row'[peer'[b]][b].boops > 0
  <2>1. CASE User(b) \/ Quiet(b)
    <3>1. \/ phase'[b] \notin {"EXCHANGE", "PAIRED_OK"}
          \/ UNCHANGED <<phase, ended, peer, xchg>>
      <4>1. CASE User(b)
        BY <4>1 DEF User, PressBoop, PressCancel, PressAgain, LeaveScreen, SmReset, IInv,
           Types, link, core1
      <4>2. CASE HearBeacon(b) \/ HearExchangeFrame(b)
        BY <4>2 DEF HearBeacon, HearExchangeFrame, IInv, Session
      <4>3. CASE HandleCancel(b)
        <5>1. phase'[b] = "CANCELLED" \/ UNCHANGED <<phase, ended>>
          BY <4>3 DEF HandleCancel, IInv, Types
        <5> QED BY <4>3, <5>1 DEF HandleCancel, link
      <4>5. CASE Start(b) \/ TerminalExpires(b)
        BY <4>5 DEF Start, TerminalExpires, IInv, Types
      <4>4. CASE BeaconNotDue(b) \/ ListenTimeout(b) \/ IdleDrain(b) \/ IgnoreFrame(b)
        BY <4>4 DEF BeaconNotDue, ListenTimeout, IdleDrain, IgnoreFrame, link
      <4> QED BY <2>1, <4>1, <4>2, <4>3, <4>4, <4>5 DEF Quiet
    <3>2. CASE UNCHANGED <<phase, ended, peer, xchg>>
      <4>1. phase[b] = "EXCHANGE" => peer[b] \in Badges
        BY DEF IInv, Peer
      <4> QED BY <3>2, <4>1, RowsGrow, Constants DEF Mutual
    <3> QED BY <3>1, <3>2
  <2>2. CASE ExchangeTimeout(b)
    <3>1. phase'[b] # "EXCHANGE" /\ ended'[b] = "left"
      BY <2>2, FinishFacts DEF ExchangeTimeout, AtTick, IInv, Types
    <3> QED BY <3>1
  <2>3. ASSUME NEW heard \in Audience(b), EndTick(b, heard)
        PROVE  /\ phase'[b] = "EXCHANGE" /\ xchg'[b].finSeen => row'[peer'[b]][b].boops > 0
               /\ phase'[b] = "PAIRED_OK" /\ ended'[b] = "done" =>
                    peer'[b] \in Badges /\ row'[peer'[b]][b].boops > 0
    <3>1. Ends(b)
      BY <2>3, EndTickFacts
    <3>2. phase[b] = "EXCHANGE" /\ peer' = peer /\ xchg'[b].finSeen = xchg[b].finSeen
      BY <3>1 DEF Ends, link
    <3>3. phase'[b] # "EXCHANGE" => Completed(xchg'[b])
      BY <3>1 DEF Ends
    <3> QED BY <1>3, <3>2, <3>3 DEF Completed
  <2>4. ASSUME NEW heard \in Audience(b), HandleField(b, heard) \/ HandleFin(b, heard)
        PROVE  /\ phase'[b] = "EXCHANGE" /\ xchg'[b].finSeen => row'[peer'[b]][b].boops > 0
               /\ phase'[b] = "PAIRED_OK" /\ ended'[b] = "done" =>
                    peer'[b] \in Badges /\ row'[peer'[b]][b].boops > 0
    <3>1. phase[b] = "EXCHANGE" /\ phase' = phase /\ peer' = peer /\ inbox[b] # <<>>
      BY <2>4 DEF HandleField, HandleFin, InExchange, link
    <3>2. Head(inbox[b]) \in Held(inbox[b]) /\ Head(inbox[b]) \in FramesFor(b)
      BY <3>1, HeadFacts, TakenFacts DEF IInv, Types
    <3>3. CASE HandleField(b, heard)
      <4>1. xchg'[b] = AfterField(xchg[b], Head(inbox[b]).tag) /\ Head(inbox[b]).tag \in Tags
            /\ xchg[b] \in ExchangeState
        BY <3>2, <3>3 DEF HandleField, FramesFor, IInv, Types
      <4>2. xchg'[b].finSeen = xchg[b].finSeen
        BY <4>1, ExchangeFacts
      <4> QED BY <1>3, <3>1, <4>2
    <3>4. CASE HandleFin(b, heard)
      <4>1. Head(inbox[b]).kind = "FIN"
        BY <3>4 DEF HandleFin
      <4> QED BY <1>3, <3>1, <3>2, <4>1
    <3> QED BY <2>4, <3>3, <3>4
  <2>5. ASSUME NEW heard \in Audience(b), BeaconTx(b, heard)
        PROVE  ~xchg'[b].finSeen \/ phase'[b] # "EXCHANGE"
    <3>1. phase[b] = "BEACONING"
      BY <2>5 DEF BeaconTx, AtTick
    <3>2. phase'[b] = "EXCHANGE" => xchg'[b] = FreshExchange(b < peer[b])
      BY <2>5, <3>1 DEF BeaconTx, LockOn, IInv, Types
    <3> QED BY <3>2 DEF FreshExchange
  <2>6. ASSUME NEW heard \in Audience(b), BeaconTx(b, heard)
        PROVE  ended'[b] # "done"
    BY <2>6 DEF BeaconTx, AtTick, IInv, Session
  <2> QED BY <2>1, <2>2, <2>3, <2>4, <2>5, <2>6 DEF Step, Loud
<1> QED BY <1>1, <1>2, <1>4 DEF Mutual

\* No exchange has ended at boot.
LEMMA MutualInit == Init => \A b \in Badges : Mutual(b)
  BY DEF Init, Mutual, Held

\* A kiosk's frames are beacons, and a stutter changes nothing.
LEMMA MutualInv ==
  ASSUME IInv, Duo, \A b \in Badges : Single(b) /\ Mutual(b), [Next]_vars
  PROVE  \A b \in Badges : Mutual(b)'
<1>1. ASSUME NEW k \in Kiosks, NEW heard \in SUBSET Badges, KioskSends(k, heard),
             NEW c \in Badges
      PROVE  Mutual(c)'
  <2>1. /\ row' = row /\ Own(c)' = Own(c)
        /\ Held(inbox'[c]) \subseteq Held(inbox[c]) \cup Sent(k)
    BY <1>1, KioskStep
  <2>2. \A f \in Sent(k) : f.kind \notin {"FIELD", "FIN"}
    BY Constants DEF Sent
  <2> QED BY <2>1, <2>2 DEF Own, Mutual
<1>2. CASE UNCHANGED vars
  BY <1>2 DEF vars, link, Mutual
<1> QED BY <1>1, <1>2, MutualStep, NextIsStep

\* MutualBoop: an exchange that completed is a boop on both sides.
THEOREM BothHaveABoop ==
  ASSUME Duo
  PROVE  Spec => []MutualBoop
<1> DEFINE S == \A b \in Badges : Single(b)
           M == \A b \in Badges : Single(b) /\ Mutual(b)
<1>1. Init => M
  BY SingleInit, MutualInit
<1>2. IInv /\ M /\ [Next]_vars => M'
  <2> SUFFICES ASSUME IInv, M, [Next]_vars PROVE M'
    OBVIOUS
  <2>1. Steady
    BY DEF Steady
  <2> QED BY <2>1, SingleInv, MutualInv
<1>3. M => MutualBoop
  BY DEF Mutual, MutualBoop
<1> HIDE DEF M
<1> QED BY <1>1, <1>2, <1>3, InvHolds, PTL DEF Spec

\* Only a frame that is unpacked, and a session that starts or expires, change the
\* peer and the type.
LEMMA TypeStays ==
  ASSUME IInv, NEW b \in Badges, Step(b)
  PROVE  \/ UNCHANGED <<peer, type>>
         \/ Start(b) \/ TerminalExpires(b) \/ HearBeacon(b) \/ HearExchangeFrame(b)
<1> USE DEF Set, Goto, core1, link
<1>1. ASSUME NEW heard \in Audience(b), EndTick(b, heard) PROVE UNCHANGED <<peer, type>>
  BY <1>1, EndTickFacts DEF Ends
<1>2. ASSUME NEW heard \in Audience(b), Loud(b, heard) PROVE UNCHANGED <<peer, type>>
  BY <1>2 DEF Loud, BeaconTx, HandleField, HandleFin
<1>3. User(b) \/ ExchangeTimeout(b) => UNCHANGED <<peer, type>>
  BY DEF User, PressBoop, PressCancel, PressAgain, LeaveScreen, SmReset, ExchangeTimeout
<1>4. HandleCancel(b) \/ IdleDrain(b) \/ BeaconNotDue(b) \/ ListenTimeout(b)
        \/ IgnoreFrame(b) => UNCHANGED <<peer, type>>
  BY DEF HandleCancel, IdleDrain, BeaconNotDue, ListenTimeout, IgnoreFrame
<1> QED BY <1>1, <1>2, <1>3, <1>4 DEF Step, Quiet

-----------------------------------------------------------------------------
(* A badge that is taken for an installation. *)

\* Whom b takes for an installation it has booped, and has been booped by.
Misread(b) == type[b] = "OTHER" /\ peer[b] \in Badges =>
                row[b][peer[b]].boops > 0 /\ row[peer[b]][b].boops > 0

\* The frame of an exchange that was misread says that its sender has a row; and b
\* has one, or makes one.
LEMMA MisreadStep ==
  ASSUME IInv, Duo, \A c \in Badges : Single(c) /\ Mutual(c) /\ Misread(c),
         NEW b \in Badges, Step(b)
  PROVE  Misread(b)'
<1> USE DEF Set
<1>1. CASE peer'[b] = peer[b] /\ type'[b] = type[b]
  <2> SUFFICES ASSUME type[b] = "OTHER", peer[b] \in Badges
               PROVE  row'[b][peer[b]].boops > 0 /\ row'[peer[b]][b].boops > 0
    BY <1>1 DEF Misread
  <2>1. row[b][peer[b]].boops > 0 /\ row[peer[b]][b].boops > 0
    BY DEF Misread
  <2> QED BY <2>1, RowsGrow, Constants
<1>2. CASE Start(b) \/ TerminalExpires(b)
  <2>1. peer'[b] = Nobody
    BY <1>2 DEF Start, TerminalExpires, IInv, Types
  <2> QED BY <2>1, Constants DEF Misread
<1>3. CASE HearBeacon(b)
  <2> DEFINE f == Head(inbox[b])
  <2>1. f \in FramesFor(b) /\ UnpackPeer(b, f) /\ f.kind \in {"BEACON", "DONE"}
    BY <1>3, HeadFacts DEF HearBeacon
  <2>2. f.from \in Badges => TypeByte(f) = "PEER"
    BY <2>1 DEF TypeByte
  <2> QED BY <2>1, <2>2, <1>1 DEF UnpackPeer, IInv, Types, Misread
<1>4. CASE HearExchangeFrame(b)
  <2> DEFINE f == Head(inbox[b])
  <2>1. f \in Held(inbox[b]) /\ f.kind \in {"FIELD", "FIN"} /\ UnpackPeer(b, f)
        /\ phase[b] = "BEACONING"
        /\ row' = IF recorded[b] THEN row
                 ELSE Recorded(b, IF rx[b] = 0 THEN f.from ELSE peer[b])
    BY <1>4, TakenFacts DEF HearExchangeFrame, IInv, Types, Session
  <2>2. f.from \in Badges \ {b} /\ row[f.from][b].boops > 0
    BY <2>1 DEF IInv, FramesFor, Mutual
  <2>3. CASE rx[b] # 0
    BY <2>1, <2>3, <1>1 DEF UnpackPeer
  <2>4. CASE rx[b] = 0
    <3>1. peer'[b] = f.from
      BY <2>1, <2>4 DEF UnpackPeer, IInv, Types
    <3>2. row'[f.from][b].boops > 0
      BY <2>2, RowsGrow, Constants
    <3>3. CASE recorded[b]
      <4>1. peer[b] \in Parties \ {b} /\ row[b][peer[b]].boops > 0
        BY <2>1, <3>3 DEF IInv, Types, Peer, Single
      <4>2. peer[b] = f.from
        BY <2>2, <4>1, Constants DEF Duo
      <4>3. row'[b][f.from].boops > 0
        BY <4>1, <4>2, RowsGrow
      <4> QED BY <3>1, <3>2, <4>3 DEF Misread
    <3>4. CASE ~recorded[b]
      <4>1. row' = Recorded(b, f.from)
        BY <2>1, <2>4, <3>4
      <4>2. f.from \in Parties /\ row \in [Badges -> [Parties -> Rows]]
        BY <2>2, Constants DEF IInv
      <4> HIDE DEF f
      <4>3. row'[b][f.from].boops = row[b][f.from].boops + 1
        BY <4>1, <4>2, RecordedFacts
      <4>4. row[b][f.from].boops \in Nat
        BY <4>2 DEF Rows
      <4> QED BY <3>1, <3>2, <4>3, <4>4 DEF Misread
    <3> QED BY <3>3, <3>4
  <2> QED BY <2>3, <2>4
<1> QED BY <1>1, <1>2, <1>3, <1>4, TypeStays

\* A step of anybody else, and a stutter, change neither b's peer nor take a row away.
LEMMA MisreadInv ==
  ASSUME IInv, Duo, \A b \in Badges : Single(b) /\ Mutual(b) /\ Misread(b), [Next]_vars
  PROVE  \A b \in Badges : Misread(b)'
<1>1. ASSUME NEW b \in Badges, Step(b), NEW c \in Badges, c # b PROVE Misread(c)'
  <2>1. peer'[c] = peer[c] /\ type'[c] = type[c]
    <3>1. Own(c)' = Own(c)
      BY <1>1, OthersStay DEF IInv, Typed
    <3> QED BY <3>1 DEF Own
  <2> SUFFICES ASSUME type[c] = "OTHER", peer[c] \in Badges
               PROVE  row'[c][peer[c]].boops > 0 /\ row'[peer[c]][c].boops > 0
    BY <2>1 DEF Misread
  <2>2. row[c][peer[c]].boops > 0 /\ row[peer[c]][c].boops > 0
    BY DEF Misread
  <2> QED BY <1>1, <2>2, RowsGrow, Constants
<1>2. ASSUME NEW k \in Kiosks, NEW heard \in SUBSET Badges, KioskSends(k, heard),
             NEW c \in Badges
      PROVE  Misread(c)'
  BY <1>2, KioskStep DEF Own, Misread
<1>3. CASE UNCHANGED vars
  BY <1>3 DEF vars, link, Misread
<1> QED BY <1>1, <1>2, <1>3, MisreadStep, NextIsStep

\* MisreadHasBooped: taking a badge for an installation costs the exchange, never
\* the boop, whatever was left over, lost or wrapped.
THEOREM MisreadKeepsBoop ==
  ASSUME Duo
  PROVE  Spec => []MisreadHasBooped
<1> DEFINE M == \A b \in Badges : Single(b) /\ Mutual(b) /\ Misread(b)
<1>1. Init => M
  <2>1. Init => \A b \in Badges : Misread(b)
    BY Constants DEF Init, Misread
  <2> QED BY <2>1, SingleInit, MutualInit
<1>2. IInv /\ M /\ [Next]_vars => M'
  <2> SUFFICES ASSUME IInv, M, [Next]_vars PROVE M'
    OBVIOUS
  <2>1. Steady
    BY DEF Steady
  <2>2. \A b \in Badges : Single(b)'
    BY <2>1, SingleInv
  <2>3. \A b \in Badges : Mutual(b)'
    BY MutualInv
  <2>4. \A b \in Badges : Misread(b)'
    BY MisreadInv
  <2> QED BY <2>2, <2>3, <2>4
<1>3. M => MisreadHasBooped
  BY DEF Misread, MisreadHasBooped
<1> HIDE DEF M
<1> QED BY <1>1, <1>2, <1>3, InvHolds, PTL DEF Spec

-----------------------------------------------------------------------------
(* The frames of an exchange, behind the beacons that were sent before it. *)

\* The beacons come first.
SplitAt(s, n) == \A k \in 1 .. Len(s) : k <= n <=> s[k].kind \in {"BEACON", "DONE"}
Ordered(s)    == \E n \in 0 .. Len(s) : SplitAt(s, n)

\* There is one place at which the beacons end.
LEMMA LeadIs ==
  ASSUME NEW s \in Queues, NEW n \in 0 .. Len(s), SplitAt(s, n)
  PROVE  Lead(s) = n
<1>1. ASSUME NEW m \in 0 .. Len(s), SplitAt(s, m)
      PROVE  m = n
  <2>1. CASE m < n
    <3>1. n \in 1 .. Len(s) /\ n <= n /\ ~(n <= m)
      BY <2>1
    <3> QED BY <1>1, <3>1 DEF SplitAt
  <2>2. CASE n < m
    <3>1. m \in 1 .. Len(s) /\ m <= m /\ ~(m <= n)
      BY <2>2
    <3> QED BY <1>1, <3>1 DEF SplitAt
  <2> QED BY <2>1, <2>2
<1>2. Lead(s) = CHOOSE m \in 0 .. Len(s) : SplitAt(s, m)
  BY DEF Lead, SplitAt
<1> QED BY <1>1, <1>2

\* What is behind the beacons, once their number is known.
LEMMA BehindIs ==
  ASSUME NEW s \in Queues, NEW n \in 0 .. Len(s), SplitAt(s, n)
  PROVE  Behind(s) = [k \in 1 .. Len(s) - n |-> Plain(s[k + n])]
  BY LeadIs DEF Behind

\* An empty queue.
LEMMA BehindNothing == Ordered(<<>>) /\ Behind(<<>>) = <<>>
<1>1. <<>> \in Queues /\ Len(<<>>) = 0 
  BY BoundsAssumption DEF Queues
<1>2. SplitAt(<<>>, 0)
  BY DEF SplitAt
<1>3. Behind(<<>>) = [k \in 1 .. 0 |-> Plain(<<>>[k + 0])]
  BY <1>1, <1>2, BehindIs
<1> QED BY <1>1, <1>2, <1>3 DEF Ordered

\* A queue is a sequence of frames.
LEMMA QueueLen ==
  ASSUME NEW s \in Queues
  PROVE  Len(s) \in Nat /\ DOMAIN s = 1 .. Len(s) /\ \A k \in 1 .. Len(s) : s[k] \in Frames
  BY DEF Queues

\* An exchange frame goes behind whatever is there.
LEMMA AppendExchange ==
  ASSUME NEW s \in Queues, Ordered(s), NEW f \in Frames, f.kind \in {"FIELD", "FIN"},
         Len(s) < QueueDepth
  PROVE  Ordered(Append(s, f)) /\ Behind(Append(s, f)) = Append(Behind(s), Plain(f))
<1> PICK n \in 0 .. Len(s) : SplitAt(s, n)
  BY DEF Ordered
<1> DEFINE r == Append(s, f)
<1>1. r \in Queues /\ Len(r) = Len(s) + 1 /\ Len(s) \in Nat
  BY AppendHeld DEF Queues
<1>2. (\A k \in 1 .. Len(s) : r[k] = s[k]) /\ r[Len(s) + 1] = f
  BY DEF Queues
<1> HIDE DEF r
<1>3. n \in 0 .. Len(r)
  BY <1>1
<1>4. SplitAt(r, n)
  BY <1>1, <1>2 DEF SplitAt
<1>5. Behind(r) = [k \in 1 .. Len(s) + 1 - n |-> Plain(r[k + n])]
  BY <1>1, <1>3, <1>4, BehindIs
<1>6. Behind(s) = [k \in 1 .. Len(s) - n |-> Plain(s[k + n])]
  BY BehindIs
<1>7. Behind(r) = Append(Behind(s), Plain(f))
  <2>1. Len(s) - n \in Nat
    BY <1>1
  <2>2. PICK m \in Nat : m = Len(s) - n
    BY <2>1
  <2>3. Behind(s) = [k \in 1 .. m |-> Plain(s[k + n])]
    BY <1>6, <2>2
  <2>4. Behind(r) = [k \in 1 .. m + 1 |-> Plain(r[k + n])]
    BY <1>1, <1>5, <2>2
  <2>5. (\A k \in 1 .. m : r[k + n] = s[k + n]) /\ r[m + 1 + n] = f
    BY <1>1, <1>2, <2>2
  <2>6. Append(Behind(s), Plain(f)) =
          [k \in 1 .. m + 1 |-> IF k = m + 1 THEN Plain(f) ELSE Plain(s[k + n])]
    BY <2>3
  <2>7. \A k \in 1 .. m + 1 : Plain(r[k + n]) = IF k = m + 1 THEN Plain(f) ELSE Plain(s[k + n])
    <3>1. \A k \in 1 .. m + 1 : k = m + 1 \/ k \in 1 .. m
      OBVIOUS
    <3> QED BY <2>5, <3>1
  <2> QED BY <2>4, <2>6, <2>7
<1> QED BY <1>3, <1>4, <1>7 DEF r, Ordered

\* A beacon goes behind beacons.
LEMMA AppendBeacon ==
  ASSUME NEW s \in Queues, NEW f \in Frames, f.kind \in {"BEACON", "DONE"}, Len(s) < QueueDepth,
         \A g \in Held(s) : g.kind \in {"BEACON", "DONE"}
  PROVE  Ordered(Append(s, f)) /\ Behind(Append(s, f)) = <<>> /\ Behind(s) = <<>>
<1> DEFINE r == Append(s, f)
<1>1. r \in Queues /\ Len(r) = Len(s) + 1 /\ Len(s) \in Nat
  BY AppendHeld DEF Queues
<1>2. (\A k \in 1 .. Len(s) : r[k] = s[k]) /\ r[Len(s) + 1] = f
  BY DEF Queues
<1>3. \A k \in 1 .. Len(s) : s[k].kind \in {"BEACON", "DONE"}
  BY QueueLen DEF Held
<1> HIDE DEF r
<1>4. SplitAt(s, Len(s))
  BY <1>1, <1>3 DEF SplitAt
<1>5. \A k \in 1 .. Len(s) + 1 : k <= Len(s) + 1 /\ (k \in 1 .. Len(s) \/ k = Len(s) + 1)
  BY <1>1
<1>6. SplitAt(r, Len(r))
  BY <1>1, <1>2, <1>3, <1>5 DEF SplitAt
<1>7. ASSUME NEW t \in Queues, SplitAt(t, Len(t))
      PROVE  Behind(t) = <<>>
  <2>1. Len(t) \in 0 .. Len(t) /\ Len(t) - Len(t) = 0
    BY QueueLen
  <2>2. Behind(t) = [k \in 1 .. 0 |-> Plain(t[k + Len(t)])]
    BY <1>7, <2>1, BehindIs
  <2> QED BY <2>2
<1>8. Len(r) \in 0 .. Len(r)
  BY <1>1
<1>9. Behind(r) = <<>> /\ Behind(s) = <<>> /\ Ordered(r)
  BY <1>1, <1>4, <1>6, <1>7, <1>8 DEF Ordered
<1> QED BY <1>9 DEF r

\* A beacon that is taken leaves what is behind.
LEMMA TailBeacon ==
  ASSUME NEW s \in Queues, Ordered(s), s # <<>>, Head(s).kind \in {"BEACON", "DONE"}
  PROVE  Ordered(Tail(s)) /\ Behind(Tail(s)) = Behind(s)
<1> PICK n \in 0 .. Len(s) : SplitAt(s, n)
  BY DEF Ordered
<1> DEFINE r == Tail(s)
<1>1. r \in Queues /\ Len(r) = Len(s) - 1 /\ Len(s) \in Nat /\ Len(s) > 0
  BY TailHeld DEF Queues
<1>2. (\A k \in 1 .. Len(s) - 1 : r[k] = s[k + 1]) /\ Head(s) = s[1]
  BY DEF Queues
<1> HIDE DEF r
<1>3. n >= 1 
  BY <1>1, <1>2 DEF SplitAt
<1>4. PICK m \in Nat : n = m + 1 /\ m \in 0 .. Len(r)
  <2>1. n - 1 \in Nat /\ n = (n - 1) + 1 /\ n - 1 \in 0 .. Len(r)
    BY <1>1, <1>3
  <2> QED BY <2>1
<1>5. SplitAt(r, m)
  <2> SUFFICES ASSUME NEW k \in 1 .. Len(r)
               PROVE  k <= m <=> r[k].kind \in {"BEACON", "DONE"}
    BY DEF SplitAt
  <2>1. k + 1 \in 1 .. Len(s) /\ r[k] = s[k + 1] /\ (k <= m <=> k + 1 <= n)
    BY <1>1, <1>2, <1>4
  <2> QED BY <2>1 DEF SplitAt
<1>6. Behind(r) = [k \in 1 .. Len(r) - m |-> Plain(r[k + m])]
  BY <1>1, <1>4, <1>5, BehindIs
<1>7. Behind(s) = [k \in 1 .. Len(s) - n |-> Plain(s[k + n])]
  BY BehindIs
<1>8. /\ Len(r) - m = Len(s) - n
      /\ \A k \in 1 .. Len(s) - n : r[k + m] = s[k + n]
  <2>1. \A k \in 1 .. Len(s) - n : k + m \in 1 .. Len(s) - 1 /\ (k + m) + 1 = k + n
    BY <1>1, <1>4
  <2> QED BY <1>1, <1>2, <1>4, <2>1
<1> QED BY <1>4, <1>5, <1>6, <1>7, <1>8 DEF r, Ordered

\* When the first frame is one of an exchange, it is the first behind the beacons.
LEMMA TailExchange ==
  ASSUME NEW s \in Queues, Ordered(s), s # <<>>, Head(s).kind \in {"FIELD", "FIN"}
  PROVE  /\ Ordered(Tail(s)) /\ Behind(s) # <<>>
         /\ Head(Behind(s)) = Plain(Head(s)) /\ Behind(Tail(s)) = Tail(Behind(s))
<1> PICK n \in 0 .. Len(s) : SplitAt(s, n)
  BY DEF Ordered
<1> DEFINE r == Tail(s)
<1>1. r \in Queues /\ Len(r) = Len(s) - 1 /\ Len(s) \in Nat /\ Len(s) > 0
  BY TailHeld DEF Queues
<1>2. (\A k \in 1 .. Len(s) - 1 : r[k] = s[k + 1]) /\ Head(s) = s[1]
  BY DEF Queues
<1> HIDE DEF r
<1>3. n = 0
  BY <1>1, <1>2 DEF SplitAt
<1>4. SplitAt(r, 0)
  <2> SUFFICES ASSUME NEW k \in 1 .. Len(r)
               PROVE  r[k].kind \notin {"BEACON", "DONE"}
    BY DEF SplitAt
  <2>1. k + 1 \in 1 .. Len(s) /\ r[k] = s[k + 1] /\ ~(k + 1 <= 0)
    BY <1>1, <1>2
  <2> QED BY <1>3, <2>1 DEF SplitAt
<1>5. Behind(r) = [k \in 1 .. Len(r) |-> Plain(r[k])]
  <2>1. Behind(r) = [k \in 1 .. Len(r) - 0 |-> Plain(r[k + 0])]
    BY <1>1, <1>4, BehindIs
  <2> QED BY <1>1, <2>1
<1>6. Behind(s) = [k \in 1 .. Len(s) |-> Plain(s[k])]
  <2>1. Behind(s) = [k \in 1 .. Len(s) - 0 |-> Plain(s[k + 0])]
    BY <1>3, BehindIs
  <2> QED BY <1>1, <2>1
<1>7. Behind(s) # <<>> /\ Head(Behind(s)) = Plain(Head(s))
  BY <1>1, <1>2, <1>6
<1>8. Tail(Behind(s)) = [k \in 1 .. Len(s) - 1 |-> Plain(s[k + 1])]
  BY <1>1, <1>6
<1>9. Behind(r) = Tail(Behind(s))
  BY <1>1, <1>2, <1>5, <1>8
<1> QED BY <1>1, <1>4, <1>7, <1>9 DEF r, Ordered

\* There is no more behind the beacons than in the queue.
LEMMA BehindLen ==
  ASSUME NEW s \in Queues, Ordered(s)
  PROVE  Len(Behind(s)) <= Len(s) /\ Len(Behind(s)) \in Nat
<1> PICK n \in 0 .. Len(s) : SplitAt(s, n)
  BY DEF Ordered
<1>1. Behind(s) = [k \in 1 .. Len(s) - n |-> Plain(s[k + n])]
  BY BehindIs
<1>2. Len(s) - n \in Nat /\ Len(s) - n <= Len(s)
  BY QueueLen
<1> QED BY <1>1, <1>2

-----------------------------------------------------------------------------
(* Two badges that boop once. *)

\* The room of the theorems below: two badges, no installation, one session each.
\* More sessions would let the frames of one reach another, and a third party could
\* talk into an exchange (README, section 7).
Meeting ==
  /\ Kiosks = {} /\ MaxSessions <= 1
  /\ \E lo, hi \in Badges : lo < hi /\ Badges = {lo, hi}

\* b has recorded its boop, or is past recording it.
Knows(b) == session[b] > 0 /\ (phase[b] = "BEACONING" => recorded[b])

\* Who is past its beacons sends no more of them, and what b hears, and how far it
\* got, says how far the other badge is.
Paired(b) ==
  /\ ended[b] # "none" => session[b] > 0
  /\ Ordered(inbox[b])
  /\ \A f \in Held(inbox[b]) : /\ f.kind \in {"FIELD", "FIN"} => Begun(f.from)
                               /\ f.kind # "BEACON" => Knows(f.from)
  /\ (phase[b] = "BEACONING" /\ peerDone[b]) \/ Begun(b) =>
       \A c \in Badges \ {b} : Knows(c)

\* In a meeting everybody is one of two.
LEMMA MeetingFacts ==
  ASSUME Meeting
  PROVE  /\ Duo /\ Steady /\ Parties = Badges
         /\ \A b \in Badges : \E c \in Badges : c # b /\ Badges = {b, c}
<1> PICK lo, hi \in Badges : lo < hi /\ Badges = {lo, hi}
  BY DEF Meeting
<1>1. lo # hi /\ Parties = Badges
  BY PartiesAssumption DEF Meeting, Parties
<1>2. \A b \in Badges : \E c \in Badges : c # b /\ Badges = {b, c}
  BY <1>1
<1>3. Duo
  BY <1>1 DEF Duo
<1> QED BY <1>1, <1>2, <1>3 DEF Steady

\* What no step but the start of a session undoes.
LEMMA Forward ==
  ASSUME IInv, NEW b \in Badges, Step(b), ~Start(b)
  PROVE  /\ session'[b] = session[b]
         /\ phase'[b] = "BEACONING" =>
              phase[b] = "BEACONING" /\ (recorded[b] => recorded'[b])
         /\ ended'[b] # "none" => Begun(b)
         /\ Begun(b) => Begun(b)'
         /\ (phase'[b] = "BEACONING" /\ peerDone'[b]) \/ Begun(b)' =>
              \/ (phase[b] = "BEACONING" /\ peerDone[b]) \/ Begun(b)
              \/ \E f \in Held(inbox[b]) : f.kind # "BEACON"
<1> USE DEF Set, Goto, core1, link
<1> DEFINE Goal ==
         /\ session'[b] = session[b]
         /\ phase'[b] = "BEACONING" =>
              phase[b] = "BEACONING" /\ (recorded[b] => recorded'[b])
         /\ ended'[b] # "none" => Begun(b)
         /\ Begun(b) => Begun(b)'
         /\ (phase'[b] = "BEACONING" /\ peerDone'[b]) \/ Begun(b)' =>
              \/ (phase[b] = "BEACONING" /\ peerDone[b]) \/ Begun(b)
              \/ \E f \in Held(inbox[b]) : f.kind # "BEACON"
<1>1. CASE User(b)
  BY <1>1 DEF User, PressBoop, PressCancel, PressAgain, LeaveScreen, SmReset, IInv, Types,
     Begun, Terminal
<1>2. CASE HandleCancel(b)
  BY <1>2 DEF HandleCancel, IInv, Types, Begun
<1>3. CASE IdleDrain(b) \/ ListenTimeout(b) \/ IgnoreFrame(b)
  BY <1>3 DEF IdleDrain, ListenTimeout, IgnoreFrame, Begun
<1>4. CASE TerminalExpires(b)
  BY <1>4 DEF TerminalExpires, IInv, Types, Begun, Terminal
<1>5. CASE BeaconNotDue(b)
  BY <1>5 DEF BeaconNotDue, AtTick, IInv, Types, Begun
<1>6. CASE HearBeacon(b)
  <2>1. Head(inbox[b]) \in Held(inbox[b])
    BY <1>6, TakenFacts DEF HearBeacon, IInv, Types
  <2>2. phase[b] = "BEACONING" /\ UNCHANGED <<phase, recorded, session, ended>>
    BY <1>6 DEF HearBeacon, IInv, Session
  <2>3. peerDone'[b] => peerDone[b] \/ Head(inbox[b]).kind = "DONE"
    BY <1>6 DEF HearBeacon, IInv, Types
  <2> QED BY <2>1, <2>2, <2>3 DEF Begun
<1>7. CASE HearExchangeFrame(b)
  <2>1. Head(inbox[b]) \in Held(inbox[b]) /\ Head(inbox[b]).kind # "BEACON"
    BY <1>7, TakenFacts DEF HearExchangeFrame, IInv, Types
  <2>2. phase[b] = "BEACONING" /\ UNCHANGED <<phase, session, ended>> /\ recorded'[b]
    BY <1>7 DEF HearExchangeFrame, IInv, Types, Session
  <2> QED BY <2>1, <2>2 DEF Begun
<1>8. CASE ExchangeTimeout(b)
  <2>1. phase'[b] \in {"PAIRED_OK", "FAILED"} /\ ended'[b] = "left" /\ session' = session
        /\ phase[b] = "EXCHANGE"
    BY <1>8, FinishFacts DEF ExchangeTimeout, AtTick, IInv, Types
  <2> QED BY <2>1 DEF Begun
<1>9. ASSUME NEW heard \in Audience(b), BeaconTx(b, heard) PROVE Goal
  <2>1. /\ phase[b] = "BEACONING" /\ ended[b] = "none"
        /\ UNCHANGED <<session, peerDone, ended>>
        /\ recorded'[b] = (recorded[b] \/ ThresholdMet(b))
    BY <1>9 DEF BeaconTx, AtTick, IInv, Types, Session
  <2>2. phase'[b] = "EXCHANGE" => peerDone[b]
    BY <1>9, <2>1 DEF BeaconTx
  <2> QED BY <2>1, <2>2 DEF Begun
<1>10. ASSUME NEW heard \in Audience(b), HandleField(b, heard) \/ HandleFin(b, heard)
       PROVE  Goal
  <2>1. phase[b] = "EXCHANGE" /\ UNCHANGED <<phase, session, ended>>
    BY <1>10 DEF HandleField, HandleFin, InExchange
  <2> QED BY <2>1 DEF Begun
<1>11. ASSUME NEW heard \in Audience(b), EndTick(b, heard) PROVE Goal
  <2>1. Ends(b)
    BY <1>11, EndTickFacts
  <2>2. CASE Completed(xchg'[b])
    <3>0. PICK y \in ExchangeState : y = xchg'[b]
      BY <2>1 DEF Ends
    <3>1. FinishPaired(b, y) /\ phase[b] = "EXCHANGE" /\ Set(ended, b, "done")
      BY <2>1, <2>2, <3>0 DEF Ends
    <3>2. phase'[b] \in {"PAIRED_OK", "FAILED"} /\ ended'[b] = "done" /\ session' = session
      BY <2>1, <3>1, FinishFacts DEF Ends, IInv, Types
    <3> QED BY <3>1, <3>2 DEF Begun
  <2>3. CASE ~Completed(xchg'[b])
    <3>1. phase[b] = "EXCHANGE" /\ UNCHANGED <<phase, session, ended>>
      BY <2>1, <2>3 DEF Ends
    <3> QED BY <3>1 DEF Begun
  <2> QED BY <2>2, <2>3
<1> QED
  BY <1>1, <1>2, <1>3, <1>4, <1>5, <1>6, <1>7, <1>8, <1>9, <1>10, <1>11
     DEF Step, Quiet, Loud

\* The one session starts when nothing is known yet, and nobody can have heard of b.
LEMMA FirstStart ==
  ASSUME IInv, Meeting, NEW b \in Badges, Paired(b), Start(b)
  PROVE  /\ session[b] = 0 /\ ~Begun(b) /\ ~Knows(b)
         /\ ~Begun(b)' /\ phase'[b] = "BEACONING" /\ ~peerDone'[b]
         /\ ended'[b] = "none" /\ inbox' = inbox
<1>1. session[b] < MaxSessions /\ session[b] \in Nat /\ MaxSessions \in Nat /\ MaxSessions <= 1
  BY Constants DEF Start, IInv, Types, Session, Meeting
<1>2. session[b] = 0
  BY <1>1
<1>3. ended[b] = "none" /\ phase[b] = "IDLE"
  BY <1>2 DEF Start, AtTick, Paired
<1>4. phase'[b] = "BEACONING" /\ ~peerDone'[b] /\ ended'[b] = "none" /\ inbox' = inbox
  BY DEF Start, Set, IInv, Types
<1> QED BY <1>2, <1>3, <1>4 DEF Begun, Knows

\* What is known stays known.
LEMMA KnownStays ==
  ASSUME IInv, Meeting, \A c \in Badges : Paired(c), NEW b \in Badges, Step(b),
         NEW c \in Badges
  PROVE  (Begun(c) => Begun(c)') /\ (Knows(c) => Knows(c)')
<1>1. CASE c # b
  <2>1. Own(c)' = Own(c)
    BY <1>1, OthersStay DEF IInv, Typed
  <2> QED BY <2>1 DEF Own, Begun, Knows
<1>2. CASE c = b /\ Start(b)
  BY <1>2, FirstStart
<1>3. CASE c = b /\ ~Start(b)
  BY <1>3, Forward DEF Knows
<1> QED BY <1>1, <1>2, <1>3

\* What comes into the queue of c: nothing, or one frame at the end, which b sends.
LEMMA NewFrame ==
  ASSUME IInv, Meeting, NEW b \in Badges, Step(b), NEW c \in Badges
  PROVE  \/ inbox'[c] = inbox[c] \/ inbox'[c] = <<>>
         \/ c = b /\ inbox[b] # <<>> /\ inbox'[c] = Tail(inbox[b])
         \/ /\ c # b /\ Len(inbox[c]) < QueueDepth
            /\ \E f \in Sent(b) : /\ inbox'[c] = Append(inbox[c], f)
                                  /\ f.kind = "DONE" => recorded'[b]
<1>0. inbox \in [Badges -> Queues]
  BY DEF IInv, Types
<1>1. CASE inbox' = inbox
  BY <1>1
<1>2. CASE inbox[b] # <<>> /\ inbox' = Taken(b)
  BY <1>0, <1>2 DEF Taken
<1>3. CASE inbox' = [inbox EXCEPT ![b] = <<>>]
  BY <1>0, <1>3
<1>4. CASE Airs(b)
  <2>1. PICK f \in Sent(b), heard \in Audience(b) :
          Airing(b, f, heard) /\ (f.kind = "DONE" => recorded'[b])
    BY <1>4 DEF Airs
  <2>2. b \notin heard
    BY DEF Audience
  <2>3. CASE inbox' = Broadcast(inbox, f, heard)
    BY <1>0, <2>1, <2>2, <2>3 DEF Broadcast
  <2>4. CASE inbox[b] # <<>> /\ inbox' = Broadcast(Taken(b), f, heard)
    <3>1. Taken(b)[b] = Tail(inbox[b]) /\ (c # b => Taken(b)[c] = inbox[c])
      BY <1>0 DEF Taken
    <3>2. inbox'[c] = IF c \in heard /\ Len(Taken(b)[c]) < QueueDepth
                        THEN Append(Taken(b)[c], f) ELSE Taken(b)[c]
      BY <2>4 DEF Broadcast
    <3> QED BY <2>1, <2>2, <2>4, <3>1, <3>2
  <2> QED BY <2>1, <2>3, <2>4 DEF Airing
<1> QED BY <1>1, <1>2, <1>3, <1>4, InboxCases

\* Taking a frame leaves the beacons first.
LEMMA TailOrdered ==
  ASSUME NEW s \in Queues, Ordered(s), s # <<>>
  PROVE  Ordered(Tail(s))
<1>1. Head(s).kind \in {"BEACON", "DONE", "FIELD", "FIN"}
  BY TailHeld DEF Frames, Kinds
<1> QED BY <1>1, TailBeacon, TailExchange

\* The queue of a badge stays ordered, and its frames stay true.
LEMMA QueueStep ==
  ASSUME IInv, Meeting, \A c \in Badges : Paired(c), NEW b \in Badges, Step(b),
         NEW c \in Badges
  PROVE  /\ Ordered(inbox'[c])
         /\ \A f \in Held(inbox'[c]) : /\ f.kind \in {"FIELD", "FIN"} => Begun(f.from)'
                                       /\ f.kind # "BEACON" => Knows(f.from)'
<1>0. inbox[c] \in Queues /\ Ordered(inbox[c])
  BY DEF IInv, Types, Paired
<1>1. ASSUME NEW f \in Held(inbox[c])
      PROVE  /\ f.kind \in {"FIELD", "FIN"} => Begun(f.from)'
             /\ f.kind # "BEACON" => Knows(f.from)'
  <2>1. f.from \in Badges
    BY MeetingFacts DEF IInv, FramesFor, Frames
  <2> QED BY <2>1, KnownStays DEF Paired
<1>2. CASE inbox'[c] = inbox[c]
  BY <1>0, <1>1, <1>2
<1>3. CASE inbox'[c] = <<>>
  BY <1>3, BehindNothing DEF Held
<1>4. CASE c = b /\ inbox[b] # <<>> /\ inbox'[c] = Tail(inbox[b])
  <2>1. Ordered(Tail(inbox[b])) /\ Held(Tail(inbox[b])) \subseteq Held(inbox[b])
    BY <1>0, <1>4, TailOrdered, TailHeld
  <2> QED BY <1>1, <1>4, <2>1
<1>5. ASSUME c # b, Len(inbox[c]) < QueueDepth, NEW f \in Sent(b),
             inbox'[c] = Append(inbox[c], f), f.kind = "DONE" => recorded'[b]
      PROVE  /\ Ordered(inbox'[c])
             /\ \A g \in Held(inbox'[c]) : /\ g.kind \in {"FIELD", "FIN"} => Begun(g.from)'
                                           /\ g.kind # "BEACON" => Knows(g.from)'
  <2>1. f \in Frames /\ f.from = b /\ f.kind \in Kinds
    BY DEF Sent, Frames
  <2>2. Held(inbox'[c]) \subseteq Held(inbox[c]) \cup {f}
    BY <1>0, <1>5, <2>1, AppendHeld
  <2>3. CASE f.kind \in {"FIELD", "FIN"}
    <3>1. phase[b] = "EXCHANGE"
      BY <2>3 DEF Sent
    <3>2. session[b] > 0
      BY <3>1 DEF IInv, Session
    <3>3. Begun(b) /\ Knows(b)
      BY <3>1, <3>2 DEF Begun, Knows
    <3>4. Begun(b)' /\ Knows(b)'
      BY <3>3, KnownStays
    <3>5. Ordered(inbox'[c])
      BY <1>0, <1>5, <2>1, <2>3, AppendExchange
    <3> QED BY <1>1, <2>1, <2>2, <3>4, <3>5
  <2>4. CASE f.kind \in {"BEACON", "DONE"}
    <3>1. phase[b] = "BEACONING"
      BY <2>4 DEF Sent
    <3>2. ~Begun(b) /\ session[b] > 0
      BY <3>1 DEF Begun, IInv, Session
    <3>3. ~Start(b)
      BY <3>1 DEF Start, AtTick
    <3>4. f.kind = "DONE" => Knows(b)'
      BY <1>5, <3>2, <3>3, Forward DEF Knows
    <3>5. ASSUME NEW g \in Held(inbox[c]) PROVE g.kind \in {"BEACON", "DONE"}
      <4>1. g.from = b /\ g.kind \in Kinds
        BY <1>5, MeetingFacts DEF IInv, FramesFor, Frames
      <4> QED BY <3>2, <4>1 DEF Paired, Kinds
    <3>6. Ordered(inbox'[c])
      BY <1>0, <1>5, <2>1, <2>4, <3>5, AppendBeacon
    <3> QED BY <1>1, <2>1, <2>2, <2>4, <3>4, <3>6
  <2> QED BY <2>1, <2>3, <2>4 DEF Kinds
<1> QED BY <1>2, <1>3, <1>4, <1>5, NewFrame

\* A step of one of the two badges.
LEMMA PairedStep ==
  ASSUME IInv, Meeting, \A c \in Badges : Paired(c), NEW b \in Badges, Step(b),
         NEW c \in Badges
  PROVE  Paired(c)'
<1>1. /\ Ordered(inbox'[c])
      /\ \A f \in Held(inbox'[c]) : /\ f.kind \in {"FIELD", "FIN"} => Begun(f.from)'
                                    /\ f.kind # "BEACON" => Knows(f.from)'
  BY QueueStep
<1>2. \A d \in Badges : Knows(d) => Knows(d)'
  BY KnownStays
<1>3. /\ ended'[c] # "none" => session'[c] > 0
      /\ (phase'[c] = "BEACONING" /\ peerDone'[c]) \/ Begun(c)' =>
            \A d \in Badges \ {c} : Knows(d)
  <2>1. CASE c # b
    <3>1. Own(c)' = Own(c)
      BY <2>1, OthersStay DEF IInv, Typed
    <3> QED BY <3>1 DEF Own, Begun, Paired
  <2>2. CASE c = b /\ Start(b)
    BY <2>2, FirstStart
  <2>3. CASE c = b /\ ~Start(b)
    <3>1. (\E f \in Held(inbox[b]) : f.kind # "BEACON") => \A d \in Badges \ {b} : Knows(d)
      <4> SUFFICES ASSUME NEW f \in Held(inbox[b]), f.kind # "BEACON", NEW d \in Badges \ {b}
                   PROVE  Knows(d)
        OBVIOUS
      <4>1. f.from = d
        BY MeetingFacts DEF IInv, FramesFor, Frames
      <4> QED BY <4>1 DEF Paired
    <3>2. Begun(b) => session[b] > 0
      BY DEF Begun, Paired, IInv, Session
    <3> QED BY <2>3, <3>1, <3>2, Forward DEF Paired
  <2> QED BY <2>1, <2>2, <2>3
<1> QED BY <1>1, <1>2, <1>3 DEF Paired

\* At boot nothing is known and nothing has been said.
LEMMA PairedInit == Init => \A b \in Badges : Paired(b)
  BY BehindNothing DEF Init, Paired, Begun, Held

\* Without installations every step is a badge's, or none.
LEMMA PairedInv ==
  ASSUME IInv, Meeting, \A b \in Badges : Paired(b), [Next]_vars
  PROVE  \A b \in Badges : Paired(b)'
<1>1. CASE UNCHANGED vars
  BY <1>1 DEF vars, core1, link, Paired, Begun, Knows
<1>2. CASE \E b \in Badges : Step(b)
  BY <1>2, PairedStep
<1> QED BY <1>1, <1>2, NextIsStep DEF Meeting

\* The type that was read is the one a badge sends.
TypeKept(b) == peer[b] \in Badges => type[b] = "PEER"

\* A first frame that is one of an exchange would be read as an installation's; but
\* by then its sender has heard b's DONE, and b has counted a beacon.
LEMMA TypeStep ==
  ASSUME IInv, Meeting, ~Wraps, NEW b \in Badges, Single(b), TypeKept(b),
         \A c \in Badges : Paired(c), Step(b)
  PROVE  TypeKept(b)'
<1> USE DEF Set, Goto, core1, link
<1>1. CASE peer'[b] = peer[b] /\ type'[b] = type[b]
  BY <1>1 DEF TypeKept
<1>2. CASE Start(b) \/ TerminalExpires(b)
  <2>1. peer'[b] = Nobody
    BY <1>2 DEF Start, TerminalExpires, IInv, Types
  <2>2. Nobody \notin Badges
    BY PartiesAssumption
  <2> QED BY <2>1, <2>2 DEF TypeKept
<1>3. CASE HearBeacon(b)
  <2> DEFINE f == Head(inbox[b])
  <2>1. f \in FramesFor(b) /\ UnpackPeer(b, f) /\ f.kind \in {"BEACON", "DONE"}
    BY <1>3, HeadFacts DEF HearBeacon
  <2>2. f.from \in Badges
    BY <2>1, MeetingFacts DEF FramesFor, Frames
  <2>3. TypeByte(f) = "PEER"
    BY <2>1, <2>2 DEF TypeByte
  <2> QED BY <2>1, <2>3, <1>1 DEF UnpackPeer, IInv, Types, TypeKept
<1>4. CASE HearExchangeFrame(b)
  <2> DEFINE f == Head(inbox[b])
  <2>1. f \in Held(inbox[b]) /\ f.kind \in {"FIELD", "FIN"} /\ UnpackPeer(b, f)
        /\ phase[b] = "BEACONING"
    BY <1>4, TakenFacts DEF HearExchangeFrame, IInv, Types, Session
  <2>2. f.from \in Badges \ {b} /\ Begun(f.from)
    BY <2>1 DEF IInv, FramesFor, Paired
  <2>3. recorded[b]
    BY <2>1, <2>2 DEF Paired, Knows
  <2>4. rx[b] = 1
    BY <2>1, <2>3 DEF Single
  <2> QED BY <2>1, <2>4, <1>1 DEF UnpackPeer
<1> QED BY <1>1, <1>2, <1>3, <1>4, TypeStays

\* What is kept of both badges.
Both == \A b \in Badges : Single(b) /\ Paired(b)

\* Both hold at boot.
LEMMA BothInit == Init => Both
  BY SingleInit, PairedInit DEF Both

\* Every step keeps them.
LEMMA BothInv == IInv /\ Meeting /\ Both /\ [Next]_vars => Both'
  BY SingleInv, PairedInv, MeetingFacts DEF Both

\* A badge is never taken for an installation, when the two meet once and no counter
\* wraps.  With a second session, or a wrap, that fails (see MisreadHasBooped).
THEOREM TypesArePeers ==
  ASSUME Meeting, ~Wraps
  PROVE  Spec => [](\A b \in Badges : TypeKept(b))
<1> DEFINE T == \A b \in Badges : TypeKept(b)
<1>1. Init => Both /\ T
  <2>1. Init => T
    BY Constants DEF Init, TypeKept
  <2> QED BY <2>1, BothInit
<1>2. IInv /\ Both /\ T /\ [Next]_vars => Both' /\ T'
  <2> SUFFICES ASSUME IInv, Both, T, [Next]_vars PROVE Both' /\ T'
    OBVIOUS
  <2>1. Both'
    BY BothInv
  <2>2. ASSUME NEW b \in Badges, Step(b), NEW c \in Badges PROVE TypeKept(c)'
    <3>1. CASE c = b
      BY <2>2, <3>1, TypeStep DEF Both
    <3>2. CASE c # b
      <4>1. Own(c)' = Own(c)
        BY <2>2, <3>2, OthersStay DEF IInv, Typed
      <4> QED BY <4>1 DEF Own, TypeKept
    <3> QED BY <3>1, <3>2
  <2>3. CASE UNCHANGED vars
    BY <2>1, <2>3 DEF vars, link, TypeKept
  <2> QED BY <2>1, <2>2, <2>3, NextIsStep DEF Meeting
<1>3. T => \A b \in Badges : TypeKept(b)
  OBVIOUS
<1> HIDE DEF T
<1> QED BY <1>1, <1>2, <1>3, InvHolds, PTL DEF Spec

-----------------------------------------------------------------------------
(* The exchange of two badges is the one of PingPong. *)

\* The sides of the abstract exchange.
Sides == {"pri", "sec"}

\* The other side.
Across(s) == IF s = "pri" THEN "sec" ELSE "pri"

\* The badge with the smaller UID is "pri".
LEMMA SideFacts ==
  ASSUME Meeting
  PROVE  /\ Side("pri") \in Badges /\ Side("sec") \in Badges
         /\ Side("pri") < Side("sec") /\ Side("pri") # Side("sec")
         /\ Badges = {Side("pri"), Side("sec")}
<1> PICK lo, hi \in Badges : lo < hi /\ Badges = {lo, hi}
  BY DEF Meeting
<1>0. lo \in Nat /\ hi \in Nat
  BY PartiesAssumption
<1>1. Min(Badges) = lo
  <2>1. \A y \in Badges : lo <= y
    BY <1>0
  <2>2. \A x \in Badges : (\A y \in Badges : x <= y) => x = lo
    BY <1>0
  <2> QED BY <2>1, <2>2 DEF Min
<1>2. Max(Badges) = hi
  <2>1. \A y \in Badges : hi >= y
    BY <1>0
  <2>2. \A x \in Badges : (\A y \in Badges : x >= y) => x = hi
    BY <1>0
  <2> QED BY <2>1, <2>2 DEF Max
<1> QED BY <1>0, <1>1, <1>2 DEF Side

\* The operators of the exchange are the same in the abstract exchange.
LEMMA SameOperators ==
  /\ \A y : /\ Pair!CanAdvance(y) = CanAdvance(y) /\ Pair!Advanced(y) = Advanced(y)
            /\ Pair!CanSendField(y) = CanSendField(y)
            /\ Pair!AfterSendField(y) = AfterSendField(y)
            /\ Pair!CanSendDone(y) = CanSendDone(y) /\ Pair!AfterSendDone(y) = AfterSendDone(y)
            /\ Pair!AnswersDone(y) = AnswersDone(y) /\ Pair!AfterDone(y) = AfterDone(y)
            /\ Pair!Completed(y) = Completed(y)
            /\ \A i : Pair!AfterField(y, i) = AfterField(y, i)
            /\ \A mine : Pair!CanSkip(y, mine) = CanSkip(y, mine)
  BY DEF Pair!CanAdvance, CanAdvance, Pair!Advanced, Advanced, Pair!CanSendField, CanSendField,
         Pair!AfterSendField, AfterSendField, Pair!CanSendDone, CanSendDone,
         Pair!AfterSendDone, AfterSendDone, Pair!AnswersDone, AnswersDone, Pair!AfterDone,
         AfterDone, Pair!Completed, Completed, Pair!AfterField, AfterField, Pair!CanSkip,
         CanSkip, Pair!Walking, Walking, Pair!PeerSent, PeerSent

\* The steps of the abstract exchange, in the terms of this module.
LEMMA PairSteps ==
  ASSUME NEW s \in Sides, NEW h \in BOOLEAN
  PROVE
  /\ /\ PairStage[s] # "open" /\ PairQueue[s] # <<>> /\ UNCHANGED <<PairX, PairStage>>
     /\ \/ PairQueue' = [PairQueue EXCEPT ![s] = Tail(@)]
        \/ PairQueue' = [PairQueue EXCEPT ![s] = <<>>]
     => Pair!Next
  /\ /\ PairStage[s] = "beaconing" /\ UNCHANGED <<PairX, PairQueue>>
     /\ PairStage' = [PairStage EXCEPT ![s] = "open"]
     => Pair!Next
  /\ /\ PairStage[s] = "open" /\ UNCHANGED <<PairX, PairQueue>>
     /\ PairStage' = [PairStage EXCEPT ![s] = "left"]
     => Pair!Next
<1> USE DEF Sides, Pair!Sides
<1>1. ASSUME PairStage[s] # "open", PairQueue[s] # <<>>, UNCHANGED <<PairX, PairStage>>,
             \/ PairQueue' = [PairQueue EXCEPT ![s] = Tail(@)]
             \/ PairQueue' = [PairQueue EXCEPT ![s] = <<>>]
      PROVE  Pair!Next
  <2>1. Pair!Drop(s) \/ Pair!TearDown(s)
    BY <1>1 DEF Pair!Drop, Pair!TearDown, Pair!Take
  <2> QED BY <2>1 DEF Pair!Next
<1>2. ASSUME PairStage[s] = "beaconing", UNCHANGED <<PairX, PairQueue>>,
             PairStage' = [PairStage EXCEPT ![s] = "open"]
      PROVE  Pair!Next
  <2>1. Pair!Enter(s)
    BY <1>2 DEF Pair!Enter
  <2> QED BY <2>1 DEF Pair!Next
<1>3. ASSUME PairStage[s] = "open", UNCHANGED <<PairX, PairQueue>>,
             PairStage' = [PairStage EXCEPT ![s] = "left"]
      PROVE  Pair!Next
  <2>1. Pair!Leave(s)
    BY <1>3 DEF Pair!Leave
  <2> QED BY <2>1 DEF Pair!Next
<1> QED BY <1>1, <1>2, <1>3

\* What a queue of the abstract exchange gains.
Gains(queue, f, h) == IF h THEN Append(queue, Plain(f)) ELSE queue

\* Frames, and what a queue offered one becomes, are the same in the abstract exchange.
LEMMA SameFrames ==
  /\ \A b, i : Plain(FieldOf(b, i)) = Pair!Field(i)
  /\ \A b : Plain(Message(b, "FIN")) = Pair!Done
  /\ \A s \in Sides : Pair!Other(s) = Across(s)
  /\ \A queue, f : \A h \in BOOLEAN : (h => Len(queue) < QueueDepth) =>
       Pair!Offered(queue, Plain(f), h) = Gains(queue, f, h)
  BY DEF Plain, FieldOf, Message, Pair!Field, Pair!Done, Pair!Other, Across, Pair!Offered, Gains

\* A FIELD that is handled, and perhaps answered.
LEMMA PairHandlesField ==
  ASSUME NEW s \in Sides, NEW h \in BOOLEAN, PairStage[s] = "open", PairQueue[s] # <<>>,
         PairStage' = PairStage, h => Len(PairQueue[Across(s)]) < QueueDepth,
         NEW b \in Badges, NEW i,
         Head(PairQueue[s]).kind = "FIELD", Head(PairQueue[s]).tag = i,
         PairX' = [PairX EXCEPT ![s] = AfterField(PairX[s], i)],
         PairQueue' = IF PairX[s].primary THEN [PairQueue EXCEPT ![s] = Tail(@)]
                      ELSE [PairQueue EXCEPT ![s] = Tail(@),
                                             ![Across(s)] = Gains(@, FieldOf(b, i), h)]
  PROVE  Pair!Next
<1> USE DEF Sides, Pair!Sides
<1>0. /\ Pair!Other(s) = Across(s) /\ Plain(FieldOf(b, i)) = Pair!Field(i)
      /\ Pair!Offered(PairQueue[Across(s)], Pair!Field(i), h) =
           Gains(PairQueue[Across(s)], FieldOf(b, i), h)
  <2>1. Pair!Other(s) = Across(s) /\ Plain(FieldOf(b, i)) = Pair!Field(i)
    BY SameFrames
  <2>2. Pair!Offered(PairQueue[Across(s)], Plain(FieldOf(b, i)), h) =
          Gains(PairQueue[Across(s)], FieldOf(b, i), h)
    BY SameFrames
  <2> QED BY <2>1, <2>2
<1>2. ~PairX[s].primary => Pair!TakeAndSend(s, Pair!Field(i), h)
  BY <1>0 DEF Pair!TakeAndSend, Across
<1>3. Pair!HandleField(s, h)
  BY <1>2, SameOperators DEF Pair!HandleField, Pair!Receiving, Pair!Take
<1> QED BY <1>3 DEF Pair!Next, Pair!Handle

\* A FIN that is handled, and perhaps answered.
LEMMA PairHandlesFin ==
  ASSUME NEW s \in Sides, NEW h \in BOOLEAN, PairStage[s] = "open", PairQueue[s] # <<>>,
         PairStage' = PairStage, h => Len(PairQueue[Across(s)]) < QueueDepth,
         NEW b \in Badges, Head(PairQueue[s]).kind = "FIN",
         PairX' = [PairX EXCEPT ![s] = AfterDone(PairX[s])],
         PairQueue' = IF AnswersDone(PairX[s])
           THEN [PairQueue EXCEPT ![s] = Tail(@),
                                  ![Across(s)] = Gains(@, Message(b, "FIN"), h)]
           ELSE [PairQueue EXCEPT ![s] = Tail(@)]
  PROVE  Pair!Next
<1> USE DEF Sides, Pair!Sides
<1>0. /\ Pair!Other(s) = Across(s) /\ Plain(Message(b, "FIN")) = Pair!Done
      /\ Pair!Offered(PairQueue[Across(s)], Pair!Done, h) =
           Gains(PairQueue[Across(s)], Message(b, "FIN"), h)
  <2>1. Pair!Other(s) = Across(s) /\ Plain(Message(b, "FIN")) = Pair!Done
    BY SameFrames
  <2>2. Pair!Offered(PairQueue[Across(s)], Plain(Message(b, "FIN")), h) =
          Gains(PairQueue[Across(s)], Message(b, "FIN"), h)
    BY SameFrames
  <2> QED BY <2>1, <2>2
<1>2. AnswersDone(PairX[s]) => Pair!TakeAndSend(s, Pair!Done, h)
  BY <1>0 DEF Pair!TakeAndSend, Across
<1>3. Pair!HandleDone(s, h)
  BY <1>2, SameOperators DEF Pair!HandleDone, Pair!Receiving, Pair!Take
<1> QED BY <1>3 DEF Pair!Next, Pair!Handle

\* The ways for a tick to end, in the abstract exchange.
LEMMA PairTicks ==
  ASSUME NEW s \in Sides, NEW h \in BOOLEAN, PairStage[s] = "open", NEW y,
         PairX' = [PairX EXCEPT ![s] = y],
         PairStage' = [PairStage EXCEPT ![s] = IF Completed(y) THEN "done" ELSE @],
         h => Len(PairQueue[Across(s)]) < QueueDepth, NEW b \in Badges
  PROVE
  /\ /\ PairQueue' = PairQueue
     /\ \/ CanAdvance(PairX[s]) /\ y = Advanced(PairX[s])
        \/ CanSkip(PairX[s], PairCard[s]) /\ y = Advanced(PairX[s])
        \/ Completed(PairX[s]) /\ y = PairX[s]
     => Pair!Next
  /\ /\ CanSendField(PairX[s]) /\ y = AfterSendField(PairX[s])
     /\ PairQueue' = [PairQueue EXCEPT ![Across(s)] =
                        Gains(@, FieldOf(b, PairX[s].cursor), h)]
     => Pair!Next
  /\ /\ CanSendDone(PairX[s]) /\ y = AfterSendDone(PairX[s])
     /\ PairQueue' = [PairQueue EXCEPT ![Across(s)] = Gains(@, Message(b, "FIN"), h)]
     => Pair!Next
<1> USE DEF Sides, Pair!Sides
<1>2. ASSUME CanAdvance(PairX[s]) \/ CanSkip(PairX[s], PairCard[s]),
             y = Advanced(PairX[s]), PairQueue' = PairQueue
      PROVE  Pair!Next
  <2>1. Pair!Advance(s) \/ Pair!Skip(s)
    BY <1>2, SameOperators DEF Pair!Advance, Pair!Skip, Pair!Ticking, Pair!Become
  <2> QED BY <2>1 DEF Pair!Next, Pair!Tick
<1>3. ASSUME Completed(PairX[s]), y = PairX[s], PairQueue' = PairQueue
      PROVE  Pair!Next
  <2>1. Pair!Complete(s)
    BY <1>3, SameOperators DEF Pair!Complete, Pair!Ticking, Pair!Become
  <2> QED BY <2>1 DEF Pair!Next, Pair!Tick
<1>4. ASSUME CanSendField(PairX[s]), y = AfterSendField(PairX[s]),
             PairQueue' = [PairQueue EXCEPT ![Across(s)] =
                             Gains(@, FieldOf(b, PairX[s].cursor), h)]
      PROVE  Pair!Next
  <2>0. /\ Pair!Other(s) = Across(s)
        /\ Plain(FieldOf(b, PairX[s].cursor)) = Pair!Field(PairX[s].cursor)
        /\ Pair!Offered(PairQueue[Across(s)], Pair!Field(PairX[s].cursor), h) =
             Gains(PairQueue[Across(s)], FieldOf(b, PairX[s].cursor), h)
    <3>1. /\ Pair!Other(s) = Across(s)
          /\ Plain(FieldOf(b, PairX[s].cursor)) = Pair!Field(PairX[s].cursor)
      BY SameFrames
    <3>2. Pair!Offered(PairQueue[Across(s)], Plain(FieldOf(b, PairX[s].cursor)), h) =
            Gains(PairQueue[Across(s)], FieldOf(b, PairX[s].cursor), h)
      BY SameFrames
    <3> QED BY <3>1, <3>2
  <2>1. Pair!Send(s, Pair!Field(PairX[s].cursor), h)
    BY <1>4, <2>0 DEF Pair!Send
  <2>2. Pair!SendField(s, h)
    BY <1>4, <2>1, SameOperators DEF Pair!SendField, Pair!Ticking, Pair!Become
  <2> QED BY <2>2 DEF Pair!Next
<1>5. ASSUME CanSendDone(PairX[s]), y = AfterSendDone(PairX[s]),
             PairQueue' = [PairQueue EXCEPT ![Across(s)] = Gains(@, Message(b, "FIN"), h)]
      PROVE  Pair!Next
  <2>0. /\ Pair!Other(s) = Across(s) /\ Plain(Message(b, "FIN")) = Pair!Done
        /\ Pair!Offered(PairQueue[Across(s)], Pair!Done, h) =
             Gains(PairQueue[Across(s)], Message(b, "FIN"), h)
    <3>1. Pair!Other(s) = Across(s) /\ Plain(Message(b, "FIN")) = Pair!Done
      BY SameFrames
    <3>2. Pair!Offered(PairQueue[Across(s)], Plain(Message(b, "FIN")), h) =
            Gains(PairQueue[Across(s)], Message(b, "FIN"), h)
      BY SameFrames
    <3> QED BY <3>1, <3>2
  <2>1. Pair!Send(s, Pair!Done, h)
    BY <1>5, <2>0 DEF Pair!Send
  <2>2. Pair!SendDone(s, h)
    BY <1>5, <2>1, SameOperators DEF Pair!SendDone, Pair!Ticking, Pair!Become
  <2> QED BY <2>2 DEF Pair!Next
<1> QED BY <1>2, <1>3, <1>4, <1>5

\* The two sides as badges.
LEMMA SidesOf ==
  ASSUME Meeting, NEW s \in Sides
  PROVE  /\ Side(s) \in Badges /\ Side(Across(s)) \in Badges /\ Across(s) \in Sides
         /\ Side(Across(s)) # Side(s) /\ Across(s) # s /\ Across(Across(s)) = s
         /\ Sides = {s, Across(s)} /\ Badges = {Side(s), Side(Across(s))}
         /\ (Side(s) < Side(Across(s))) = (s = "pri")
<1>0. Side("pri") \in Nat /\ Side("sec") \in Nat
  BY SideFacts, PartiesAssumption
<1>1. CASE s = "pri"
  BY <1>0, <1>1, SideFacts DEF Sides, Across
<1>2. CASE s = "sec"
  BY <1>0, <1>2, SideFacts DEF Sides, Across
<1> QED BY <1>1, <1>2 DEF Sides

\* A step of one side leaves what the other has in the abstract exchange.
LEMMA OneSide ==
  ASSUME IInv, Meeting, NEW s \in Sides, Step(Side(s))
  PROVE  /\ PairX' = [PairX EXCEPT ![s] = PairX'[s]]
         /\ PairStage' = [PairStage EXCEPT ![s] = PairStage'[s]]
<1>1. Own(Side(Across(s)))' = Own(Side(Across(s)))
  BY SidesOf, OthersStay DEF IInv, Typed
<1>2. /\ UNCHANGED <<phase[Side(Across(s))], ended[Side(Across(s))], xchg[Side(Across(s))]>>
      /\ Begun(Side(Across(s)))' = Begun(Side(Across(s)))
  BY <1>1 DEF Own, Begun
<1>3. PairX'[Across(s)] = PairX[Across(s)] /\ PairStage'[Across(s)] = PairStage[Across(s)]
  BY <1>2, SidesOf DEF PairX, PairStage, Sides
<1>4. /\ PairX = [t \in Sides |-> PairX[t]] /\ PairX' = [t \in Sides |-> PairX'[t]]
      /\ PairStage = [t \in Sides |-> PairStage[t]]
      /\ PairStage' = [t \in Sides |-> PairStage'[t]]
  BY DEF PairX, PairStage, Sides
<1>5. PairX' = [PairX EXCEPT ![s] = PairX'[s]]
  BY <1>3, <1>4, SidesOf
<1>6. PairStage' = [PairStage EXCEPT ![s] = PairStage'[s]]
  BY <1>3, <1>4, SidesOf
<1> QED BY <1>5, <1>6

\* The queues of the abstract exchange, side by side.
LEMMA TwoQueues ==
  ASSUME Meeting, NEW s \in Sides
  PROVE  /\ PairQueue' = [PairQueue EXCEPT ![s] = Behind(inbox'[Side(s)]),
                                           ![Across(s)] = Behind(inbox'[Side(Across(s))])]
         /\ \A t \in Sides : PairQueue[t] = Behind(inbox[Side(t)])
<1>1. /\ PairQueue' = [t \in Sides |-> Behind(inbox'[Side(t)])]
      /\ PairQueue = [t \in Sides |-> Behind(inbox[Side(t)])]
  BY DEF PairQueue, Sides, Behind, Lead
<1> QED BY <1>1, SidesOf

\* What the other side's queue gains of an exchange frame.
LEMMA Offer ==
  ASSUME IInv, Meeting, NEW c \in Badges, Paired(c), NEW queues, queues[c] = inbox[c],
         NEW f \in Frames, f.kind \in {"FIELD", "FIN"}, NEW heard
  PROVE  \E h \in BOOLEAN :
           /\ Behind(Broadcast(queues, f, heard)[c]) = Gains(Behind(inbox[c]), f, h)
           /\ h => Len(Behind(inbox[c])) < QueueDepth
<1>0. inbox[c] \in Queues /\ Ordered(inbox[c])
  BY DEF IInv, Types, Paired
<1>1. CASE c \in heard /\ Len(inbox[c]) < QueueDepth
  <2>1. Broadcast(queues, f, heard)[c] = Append(inbox[c], f)
    BY <1>1 DEF Broadcast
  <2>2. Behind(Append(inbox[c], f)) = Gains(Behind(inbox[c]), f, TRUE)
    BY <1>0, <1>1, AppendExchange DEF Gains
  <2>3. Len(Behind(inbox[c])) < QueueDepth
    BY <1>0, <1>1, BehindLen, QueueLen, BoundsAssumption
  <2> QED BY <2>1, <2>2, <2>3
<1>2. CASE ~(c \in heard /\ Len(inbox[c]) < QueueDepth)
  <2>1. Broadcast(queues, f, heard)[c] = inbox[c]
    BY <1>2 DEF Broadcast
  <2> QED BY <2>1 DEF Gains
<1> QED BY <1>1, <1>2

\* A beacon is not seen in the abstract exchange.
LEMMA BeaconUnseen ==
  ASSUME IInv, Meeting, \A c \in Badges : Paired(c), NEW s \in Sides,
         phase[Side(s)] = "BEACONING", NEW f \in Sent(Side(s)), NEW heard,
         Side(s) \notin heard, inbox' = Broadcast(inbox, f, heard)
  PROVE  PairQueue' = PairQueue
<1> DEFINE b == Side(s)
           c == Side(Across(s))
<1>0. /\ b \in Badges /\ c \in Badges /\ c # b /\ Badges = {b, c}
      /\ inbox \in [Badges -> Queues] /\ f \in Frames /\ f.kind \in {"BEACON", "DONE"}
  BY SidesOf DEF Sent, Frames, Kinds, IInv, Types
<1>1. ~Begun(b)
  BY <1>0 DEF Begun, IInv, Session
<1>2. ASSUME NEW g \in Held(inbox[c]) PROVE g.kind \in {"BEACON", "DONE"}
  <2>1. g.from = b /\ g.kind \in Kinds
    BY <1>0, <1>2, MeetingFacts DEF IInv, FramesFor, Frames
  <2> QED BY <1>0, <1>1, <2>1 DEF Paired, Kinds
<1>3. inbox'[b] = inbox[b]
  BY <1>0 DEF Broadcast
<1>4. Behind(inbox'[c]) = Behind(inbox[c])
  <2>1. CASE c \in heard /\ Len(inbox[c]) < QueueDepth
    <3>1. inbox'[c] = Append(inbox[c], f)
      BY <1>0, <2>1 DEF Broadcast
    <3> QED BY <1>0, <1>2, <2>1, <3>1, AppendBeacon
  <2>2. CASE ~(c \in heard /\ Len(inbox[c]) < QueueDepth)
    BY <1>0, <2>2 DEF Broadcast
  <2> QED BY <2>1, <2>2
<1>5. PairQueue = [t \in Sides |-> PairQueue[t]]
  BY DEF PairQueue, Sides
<1> QED BY <1>3, <1>4, <1>5, TwoQueues, SidesOf

\* A badge that is outside an exchange and does not enter one ends nothing, and keeps
\* its exchange as it was.
LEMMA StandStill ==
  ASSUME IInv, NEW b \in Badges, Step(b), ~Start(b), phase[b] # "EXCHANGE",
         phase'[b] # "EXCHANGE"
  PROVE  ended' = ended /\ xchg'[b] = xchg[b]
<1> USE DEF Set, Goto, core1, link
<1>1. CASE User(b)
  BY <1>1 DEF User, PressBoop, PressCancel, PressAgain, LeaveScreen, SmReset
<1>2. CASE HandleCancel(b)
  <2>1. ended' = [ended EXCEPT ![b] = ended[b]] \/ ended' = ended
    BY <1>2 DEF HandleCancel
  <2> QED BY <1>2, <2>1 DEF HandleCancel, IInv, Types
<1>3. CASE IdleDrain(b) \/ ListenTimeout(b) \/ IgnoreFrame(b) \/ TerminalExpires(b)
             \/ BeaconNotDue(b) \/ HearBeacon(b) \/ HearExchangeFrame(b)
  BY <1>3 DEF IdleDrain, ListenTimeout, IgnoreFrame, TerminalExpires, BeaconNotDue,
     HearBeacon, HearExchangeFrame
<1>4. CASE ExchangeTimeout(b)
  BY <1>4 DEF ExchangeTimeout, AtTick
<1>5. ASSUME NEW heard \in Audience(b), BeaconTx(b, heard)
      PROVE  ended' = ended /\ xchg'[b] = xchg[b]
  <2>1. xchg' = xchg \/ phase' = [phase EXCEPT ![b] = "EXCHANGE"]
    BY <1>5 DEF BeaconTx, LockOn
  <2> QED BY <1>5, <2>1 DEF BeaconTx, IInv, Types
<1>6. ASSUME NEW heard \in Audience(b),
             HandleField(b, heard) \/ HandleFin(b, heard) \/ EndTick(b, heard)
      PROVE  phase[b] = "EXCHANGE"
  BY <1>6, EndTickFacts DEF HandleField, HandleFin, InExchange, Ends
<1> QED BY <1>1, <1>2, <1>3, <1>4, <1>5, <1>6 DEF Step, Quiet, Loud

\* A badge that neither enters nor leaves its exchange, outside it, is seen to drop
\* frames of the other at most.
LEMMA OutsideStep ==
  ASSUME IInv, Meeting, \A c \in Badges : Paired(c), NEW s \in Sides, Step(Side(s)),
         phase[Side(s)] # "EXCHANGE", phase'[Side(s)] # "EXCHANGE"
  PROVE  [Pair!Next]_(Pair!vars)
<1> DEFINE b == Side(s)
<1>0. b \in Badges /\ inbox \in [Badges -> Queues] /\ b \notin Badges \ {b}
  BY SidesOf DEF IInv, Types
<1>1. PairX'[s] = PairX[s] /\ PairStage'[s] = PairStage[s]
  <2>1. CASE Start(b)
    <3>1. ~Begun(b) /\ ~Begun(b)' /\ ended'[b] = "none" /\ ended[b] = "none"
      BY <1>0, <2>1, FirstStart DEF Begun
    <3> QED BY <3>1 DEF PairX, PairStage, Sides, Begun
  <2>2. CASE ~Start(b)
    <3>1. ended' = ended /\ xchg'[b] = xchg[b]
      BY <1>0, <2>2, StandStill
    <3> QED BY <3>1 DEF PairX, PairStage, Sides, Begun
  <2> QED BY <2>1, <2>2
<1>2. UNCHANGED <<PairX, PairStage>>
  <2>1. PairX = [t \in Sides |-> PairX[t]] /\ PairStage = [t \in Sides |-> PairStage[t]]
    BY DEF PairX, PairStage, Sides
  <2> QED BY <1>1, <2>1, OneSide
<1>3. PairStage[s] # "open" /\ PairQueue = [t \in Sides |-> PairQueue[t]]
      /\ PairQueue[s] = Behind(inbox[b]) /\ Ordered(inbox[b])
  BY <1>0, TwoQueues DEF PairStage, PairQueue, Sides, IInv, Types, Paired
<1>4. CASE inbox'[b] = <<>> /\ inbox'[Side(Across(s))] = inbox[Side(Across(s))]
  <2>1. PairQueue' = [PairQueue EXCEPT ![s] = <<>>]
    BY <1>3, <1>4, TwoQueues, SidesOf, BehindNothing
  <2>2. CASE PairQueue[s] = <<>>
    BY <1>2, <1>3, <2>1, <2>2 DEF Pair!vars
  <2>3. CASE PairQueue[s] # <<>>
    BY <1>2, <1>3, <2>1, <2>3, PairSteps
  <2> QED BY <2>2, <2>3
<1>5. CASE inbox' = inbox
  <2>1. PairQueue' = PairQueue
    BY <1>3, <1>5, TwoQueues, SidesOf
  <2> QED BY <1>2, <2>1 DEF Pair!vars
<1>6. CASE inbox[b] # <<>> /\ inbox' = Taken(b)
  <2>1. inbox'[b] = Tail(inbox[b]) /\ inbox'[Side(Across(s))] = inbox[Side(Across(s))]
    BY <1>0, <1>6, SidesOf DEF Taken
  <2>2. PairQueue' = [PairQueue EXCEPT ![s] = Behind(Tail(inbox[b]))]
    BY <1>3, <2>1, TwoQueues, SidesOf
  <2>3. Head(inbox[b]).kind \in Kinds
    BY <1>0, <1>6, TailHeld DEF Frames
  <2>4. CASE Head(inbox[b]).kind \in {"BEACON", "DONE"}
    <3>1. PairQueue' = PairQueue
      BY <1>0, <1>3, <1>6, <2>2, <2>4, TailBeacon
    <3> QED BY <1>2, <3>1 DEF Pair!vars
  <2>5. CASE Head(inbox[b]).kind \in {"FIELD", "FIN"}
    <3>1. PairQueue[s] # <<>> /\ PairQueue' = [PairQueue EXCEPT ![s] = Tail(@)]
      BY <1>0, <1>3, <1>6, <2>2, <2>5, TailExchange
    <3> QED BY <1>2, <1>3, <3>1, PairSteps
  <2> QED BY <2>3, <2>4, <2>5 DEF Kinds
<1>7. CASE Airs(b)
  <2>1. PICK f \in Sent(b), heard \in Audience(b) : inbox' = Broadcast(inbox, f, heard)
    BY <1>7 DEF Airs, Airing
  <2>2. phase[b] = "BEACONING" /\ b \notin heard
    BY <1>0 DEF Sent, Frames, Kinds, Audience
  <2>3. PairQueue' = PairQueue
    BY <2>1, <2>2, BeaconUnseen
  <2> QED BY <1>2, <2>3 DEF Pair!vars
<1>8. CASE inbox' = [inbox EXCEPT ![b] = <<>>]
  BY <1>0, <1>4, <1>8, SidesOf
<1> QED BY <1>0, <1>5, <1>6, <1>7, <1>8, InboxCases

\* Only the beacon that answers the peer's DONE leads into the exchange, and it is
\* not seen there.
LEMMA EnterStep ==
  ASSUME IInv, Meeting, \A c \in Badges : Paired(c), NEW s \in Sides, Step(Side(s)),
         phase[Side(s)] # "EXCHANGE", phase'[Side(s)] = "EXCHANGE"
  PROVE  [Pair!Next]_(Pair!vars)
<1> DEFINE b == Side(s)
<1> USE DEF Set, Goto, core1, link
<1>0. b \in Badges /\ Side(Across(s)) \in Badges /\ phase \in [Badges -> Phases]
      /\ Badges = {b, Side(Across(s))}
  BY SidesOf DEF IInv, Types
<1>1. PICK heard \in Audience(b) : BeaconTx(b, heard)
  <2>1. User(b) \/ Quiet(b) => phase'[b] # "EXCHANGE"
    BY <1>0 DEF User, PressBoop, PressCancel, PressAgain, LeaveScreen, SmReset,
       Quiet, HandleCancel, Start, IdleDrain, TerminalExpires, BeaconNotDue,
       ListenTimeout, HearBeacon, HearExchangeFrame, IgnoreFrame
  <2>2. ExchangeTimeout(b) => phase[b] = "EXCHANGE"
    BY DEF ExchangeTimeout, AtTick
  <2>3. ASSUME NEW heard \in Audience(b),
               HandleField(b, heard) \/ HandleFin(b, heard) \/ EndTick(b, heard)
        PROVE  phase[b] = "EXCHANGE"
    BY <1>0, <2>3, EndTickFacts DEF HandleField, HandleFin, InExchange, Ends
  <2> QED BY <2>1, <2>2, <2>3 DEF Step, Loud
<1>2. /\ phase[b] = "BEACONING" /\ ended' = ended /\ peer' = peer
      /\ xchg'[b] = FreshExchange(b < peer[b])
  <2>1. xchg' = [xchg EXCEPT ![b] = FreshExchange(b < peer[b])]
    BY <1>0, <1>1 DEF BeaconTx, LockOn, AtTick
  <2> QED BY <1>0, <1>1, <2>1 DEF BeaconTx, AtTick, IInv, Types
<1>3. peer[b] = Side(Across(s))
  <2>1. Peer(b)'
    BY <1>0, OwnStep DEF Local
  <2>2. peer'[b] \in Badges \ {b}
    BY <2>1 DEF Peer
  <2> QED BY <1>0, <1>2, <2>2
<1>4. ended[b] = "none" /\ ~Begun(b) /\ Begun(b)'
  BY <1>0, <1>2 DEF IInv, Session, Begun
<1>5. PairX'[s] = FreshExchange(s = "pri") /\ PairX[s] = FreshExchange(s = "pri")
      /\ PairStage[s] = "beaconing" /\ PairStage'[s] = "open"
  <2>1. (b < peer[b]) = (s = "pri")
    BY <1>3, SidesOf
  <2> QED BY <1>2, <1>4, <2>1 DEF PairX, PairStage, Sides, Begun
<1>6. PairX' = PairX /\ PairStage' = [PairStage EXCEPT ![s] = "open"]
  <2>1. PairX = [t \in Sides |-> PairX[t]]
    BY DEF PairX, Sides
  <2> QED BY <1>5, <2>1, OneSide
<1>7. PairQueue' = PairQueue
  <2>1. PICK kind \in {"BEACON", "DONE"} : Send(b, Message(b, kind), heard)
    BY <1>1 DEF BeaconTx
  <2>2. Message(b, kind) \in Sent(b)
    <3>1. b \in Parties /\ kind \in Kinds
      BY <1>0, Constants DEF Kinds
    <3>2. Message(b, kind) \in Frames /\ Message(b, kind).kind = kind
          /\ Message(b, kind).from = b
      BY <3>1, MessageFacts
    <3> QED BY <1>2, <3>2 DEF Sent
  <2>3. b \notin heard
    BY DEF Audience
  <2> QED BY <1>2, <2>1, <2>2, <2>3, BeaconUnseen DEF Send
<1> QED BY <1>5, <1>6, <1>7, PairSteps

\* The user cancels, or the limit is reached.
LEMMA LeaveStep ==
  ASSUME IInv, Meeting, NEW s \in Sides, phase[Side(s)] = "EXCHANGE",
         HandleCancel(Side(s)) \/ ExchangeTimeout(Side(s))
  PROVE  [Pair!Next]_(Pair!vars)
<1> DEFINE b == Side(s)
<1>0. b \in Badges /\ Step(b)
  BY SidesOf DEF Step, Quiet
<1>1. phase'[b] # "EXCHANGE" /\ ended'[b] = "left" /\ xchg' = xchg /\ inbox' = inbox
  <2>1. CASE HandleCancel(b)
    BY <1>0, <2>1 DEF HandleCancel, Set, IInv, Types
  <2>2. CASE ExchangeTimeout(b)
    <3>1. phase'[b] \in {"PAIRED_OK", "FAILED"}
      BY <1>0, <2>2, FinishFacts DEF ExchangeTimeout
    <3> QED BY <1>0, <2>2, <3>1 DEF ExchangeTimeout, Set, IInv, Types
  <2> QED BY <2>1, <2>2
<1>2. PairX'[s] = PairX[s] /\ PairStage[s] = "open" /\ PairStage'[s] = "left"
  BY <1>1 DEF PairX, PairStage, Sides, Begun
<1>3. PairX' = PairX /\ PairStage' = [PairStage EXCEPT ![s] = "left"]
  <2>1. PairX = [t \in Sides |-> PairX[t]]
    BY DEF PairX, Sides
  <2> QED BY <1>0, <1>2, <2>1, OneSide
<1>4. PairQueue' = PairQueue
  BY <1>1 DEF PairQueue, Behind, Lead
<1> QED BY <1>2, <1>3, <1>4, PairSteps

\* In the exchange the abstract state of a side is its own.
LEMMA InsideFacts ==
  ASSUME IInv, Meeting, NEW s \in Sides, Paired(Side(s)), phase[Side(s)] = "EXCHANGE"
  PROVE  /\ PairX[s] = xchg[Side(s)] /\ PairX[s] \in ExchangeState
         /\ PairStage[s] = "open" /\ PairQueue[s] = Behind(inbox[Side(s)])
         /\ inbox[Side(s)] \in Queues /\ Ordered(inbox[Side(s)])
         /\ inbox \in [Badges -> Queues] /\ xchg \in [Badges -> ExchangeState]
         /\ PairQueue = [t \in Sides |-> PairQueue[t]]
         /\ PairStage = [t \in Sides |-> PairStage[t]]
  BY SidesOf DEF PairX, PairStage, PairQueue, Sides, Begun, IInv, Types, Paired

\* A FIELD or a FIN that is handled is handled in the abstract exchange.
LEMMA HandlePair ==
  ASSUME IInv, Meeting, \A c \in Badges : Paired(c), NEW s \in Sides,
         NEW heard \in Audience(Side(s)),
         HandleField(Side(s), heard) \/ HandleFin(Side(s), heard)
  PROVE  [Pair!Next]_(Pair!vars)
<1> DEFINE b == Side(s)
           c == Side(Across(s))
           g == Head(inbox[b])
<1> USE DEF Set, Goto
<1>0. /\ b \in Badges /\ c \in Badges /\ c # b /\ b \notin heard /\ Step(b)
      /\ phase[b] = "EXCHANGE" /\ inbox[b] # <<>> /\ phase' = phase /\ ended' = ended
  BY SidesOf DEF HandleField, HandleFin, InExchange, Audience, Step, Loud
<1>1. /\ PairX[s] = xchg[b] /\ PairX[s] \in ExchangeState
      /\ PairStage[s] = "open" /\ PairQueue[s] = Behind(inbox[b])
      /\ inbox[b] \in Queues /\ Ordered(inbox[b])
      /\ inbox \in [Badges -> Queues] /\ xchg \in [Badges -> ExchangeState]
      /\ PairQueue = [t \in Sides |-> PairQueue[t]]
      /\ PairStage = [t \in Sides |-> PairStage[t]]
  BY <1>0, InsideFacts
<1>2. /\ g \in FramesFor(b) /\ g \in Frames /\ g.kind \in {"FIELD", "FIN"}
      /\ PairQueue[s] # <<>> /\ Head(PairQueue[s]) = Plain(g)
      /\ Behind(Tail(inbox[b])) = Tail(PairQueue[s])
  BY <1>0, <1>1, HeadFacts, TailHeld, TailExchange DEF HandleField, HandleFin
<1>3. PairX'[s] = xchg'[b] /\ PairStage' = PairStage
  <2>1. PairX'[s] = xchg'[b] /\ PairStage'[s] = "open"
    BY <1>0 DEF PairX, PairStage, Sides, Begun
  <2> QED BY <1>0, <1>1, <2>1, OneSide
<1>4. PairX' = [PairX EXCEPT ![s] = xchg'[b]]
  BY <1>0, <1>3, OneSide
<1>5. /\ Taken(b)[b] = Tail(inbox[b]) /\ Taken(b)[c] = inbox[c]
      /\ \A f : Broadcast(Taken(b), f, heard)[b] = Tail(inbox[b])
  BY <1>0, <1>1 DEF Taken, Broadcast
<1>6. ASSUME inbox' = Taken(b)
      PROVE  PairQueue' = [PairQueue EXCEPT ![s] = Tail(@)]
  <2>1. Behind(inbox'[b]) = Tail(PairQueue[s]) /\ Behind(inbox'[c]) = PairQueue[Across(s)]
    BY <1>2, <1>5, <1>6, TwoQueues, SidesOf
  <2> QED BY <1>1, <2>1, TwoQueues, SidesOf
<1>7. ASSUME NEW f \in Frames, f.kind \in {"FIELD", "FIN"},
             inbox' = Broadcast(Taken(b), f, heard)
      PROVE  \E h \in BOOLEAN :
               /\ PairQueue' = [PairQueue EXCEPT ![s] = Tail(@), ![Across(s)] = Gains(@, f, h)]
               /\ h => Len(PairQueue[Across(s)]) < QueueDepth
  <2>1. PICK h \in BOOLEAN :
          /\ Behind(Broadcast(Taken(b), f, heard)[c]) = Gains(Behind(inbox[c]), f, h)
          /\ h => Len(Behind(inbox[c])) < QueueDepth
    BY <1>0, <1>5, <1>7, Offer
  <2>2. PairQueue[Across(s)] = Behind(inbox[c])
    BY TwoQueues, SidesOf
  <2>3. /\ Behind(inbox'[b]) = Tail(PairQueue[s])
        /\ Behind(inbox'[c]) = Gains(PairQueue[Across(s)], f, h)
    BY <1>2, <1>5, <1>7, <2>1, <2>2
  <2>4. PairQueue' = [PairQueue EXCEPT ![s] = Tail(@), ![Across(s)] = Gains(@, f, h)]
    BY <1>1, <2>3, TwoQueues, SidesOf
  <2> QED BY <2>1, <2>2, <2>4
<1>8. CASE HandleField(b, heard)
  <2>1. PICK i \in Tags : i = g.tag
    BY <1>2, <1>8 DEF FramesFor, HandleField
  <2>2. /\ g.kind = "FIELD" /\ xchg'[b] = AfterField(xchg[b], i)
        /\ inbox' = IF xchg[b].primary THEN Taken(b)
                     ELSE Broadcast(Taken(b), FieldOf(b, i), heard)
    BY <1>0, <1>1, <1>8, <2>1 DEF HandleField
  <2>3. Head(PairQueue[s]).kind = "FIELD" /\ Head(PairQueue[s]).tag = i
    BY <1>2, <2>1, <2>2 DEF Plain
  <2>4. FieldOf(b, i) \in Frames /\ FieldOf(b, i).kind = "FIELD"
    <3>1. b \in Parties
      BY <1>0, Constants
    <3> QED BY <3>1, FieldOfFacts
  <2>5. CASE xchg[b].primary
    <3>1. PairQueue' = [PairQueue EXCEPT ![s] = Tail(@)]
      BY <1>6, <2>2, <2>5
    <3> QED BY <1>0, <1>1, <1>2, <1>3, <1>4, <2>2, <2>3, <2>5, <3>1, PairHandlesField
  <2>6. CASE ~xchg[b].primary
    <3>1. PICK h \in BOOLEAN :
            /\ PairQueue' = [PairQueue EXCEPT ![s] = Tail(@),
                                              ![Across(s)] = Gains(@, FieldOf(b, i), h)]
            /\ h => Len(PairQueue[Across(s)]) < QueueDepth
      BY <1>7, <2>2, <2>4, <2>6
    <3> QED BY <1>0, <1>1, <1>2, <1>3, <1>4, <2>2, <2>3, <2>6, <3>1, PairHandlesField
  <2> QED BY <2>5, <2>6
<1>9. CASE HandleFin(b, heard)
  <2>2. /\ g.kind = "FIN" /\ xchg'[b] = AfterDone(xchg[b])
        /\ inbox' = IF AnswersDone(xchg[b]) THEN Broadcast(Taken(b), Message(b, "FIN"), heard)
                     ELSE Taken(b)
    BY <1>0, <1>1, <1>9 DEF HandleFin
  <2>3. Head(PairQueue[s]).kind = "FIN"
    BY <1>2, <2>2 DEF Plain
  <2>4. Message(b, "FIN") \in Frames /\ Message(b, "FIN").kind = "FIN"
    BY <1>0, MessageFacts, Constants DEF Kinds
  <2>5. CASE ~AnswersDone(xchg[b])
    <3>1. PairQueue' = [PairQueue EXCEPT ![s] = Tail(@)]
      BY <1>6, <2>2, <2>5
    <3> QED BY <1>0, <1>1, <1>2, <1>3, <1>4, <2>2, <2>3, <2>5, <3>1, PairHandlesFin
  <2>6. CASE AnswersDone(xchg[b])
    <3>1. PICK h \in BOOLEAN :
            /\ PairQueue' = [PairQueue EXCEPT ![s] = Tail(@),
                                              ![Across(s)] = Gains(@, Message(b, "FIN"), h)]
            /\ h => Len(PairQueue[Across(s)]) < QueueDepth
      BY <1>7, <2>2, <2>4, <2>6
    <3> QED BY <1>0, <1>1, <1>2, <1>3, <1>4, <2>2, <2>3, <2>6, <3>1, PairHandlesFin
  <2> QED BY <2>5, <2>6
<1> QED BY <1>8, <1>9

\* A tick that ends with the exchange state y is seen to.
LEMMA BecomePair ==
  ASSUME IInv, Meeting, NEW s \in Sides, Paired(Side(s)), Step(Side(s)),
         phase[Side(s)] = "EXCHANGE", NEW y \in ExchangeState, Become(Side(s), y)
  PROVE  /\ PairX' = [PairX EXCEPT ![s] = y]
         /\ PairStage' = [PairStage EXCEPT ![s] = IF Completed(y) THEN "done" ELSE @]
<1> DEFINE b == Side(s)
<1> USE DEF Set, Goto
<1>0. /\ b \in Badges /\ PairStage[s] = "open" /\ PairStage = [t \in Sides |-> PairStage[t]]
      /\ xchg \in [Badges -> ExchangeState]
  BY InsideFacts, SidesOf
<1>1. xchg'[b] = y
  BY <1>0 DEF Become
<1>2. CASE Completed(y)
  <2>1. FinishPaired(b, y) /\ ended' = [ended EXCEPT ![b] = "done"]
    BY <1>2 DEF Become
  <2>2. phase'[b] \in {"PAIRED_OK", "FAILED"}
    BY <1>0, <2>1, FinishFacts
  <2>3. ended'[b] = "done"
    BY <1>0, <2>1 DEF IInv, Types
  <2>4. PairX'[s] = y /\ PairStage'[s] = "done"
    BY <1>1, <2>2, <2>3 DEF PairX, PairStage, Sides, Begun
  <2> QED BY <1>0, <1>2, <2>4, OneSide
<1>3. CASE ~Completed(y)
  <2>1. phase' = phase
    BY <1>3 DEF Become
  <2>2. PairX'[s] = y /\ PairStage'[s] = "open"
    BY <1>1, <2>1 DEF PairX, PairStage, Sides, Begun
  <2> QED BY <1>0, <1>3, <2>2, OneSide
<1> QED BY <1>2, <1>3

\* The end of a tick is the end of a tick, or nothing.
LEMMA EndTickPair ==
  ASSUME IInv, Meeting, \A c \in Badges : Paired(c), NEW s \in Sides,
         NEW heard \in Audience(Side(s)), EndTick(Side(s), heard)
  PROVE  [Pair!Next]_(Pair!vars)
<1> DEFINE b == Side(s)
           c == Side(Across(s))
<1>0. /\ b \in Badges /\ c \in Badges /\ c # b /\ b \notin heard /\ Step(b)
      /\ phase[b] = "EXCHANGE"
  BY SidesOf, EndTickFacts DEF Ends, Audience, Step
<1>1. /\ PairX[s] = xchg[b] /\ PairX[s] \in ExchangeState
      /\ PairStage[s] = "open" /\ PairQueue[s] = Behind(inbox[b])
      /\ inbox \in [Badges -> Queues]
      /\ PairQueue = [t \in Sides |-> PairQueue[t]]
  BY <1>0, InsideFacts
<1>2. PairCard[s] = Card[b]
  BY DEF PairCard, Sides
<1>3. ASSUME inbox' = inbox PROVE PairQueue' = PairQueue
  BY <1>1, <1>3, TwoQueues, SidesOf
<1>4. ASSUME NEW f \in Frames, f.kind \in {"FIELD", "FIN"},
             inbox' = Broadcast(inbox, f, heard)
      PROVE  \E h \in BOOLEAN :
               /\ PairQueue' = [PairQueue EXCEPT ![Across(s)] = Gains(@, f, h)]
               /\ h => Len(PairQueue[Across(s)]) < QueueDepth
  <2>1. PICK h \in BOOLEAN :
          /\ Behind(Broadcast(inbox, f, heard)[c]) = Gains(Behind(inbox[c]), f, h)
          /\ h => Len(Behind(inbox[c])) < QueueDepth
    BY <1>0, <1>4, Offer
  <2>2. PairQueue[Across(s)] = Behind(inbox[c])
    BY TwoQueues, SidesOf
  <2>3. inbox'[b] = inbox[b]
    BY <1>0, <1>4 DEF Broadcast
  <2>4. /\ Behind(inbox'[b]) = PairQueue[s]
        /\ Behind(inbox'[c]) = Gains(PairQueue[Across(s)], f, h)
    BY <1>1, <1>4, <2>1, <2>2, <2>3
  <2>5. PairQueue' = [PairQueue EXCEPT ![Across(s)] = Gains(@, f, h)]
    BY <1>1, <2>4, TwoQueues, SidesOf
  <2> QED BY <2>1, <2>2, <2>5
<1>5. ASSUME NEW y \in ExchangeState, Become(b, y)
      PROVE  /\ PairX' = [PairX EXCEPT ![s] = y]
             /\ PairStage' = [PairStage EXCEPT ![s] = IF Completed(y) THEN "done" ELSE @]
  BY <1>0, <1>5, BecomePair
<1>6. CASE Advance(b) \/ Skip(b)
  <2>1. PICK y \in ExchangeState : y = Advanced(xchg[b])
    BY <1>1, <1>6, ExchangeFacts DEF Advance, Skip, CanAdvance, CanSkip
  <2>2. Become(b, y) /\ inbox' = inbox
    BY <1>6, <2>1 DEF Advance, Skip, Become, Set, Goto, FinishPaired, Swapped, Completed
  <2>3. CanAdvance(xchg[b]) \/ CanSkip(xchg[b], Card[b])
    BY <1>6 DEF Advance, Skip
  <2> QED BY <1>0, <1>1, <1>2, <1>3, <1>5, <2>1, <2>2, <2>3, PairTicks
<1>7. CASE Complete(b)
  <2>1. PICK y \in ExchangeState : y = xchg[b]
    BY <1>1
  <2>2. Become(b, y) /\ inbox' = inbox /\ Completed(xchg[b])
    BY <1>7, <2>1 DEF Complete, Become, Set, Goto, FinishPaired, Swapped, Completed
  <2> QED BY <1>0, <1>1, <1>3, <1>5, <2>1, <2>2, PairTicks
<1>8. CASE Wait(b)
  <2>1. PICK y \in ExchangeState : y = xchg[b]
    BY <1>1
  <2>2. Become(b, y) /\ inbox' = inbox /\ ~Completed(y)
    BY <1>8, <2>1 DEF Wait, MayWait, Become, Set, Goto, FinishPaired, Swapped, Completed
  <2>3. PairX = [t \in Sides |-> PairX[t]] /\ PairStage = [t \in Sides |-> PairStage[t]]
    BY DEF PairX, PairStage, Sides
  <2>4. UNCHANGED <<PairX, PairStage, PairQueue>>
    BY <1>1, <1>3, <1>5, <2>1, <2>2, <2>3
  <2> QED BY <2>4 DEF Pair!vars
<1>9. CASE SendField(b, heard)
  <2>1. xchg[b].cursor \in Tags /\ CanSendField(xchg[b])
    BY <1>1, <1>9, RoundsAssumption DEF SendField, CanSendField, Walking, ExchangeState, Tags
  <2>2. PICK y \in ExchangeState : y = AfterSendField(xchg[b])
    BY <1>1, ExchangeFacts
  <2>3. Become(b, y) /\ inbox' = Broadcast(inbox, FieldOf(b, xchg[b].cursor), heard)
    BY <1>9, <2>2 DEF SendField, Send, Become, Set, Goto, FinishPaired, Swapped, Completed
  <2>4. /\ FieldOf(b, xchg[b].cursor) \in Frames
        /\ FieldOf(b, xchg[b].cursor).kind = "FIELD"
    <3>1. b \in Parties
      BY <1>0, Constants
    <3> QED BY <2>1, <3>1, FieldOfFacts
  <2>5. PICK h \in BOOLEAN :
          /\ PairQueue' = [PairQueue EXCEPT ![Across(s)] =
                             Gains(@, FieldOf(b, xchg[b].cursor), h)]
          /\ h => Len(PairQueue[Across(s)]) < QueueDepth
    BY <1>4, <2>3, <2>4
  <2> QED BY <1>0, <1>1, <1>5, <2>1, <2>2, <2>3, <2>5, PairTicks
<1>10. CASE SendFin(b, heard)
  <2>2. PICK y \in ExchangeState : y = AfterSendDone(xchg[b])
    BY <1>1, ExchangeFacts
  <2>3. Become(b, y) /\ inbox' = Broadcast(inbox, Message(b, "FIN"), heard)
        /\ CanSendDone(xchg[b])
    BY <1>10, <2>2 DEF SendFin, Send, Become, Set, Goto, FinishPaired, Swapped, Completed
  <2>4. Message(b, "FIN") \in Frames /\ Message(b, "FIN").kind = "FIN"
    BY <1>0, MessageFacts, Constants DEF Kinds
  <2>5. PICK h \in BOOLEAN :
          /\ PairQueue' = [PairQueue EXCEPT ![Across(s)] = Gains(@, Message(b, "FIN"), h)]
          /\ h => Len(PairQueue[Across(s)]) < QueueDepth
    BY <1>4, <2>3, <2>4
  <2> QED BY <1>0, <1>1, <1>5, <2>2, <2>3, <2>5, PairTicks
<1> QED BY <1>6, <1>7, <1>8, <1>9, <1>10 DEF EndTick

\* A frame of no use to the exchange, and a cancel that is asked for, are not seen.
LEMMA UnseenStep ==
  ASSUME IInv, Meeting, NEW s \in Sides, Paired(Side(s)), phase[Side(s)] = "EXCHANGE",
         IgnoreFrame(Side(s)) \/ PressCancel(Side(s))
  PROVE  [Pair!Next]_(Pair!vars)
<1> DEFINE b == Side(s)
<1>0. /\ b \in Badges /\ Step(b)
      /\ PairQueue[s] = Behind(inbox[b]) /\ inbox[b] \in Queues /\ Ordered(inbox[b])
      /\ inbox \in [Badges -> Queues] /\ PairQueue = [t \in Sides |-> PairQueue[t]]
  BY InsideFacts, SidesOf DEF Step, User, Quiet
<1>1. UNCHANGED <<PairX, PairStage>>
  <2>1. UNCHANGED <<phase, xchg, ended>>
    BY DEF IgnoreFrame, PressCancel
  <2> QED BY <2>1 DEF PairX, PairStage, Begun
<1>2. PairQueue' = PairQueue
  <2>1. CASE PressCancel(b)
    <3>1. inbox' = inbox
      BY <2>1 DEF PressCancel
    <3> QED BY <1>0, <3>1, TwoQueues, SidesOf
  <2>2. CASE IgnoreFrame(b)
    <3>1. inbox[b] # <<>> /\ inbox' = Taken(b) /\ Head(inbox[b]).kind \in {"BEACON", "DONE"}
      BY <2>2 DEF IgnoreFrame, Take
    <3>2. inbox'[b] = Tail(inbox[b]) /\ inbox'[Side(Across(s))] = inbox[Side(Across(s))]
      BY <1>0, <3>1, SidesOf DEF Taken
    <3>3. Behind(Tail(inbox[b])) = Behind(inbox[b])
      BY <1>0, <3>1, TailBeacon
    <3>4. /\ Behind(inbox'[b]) = PairQueue[s]
          /\ Behind(inbox'[Side(Across(s))]) = PairQueue[Across(s)]
      BY <1>0, <3>2, <3>3, TwoQueues, SidesOf
    <3> QED BY <1>0, <3>4, TwoQueues, SidesOf
  <2> QED BY <2>1, <2>2
<1> QED BY <1>1, <1>2 DEF Pair!vars

\* Every step of the two badges is one of the abstract exchange, or none.
LEMMA PairStep ==
  ASSUME IInv, Meeting, \A c \in Badges : Paired(c), [Next]_vars
  PROVE  [Pair!Next]_(Pair!vars)
<1>1. ASSUME NEW s \in Sides, Step(Side(s)) PROVE [Pair!Next]_(Pair!vars)
  <2> DEFINE b == Side(s)
  <2>0. b \in Badges
    BY SidesOf
  <2>1. CASE phase[b] # "EXCHANGE"
    BY <1>1, <2>1, OutsideStep, EnterStep
  <2>2. CASE phase[b] = "EXCHANGE"
    <3>1. User(b) => PressCancel(b)
      BY <2>2 DEF User, PressBoop, PressAgain, LeaveScreen, Terminal
    <3>2. Quiet(b) => HandleCancel(b) \/ IgnoreFrame(b)
      BY <2>0, <2>2 DEF Quiet, Start, IdleDrain, TerminalExpires, BeaconNotDue, ListenTimeout,
         HearBeacon, HearExchangeFrame, AtTick, Terminal, IInv, Session
    <3>3. \A heard \in Audience(b) : ~BeaconTx(b, heard)
      BY <2>2 DEF BeaconTx, AtTick
    <3> QED BY <1>1, <2>0, <2>2, <3>1, <3>2, <3>3, UnseenStep, LeaveStep, HandlePair,
               EndTickPair DEF Step, Loud
  <2> QED BY <2>1, <2>2
<1>2. CASE UNCHANGED vars
  BY <1>2 DEF vars, Pair!vars, PairX, PairStage, PairQueue, Begun, Behind, Lead
<1>3. \A b \in Badges : \E s \in Sides : b = Side(s)
  BY SideFacts DEF Sides
<1> QED BY <1>1, <1>2, <1>3, NextIsStep DEF Meeting

\* Before anybody presses a button, the exchange has not begun.
LEMMA PairInit == Meeting /\ Init => Pair!Init
<1> SUFFICES ASSUME Meeting, Init PROVE Pair!Init
  OBVIOUS
<1>1. \A s \in Sides : /\ Side(s) \in Badges /\ ~Begun(Side(s))
                       /\ phase[Side(s)] = "IDLE" /\ ended[Side(s)] = "none"
                       /\ Behind(inbox[Side(s)]) = <<>>
  BY SidesOf, BehindNothing DEF Init, Begun
<1>2. /\ PairX = [s \in Sides |-> FreshExchange(s = "pri")]
      /\ PairStage = [s \in Sides |-> "beaconing"]
      /\ PairQueue = [s \in Sides |-> <<>>]
  BY <1>1 DEF PairX, PairStage, PairQueue, Sides
<1> QED BY <1>2 DEF Pair!Init, Pair!Sides, Sides, Pair!FreshExchange, FreshExchange

\* PairSpec: in a room of two badges that boop once, whole sessions implement the
\* exchange of PingPong, whoever presses what, and whatever is lost.
THEOREM Implements ==
  ASSUME Meeting
  PROVE  Spec => PairSpec
<1>1. Init => Both /\ Pair!Init
  BY BothInit, PairInit
<1>2. IInv /\ Both /\ [Next]_vars => Both' /\ [Pair!Next]_(Pair!vars)
  BY BothInv, PairStep DEF Both
<1> QED BY <1>1, <1>2, InvHolds, PTL DEF Spec, PairSpec, Pair!Spec

\* The theorems of PingPong_proofs, of the abstract exchange.
PP == INSTANCE PingPong_proofs WITH
        Card <- PairCard, x <- PairX, stage <- PairStage, q <- PairQueue

\* It is one exchange, whichever module it is taken from.
LEMMA SameExchange ==
  /\ Pair!Init <=> PP!Init
  /\ [Pair!Next]_(Pair!vars) <=> [PP!Next]_(PP!vars)
<1>1. Pair!Init <=> PP!Init
  BY DEF Pair!Init, PP!Init, Pair!Sides, PP!Sides, Pair!FreshExchange, PP!FreshExchange
<1> USE DEF Pair!Sides, PP!Sides, Pair!Take, PP!Take, Pair!Tags, PP!Tags
<1>3. \A s \in Pair!Sides :
        /\ Pair!Drop(s) = PP!Drop(s) /\ Pair!TearDown(s) = PP!TearDown(s)
        /\ Pair!Enter(s) = PP!Enter(s) /\ Pair!Leave(s) = PP!Leave(s)
  BY DEF Pair!Drop, PP!Drop, Pair!TearDown, PP!TearDown, Pair!Enter, PP!Enter,
         Pair!Leave, PP!Leave
<1> USE DEF Pair!Other, PP!Other, Pair!Offered, PP!Offered,
          Pair!Send, PP!Send, Pair!TakeAndSend, PP!TakeAndSend, Pair!Field, PP!Field,
          Pair!Done, PP!Done, Pair!Receiving, PP!Receiving, Pair!Ticking, PP!Ticking,
          Pair!Become, PP!Become, Pair!Completed, PP!Completed
<1>4. \A s \in Pair!Sides :
        /\ Pair!Advance(s) = PP!Advance(s) /\ Pair!Skip(s) = PP!Skip(s)
        /\ Pair!Complete(s) = PP!Complete(s)
  BY DEF Pair!Advance, PP!Advance, Pair!Skip, PP!Skip, Pair!Complete, PP!Complete,
         Pair!CanAdvance, PP!CanAdvance, Pair!CanSkip, PP!CanSkip, Pair!Advanced, PP!Advanced,
         Pair!Walking, PP!Walking, Pair!PeerSent, PP!PeerSent
<1>5. \A s \in Pair!Sides, h \in BOOLEAN :
        /\ Pair!HandleField(s, h) = PP!HandleField(s, h)
        /\ Pair!HandleDone(s, h) = PP!HandleDone(s, h)
  BY DEF Pair!HandleField, PP!HandleField, Pair!HandleDone, PP!HandleDone,
         Pair!AfterField, PP!AfterField, Pair!AfterDone, PP!AfterDone,
         Pair!AnswersDone, PP!AnswersDone
<1>6. \A s \in Pair!Sides, h \in BOOLEAN :
        /\ Pair!SendField(s, h) = PP!SendField(s, h)
        /\ Pair!SendDone(s, h) = PP!SendDone(s, h)
  BY DEF Pair!SendField, PP!SendField, Pair!SendDone, PP!SendDone,
         Pair!CanSendField, PP!CanSendField, Pair!AfterSendField, PP!AfterSendField,
         Pair!CanSendDone, PP!CanSendDone, Pair!AfterSendDone, PP!AfterSendDone,
         Pair!Walking, PP!Walking, Pair!PeerSent, PP!PeerSent
<1>7. Pair!Next = PP!Next
  BY <1>3, <1>4, <1>5, <1>6 DEF Pair!Next, PP!Next, Pair!Tick, PP!Tick, Pair!Handle, PP!Handle
<1>8. [Pair!Next]_(Pair!vars) <=> [PP!Next]_(PP!vars)
  BY <1>7 DEF Pair!vars, PP!vars
<1> QED BY <1>1, <1>8

\* So the exchange of two badges that boop once is over only when both have heard
\* everything.
LEMMA PairComplete ==
  ASSUME Meeting
  PROVE  Spec => []PP!CompleteTogether
<1>1. PP!QueueDepthAssumption /\ PP!RoundsAssumption
  BY BoundsAssumption, RoundsAssumption DEF PP!QueueDepthAssumption, PP!RoundsAssumption
<1>2. PP!CardAssumption
  <2>1. \A s \in Sides : PairCard[s] \in SUBSET Tags
    BY SideFacts, CardAssumption DEF PairCard, Sides
  <2>2. PairCard = [s \in Sides |-> PairCard[s]]
    BY DEF PairCard, Sides
  <2>3. PairCard \in [Sides -> SUBSET Tags]
    BY <2>1, <2>2
  <2> QED BY <2>3 DEF PP!CardAssumption, PP!Sides, PP!Tags, Tags, Sides
<1>3. PP!Spec => []PP!CompleteTogether
  BY <1>1, <1>2, PP!BothHaveAll
<1>4. PairSpec => PP!Spec
  BY SameExchange, PTL DEF PairSpec, Pair!Spec, PP!Spec
<1> QED BY <1>3, <1>4, Implements, PTL

\* What b has received of its peer's card is in b's; and it goes to the journal with
\* the boop.
Whole(b) ==
  /\ phase[b] = "EXCHANGE" =>
       \A i \in xchg[b].received \cap Card[peer[b]] : card[b][i] = peer[b]
  /\ ended[b] = "done" /\ phase[b] = "PAIRED_OK" =>
       \A i \in Card[peer[b]] : row[b][peer[b]].fields[i] = peer[b]

\* The fields of an exchange are received by those who say more or nothing.
LEMMA SameReceived ==
  \A y \in ExchangeState :
    /\ Walking(y) => Advanced(y).received = y.received
    /\ AfterSendField(y).received = y.received /\ AfterSendDone(y).received = y.received
    /\ AfterDone(y).received = y.received
    /\ \A i \in Tags : AfterField(y, i).received = y.received \cup {i}
  BY DEF Advanced, AfterSendField, AfterSendDone, AfterDone, AfterField, ExchangeState

\* A tick ends with what had been received before.
LEMMA EndsReceived ==
  ASSUME IInv, NEW b \in Badges, NEW heard \in Audience(b), EndTick(b, heard)
  PROVE  xchg'[b].received = xchg[b].received
<1>0. xchg[b] \in ExchangeState /\ xchg \in [Badges -> ExchangeState]
  BY DEF IInv, Types
<1>1. CASE Advance(b) \/ Skip(b)
  <2>1. Walking(xchg[b]) /\ xchg' = [xchg EXCEPT ![b] = Advanced(xchg[b])]
    BY <1>1 DEF Advance, Skip, Become, Set, CanAdvance, CanSkip
  <2> QED BY <1>0, <2>1, SameReceived
<1>2. CASE Complete(b) \/ Wait(b)
  BY <1>0, <1>2 DEF Complete, Wait, Become, Set
<1>3. CASE SendField(b, heard)
  BY <1>0, <1>3, SameReceived DEF SendField, Become, Set
<1>4. CASE SendFin(b, heard)
  BY <1>0, <1>4, SameReceived DEF SendFin, Become, Set
<1> QED BY <1>1, <1>2, <1>3, <1>4 DEF EndTick

\* A FIELD is a field of the peer, there being nobody else.
LEMMA WholeField ==
  ASSUME IInv, Meeting, NEW b \in Badges, Whole(b), NEW heard \in Audience(b),
         HandleField(b, heard)
  PROVE  Whole(b)'
<1> USE DEF Set
<1>0. /\ phase[b] = "EXCHANGE" /\ phase' = phase /\ peer' = peer /\ inbox[b] # <<>>
      /\ peer[b] \in Badges \ {b} /\ xchg[b] \in ExchangeState
      /\ card \in [Badges -> [Tags -> Badges \cup {Nobody}]]
      /\ xchg \in [Badges -> ExchangeState]
  BY DEF HandleField, InExchange, link, IInv, Peer, Types
<1>1. PICK g \in FramesFor(b) : g = Head(inbox[b])
  BY <1>0, HeadFacts
<1>2. g.kind = "FIELD" /\ g.tag \in Tags /\ g.from = peer[b]
  <2>1. g.kind = "FIELD"
    BY <1>1 DEF HandleField
  <2>2. g.from \in Badges \ {b} /\ g.tag \in Tags
    BY <2>1 DEF FramesFor
  <2> QED BY <1>0, <2>1, <2>2, MeetingFacts
<1>3. /\ xchg'[b].received = xchg[b].received \cup {g.tag}
      /\ card' = IF g.tag \in Card[peer[b]] THEN [card EXCEPT ![b][g.tag] = peer[b]] ELSE card
  BY <1>0, <1>1, <1>2, SameReceived DEF HandleField
<1>4. ASSUME NEW i \in xchg'[b].received \cap Card[peer[b]] PROVE card'[b][i] = peer[b]
  <2>1. i \in Tags
    BY <1>0, Constants
  <2>2. CASE i = g.tag
    BY <1>0, <1>3, <1>4, <2>1, <2>2
  <2>3. CASE i # g.tag
    <3>1. card[b][i] = peer[b]
      BY <1>0, <1>3, <1>4, <2>3 DEF Whole
    <3> QED BY <1>0, <1>2, <1>3, <2>1, <2>3, <3>1
  <2> QED BY <2>2, <2>3
<1> QED BY <1>0, <1>4 DEF Whole

\* A completed exchange merges the whole card.
LEMMA WholeEnd ==
  ASSUME IInv, Meeting, NEW b \in Badges, Whole(b), NEW heard \in Audience(b),
         EndTick(b, heard),
         phase'[b] # "EXCHANGE" => xchg'[b].received = Tags
  PROVE  Whole(b)'
<1>0. /\ Ends(b) /\ phase[b] = "EXCHANGE" /\ peer[b] \in Badges \ {b} /\ peer' = peer
      /\ card' = card /\ xchg'[b].received = xchg[b].received
      /\ card \in [Badges -> [Tags -> Badges \cup {Nobody}]]
  BY EndTickFacts, EndsReceived DEF Ends, link, IInv, Peer, Types
<1>1. CASE phase'[b] = "EXCHANGE"
  BY <1>0, <1>1 DEF Whole
<1>2. CASE phase'[b] # "EXCHANGE"
  <2>1. PICK y \in ExchangeState : y = xchg'[b]
    BY <1>0 DEF Ends
  <2>2. FinishPaired(b, y)
    BY <1>0, <1>2, <2>1 DEF Ends
  <2>3. y.received = Tags /\ xchg[b].received = Tags
    BY <1>0, <1>2, <2>1
  <2>4. ASSUME phase'[b] = "PAIRED_OK", NEW i \in Card[peer[b]]
        PROVE  row'[b][peer[b]].fields[i] = peer[b]
    <3>1. i \in Tags
      BY <1>0, <2>4, Constants
    <3>2. Swapped(y)
      BY <2>3, <3>1 DEF Swapped
    <3>3. recorded[b]
      BY <1>0, <2>2, <2>4, FinishFacts
    <3>4. row' = Merged(b, peer[b])
      BY <2>2, <3>2, <3>3 DEF FinishPaired
    <3>5. card[b][i] = peer[b] /\ peer[b] # Nobody /\ peer[b] \in Parties
      <4>1. peer[b] \in Parties /\ Nobody \notin Parties
        BY <1>0, Constants
      <4> QED BY <1>0, <2>3, <2>4, <3>1, <4>1 DEF Whole
    <3>6. Merged(b, peer[b])[b][peer[b]].fields[i] = card[b][i]
      BY <1>0, <3>1, <3>5, MergedFacts DEF IInv
    <3> QED BY <3>4, <3>5, <3>6
  <2> QED BY <1>0, <1>2, <2>4 DEF Whole
<1> QED BY <1>1, <1>2

\* What b knows to be whole stays so, if exchanges are complete on both sides.
LEMMA WholeStep ==
  ASSUME IInv, Meeting, NEW s \in Sides, Whole(Side(s)), Step(Side(s)),
         PP!CompleteTogether'
  PROVE  Whole(Side(s))'
<1> DEFINE b == Side(s)
<1> USE DEF Set, Goto, core1, link
<1>0. /\ b \in Badges /\ phase \in [Badges -> Phases] /\ xchg \in [Badges -> ExchangeState]
      /\ ended \in [Badges -> {"none", "done", "left"}]
  BY SidesOf DEF IInv, Types
<1>1. ASSUME UNCHANGED <<phase[b], xchg[b], card[b], peer[b], row[b], ended[b]>>
      PROVE  Whole(b)'
  BY <1>1 DEF Whole
<1>2. ASSUME phase'[b] \notin {"EXCHANGE", "PAIRED_OK"} PROVE Whole(b)'
  BY <1>2 DEF Whole
<1>3. CASE User(b)
  BY <1>0, <1>1, <1>2, <1>3 DEF User, PressBoop, PressCancel, PressAgain, LeaveScreen, SmReset
<1>4. CASE HandleCancel(b)
  <2>1. phase'[b] = "CANCELLED" \/ UNCHANGED <<phase, ended>>
    BY <1>0, <1>4 DEF HandleCancel
  <2> QED BY <1>1, <1>2, <1>4, <2>1 DEF HandleCancel
<1>5. CASE Start(b) \/ TerminalExpires(b)
  <2>1. phase'[b] \in {"BEACONING", "IDLE"}
    BY <1>0, <1>5 DEF Start, TerminalExpires
  <2> QED BY <1>2, <2>1
<1>6. CASE IdleDrain(b) \/ ListenTimeout(b) \/ IgnoreFrame(b)
  BY <1>1, <1>6 DEF IdleDrain, ListenTimeout, IgnoreFrame
<1>7. CASE BeaconNotDue(b) \/ HearBeacon(b) \/ HearExchangeFrame(b)
  <2>1. phase[b] = "BEACONING" /\ phase' = phase
    BY <1>0, <1>7 DEF BeaconNotDue, HearBeacon, HearExchangeFrame, AtTick, IInv, Session
  <2> QED BY <1>2, <2>1
<1>8. CASE ExchangeTimeout(b)
  <2>1. phase'[b] # "EXCHANGE" /\ ended'[b] = "left"
    BY <1>0, <1>8, FinishFacts DEF ExchangeTimeout, AtTick
  <2> QED BY <2>1 DEF Whole
<1>9. ASSUME NEW heard \in Audience(b), BeaconTx(b, heard) PROVE Whole(b)'
  <2>1. ended'[b] = "none"
    BY <1>0, <1>9 DEF BeaconTx, AtTick, IInv, Session
  <2>2. phase'[b] = "EXCHANGE" => xchg'[b] = FreshExchange(b < peer[b])
    BY <1>0, <1>9 DEF BeaconTx, LockOn, AtTick
  <2>3. phase'[b] = "EXCHANGE" => xchg'[b].received = {}
    BY <2>2 DEF FreshExchange
  <2> QED BY <2>1, <2>3 DEF Whole
<1>10. ASSUME NEW heard \in Audience(b), HandleField(b, heard) PROVE Whole(b)'
  BY <1>0, <1>10, WholeField
<1>11. ASSUME NEW heard \in Audience(b), HandleFin(b, heard) PROVE Whole(b)'
  <2>1. /\ phase[b] = "EXCHANGE" /\ UNCHANGED <<phase, card, peer>>
        /\ xchg'[b] = AfterDone(xchg[b])
    BY <1>0, <1>11 DEF HandleFin, InExchange
  <2>2. xchg'[b].received = xchg[b].received
    BY <1>0, <2>1, SameReceived
  <2> QED BY <2>1, <2>2 DEF Whole
<1>12. ASSUME NEW heard \in Audience(b), EndTick(b, heard) PROVE Whole(b)'
  <2>1. ASSUME phase'[b] # "EXCHANGE" PROVE xchg'[b].received = Tags
    <3>1. ended'[b] = "done"
      BY <1>0, <1>12, <2>1, EndTickFacts DEF Ends
    <3>2. PairStage'[s] = "done" /\ PairX'[s] = xchg'[b]
      BY <2>1, <3>1 DEF PairStage, PairX, Sides, Begun
    <3>3. PairX'[s].received = PP!Tags
      BY <3>2 DEF PP!CompleteTogether, PP!Sides, Sides
    <3> QED BY <3>2, <3>3 DEF PP!Tags, Tags
  <2> QED BY <1>0, <1>12, <2>1, WholeEnd
<1> QED
  BY <1>3, <1>4, <1>5, <1>6, <1>7, <1>8, <1>9, <1>10, <1>11, <1>12 DEF Step, Quiet, Loud

\* WholeCard: a completed exchange leaves the peer's whole card in the journal, which
\* takes the lockstep of the two walks (PingPong_proofs) and finishPaired together.
THEOREM CardsAreWhole ==
  ASSUME Meeting
  PROVE  Spec => []WholeCard
<1> DEFINE W == \A b \in Badges : Whole(b)
<1>1. Init => W
  BY DEF Init, Whole
<1>2. IInv /\ W /\ PP!CompleteTogether' /\ [Next]_vars => W'
  <2> SUFFICES ASSUME IInv, W, PP!CompleteTogether', [Next]_vars, NEW c \in Badges
               PROVE  Whole(c)'
    OBVIOUS
  <2>1. ASSUME NEW b \in Badges, Step(b) PROVE Whole(c)'
    <3>1. CASE c = b
      <4>1. PICK s \in Sides : b = Side(s)
        BY SideFacts DEF Sides
      <4> QED BY <2>1, <3>1, <4>1, WholeStep
    <3>2. CASE c # b
      <4>1. Own(c)' = Own(c)
        BY <2>1, <3>2, OthersStay DEF IInv, Typed
      <4> QED BY <4>1 DEF Own, Whole
    <3> QED BY <3>1, <3>2
  <2>2. CASE UNCHANGED vars
    BY <2>2 DEF vars, link, Whole
  <2> QED BY <2>1, <2>2, NextIsStep DEF Meeting
<1>3. W => WholeCard
  BY DEF Whole, WholeCard
<1> HIDE DEF W
<1> QED BY <1>1, <1>2, <1>3, InvHolds, PairComplete, PTL DEF Spec

=============================================================================
