--------------------------- MODULE PingPong_proofs ---------------------------
(***************************************************************************)
(* The field exchange for any number of fields, any queue depth and any     *)
(* cards.  Lockstep is the inductive invariant; that badges complete        *)
(* together, that cursors jump safely and that the exchange implements      *)
(* FieldSwap follow from it.                                                *)
(***************************************************************************)
EXTENDS PingPong, TLAPS

-----------------------------------------------------------------------------
(* What the operators of Exchange do to a badge's state, field by field. *)

LEMMA FreshFacts ==
  ASSUME NEW r \in BOOLEAN
  PROVE  /\ FreshExchange(r) \in ExchangeState
         /\ FreshExchange(r).primary = r /\ FreshExchange(r).cursor = 0
         /\ FreshExchange(r).received = {} /\ FreshExchange(r).mySent = FALSE
         /\ FreshExchange(r).doneSent = FALSE /\ FreshExchange(r).finSeen = FALSE
  BY RoundsAssumption DEF FreshExchange, ExchangeState, Tags

LEMMA FieldFacts ==
  ASSUME NEW y \in ExchangeState, NEW i \in Tags
  PROVE  /\ AfterField(y, i) \in ExchangeState
         /\ AfterField(y, i).primary = y.primary
         /\ AfterField(y, i).received = y.received \cup {i}
         /\ AfterField(y, i).cursor = IF i > y.cursor THEN i ELSE y.cursor
         /\ AfterField(y, i).mySent = \/ ~(i > y.cursor) /\ y.mySent
                                      \/ ~y.primary /\ i = AfterField(y, i).cursor
         /\ AfterField(y, i).doneSent = y.doneSent
         /\ AfterField(y, i).finSeen = y.finSeen
<1> DEFINE r == y.received \cup {i}
           c == IF i > y.cursor THEN i ELSE y.cursor
           m == \/ ~(i > y.cursor) /\ y.mySent
                \/ ~y.primary /\ i = c
<1>1. c \in 0 .. Rounds
  BY RoundsAssumption DEF ExchangeState, Tags
<1>2. AfterField(y, i) = [y EXCEPT !.received = r, !.cursor = c, !.mySent = m]
  BY DEF AfterField
<1>3. m \in BOOLEAN /\ r \in SUBSET Tags
  BY DEF ExchangeState
<1> HIDE DEF r, c, m
<1>4. /\ AfterField(y, i) \in ExchangeState
      /\ AfterField(y, i).primary = y.primary
      /\ AfterField(y, i).received = r
      /\ AfterField(y, i).cursor = c /\ AfterField(y, i).mySent = m
      /\ AfterField(y, i).doneSent = y.doneSent
      /\ AfterField(y, i).finSeen = y.finSeen
  BY <1>1, <1>2, <1>3 DEF ExchangeState
<1> QED
  BY <1>4 DEF r, c, m

LEMMA DoneFacts ==
  ASSUME NEW y \in ExchangeState
  PROVE  /\ AfterDone(y) \in ExchangeState
         /\ AfterDone(y).primary = y.primary /\ AfterDone(y).received = y.received
         /\ AfterDone(y).cursor = y.cursor /\ AfterDone(y).mySent = y.mySent
         /\ AfterDone(y).doneSent = (y.doneSent \/ AnswersDone(y))
         /\ AfterDone(y).finSeen = TRUE
  BY RoundsAssumption DEF AfterDone, AnswersDone, ExchangeState, Tags

LEMMA AdvancedFacts ==
  ASSUME NEW y \in ExchangeState, Walking(y)
  PROVE  /\ Advanced(y) \in ExchangeState
         /\ Advanced(y).primary = y.primary /\ Advanced(y).received = y.received
         /\ Advanced(y).cursor = y.cursor + 1 /\ Advanced(y).mySent = FALSE
         /\ Advanced(y).doneSent = y.doneSent /\ Advanced(y).finSeen = y.finSeen
<1>1. y.cursor + 1 \in 0 .. Rounds
  BY RoundsAssumption DEF Walking, ExchangeState
<1> QED
  BY <1>1 DEF Advanced, ExchangeState

LEMMA SendFieldFacts ==
  ASSUME NEW y \in ExchangeState
  PROVE  /\ AfterSendField(y) \in ExchangeState
         /\ AfterSendField(y).primary = y.primary
         /\ AfterSendField(y).received = y.received
         /\ AfterSendField(y).cursor = y.cursor /\ AfterSendField(y).mySent = TRUE
         /\ AfterSendField(y).doneSent = y.doneSent
         /\ AfterSendField(y).finSeen = y.finSeen
  BY RoundsAssumption DEF AfterSendField, ExchangeState, Tags

LEMMA SendDoneFacts ==
  ASSUME NEW y \in ExchangeState
  PROVE  /\ AfterSendDone(y) \in ExchangeState
         /\ AfterSendDone(y).primary = y.primary
         /\ AfterSendDone(y).received = y.received
         /\ AfterSendDone(y).cursor = y.cursor
         /\ AfterSendDone(y).mySent = y.mySent
         /\ AfterSendDone(y).doneSent = TRUE /\ AfterSendDone(y).finSeen = y.finSeen
  BY RoundsAssumption DEF AfterSendDone, ExchangeState, Tags

-----------------------------------------------------------------------------
(* The queues: no step puts anything in a queue but the frame it sends. *)

Held(queue) == {queue[k] : k \in DOMAIN queue}
Queues      == {queue \in Seq(Frames) : Len(queue) <= QueueDepth}

LEMMA OfferedFacts ==
  ASSUME NEW queue \in Queues, NEW f \in Frames, NEW heard \in BOOLEAN
  PROVE  /\ Offered(queue, f, heard) \in Queues
         /\ Held(Offered(queue, f, heard)) \subseteq Held(queue) \cup {f}
  BY QueueDepthAssumption DEF Offered, Held, Queues

LEMMA TailFacts ==
  ASSUME NEW queue \in Queues, queue # <<>>
  PROVE  /\ Tail(queue) \in Queues
         /\ Held(Tail(queue)) \subseteq Held(queue)
         /\ Head(queue) \in Held(queue) /\ Head(queue) \in Frames
  BY QueueDepthAssumption DEF Held, Queues

LEMMA FrameFacts ==
  /\ \A i \in Tags : Field(i) \in Frames /\ Field(i).kind = "FIELD" /\ Field(i).tag = i
  /\ Done \in Frames /\ Done.kind = "FIN"
  /\ \A f \in Frames : /\ f.kind = "FIELD" => f.tag \in Tags
                       /\ f.kind = "FIN" \/ f.kind = "FIELD"
  BY DEF Frames, Field, Done

-----------------------------------------------------------------------------
(* Types. *)

Types == /\ x \in [Sides -> ExchangeState]
         /\ stage \in [Sides -> {"beaconing", "open", "done", "left"}]
         /\ q \in [Sides -> Queues]

LEMMA TypesAreTypeOK == Types <=> TypeOK
  BY DEF Types, TypeOK, Queues

\* What the three ways of touching the queues leave in them.
LEMMA SendFacts ==
  ASSUME Types, NEW b \in Sides, NEW f \in Frames, NEW heard \in BOOLEAN,
         Send(b, f, heard)
  PROVE  /\ q' \in [Sides -> Queues]
         /\ Waiting(b)' \subseteq Waiting(b)
         /\ Waiting(Other(b))' \subseteq Waiting(Other(b)) \cup {f}
<1>1. Other(b) \in Sides /\ Other(b) # b
  BY DEF Other, Sides
<1>2. /\ Offered(q[Other(b)], f, heard) \in Queues
      /\ Held(Offered(q[Other(b)], f, heard)) \subseteq Held(q[Other(b)]) \cup {f}
  BY <1>1, OfferedFacts DEF Types
<1> QED
  BY <1>1, <1>2 DEF Types, Send, Waiting, Held

LEMMA TakeFacts ==
  ASSUME Types, NEW b \in Sides, q[b] # <<>>, Take(b)
  PROVE  /\ q' \in [Sides -> Queues]
         /\ \A c \in Sides : Waiting(c)' \subseteq Waiting(c)
         /\ Head(q[b]) \in Frames /\ Head(q[b]) \in Waiting(b)
<1>1. /\ Tail(q[b]) \in Queues /\ Held(Tail(q[b])) \subseteq Held(q[b])
      /\ Head(q[b]) \in Held(q[b]) /\ Head(q[b]) \in Frames
  BY TailFacts DEF Types
<1> QED
  BY <1>1 DEF Types, Take, Waiting, Held

LEMMA TakeAndSendFacts ==
  ASSUME Types, NEW b \in Sides, NEW f \in Frames, NEW heard \in BOOLEAN,
         q[b] # <<>>, TakeAndSend(b, f, heard)
  PROVE  /\ q' \in [Sides -> Queues]
         /\ Waiting(b)' \subseteq Waiting(b)
         /\ Waiting(Other(b))' \subseteq Waiting(Other(b)) \cup {f}
         /\ Head(q[b]) \in Frames /\ Head(q[b]) \in Waiting(b)
<1>1. Other(b) \in Sides /\ Other(b) # b
  BY DEF Other, Sides
<1>2. /\ Tail(q[b]) \in Queues /\ Held(Tail(q[b])) \subseteq Held(q[b])
      /\ Head(q[b]) \in Held(q[b]) /\ Head(q[b]) \in Frames
  BY TailFacts DEF Types
<1>3. /\ Offered(q[Other(b)], f, heard) \in Queues
      /\ Held(Offered(q[Other(b)], f, heard)) \subseteq Held(q[Other(b)]) \cup {f}
  BY <1>1, OfferedFacts DEF Types
<1>4. q' = [q EXCEPT ![b] = Tail(q[b]), ![Other(b)] = Offered(q[Other(b)], f, heard)]
  BY <1>1 DEF TakeAndSend, Types
<1>5. q'[b] = Tail(q[b]) /\ q'[Other(b)] = Offered(q[Other(b)], f, heard)
  BY <1>1, <1>4 DEF Types
<1>6. q' \in [Sides -> Queues]
  BY <1>1, <1>2, <1>3, <1>4 DEF Types
<1> QED
  BY <1>1, <1>2, <1>3, <1>5, <1>6 DEF Waiting, Held

\* A step that changes b's state changes nothing else of x.
LEMMA OneBadge ==
  ASSUME Types, NEW b \in Sides, NEW y \in ExchangeState, x' = [x EXCEPT ![b] = y]
  PROVE  /\ x' \in [Sides -> ExchangeState]
         /\ x'[b] = y /\ x'[Other(b)] = x[Other(b)]
  BY DEF Types, Other, Sides

-----------------------------------------------------------------------------
(* What each action does, in terms of x', stage' and what waits. *)

LEMMA HandleFieldFacts ==
  ASSUME Types, NEW b \in Sides, NEW heard \in BOOLEAN, HandleField(b, heard)
  PROVE  \E f \in Waiting(b) :
           /\ f = Head(q[b]) /\ f.kind = "FIELD" /\ f.tag \in Tags
           /\ stage[b] = "open" /\ stage' = stage
           /\ x' = [x EXCEPT ![b] = AfterField(x[b], f.tag)]
           /\ x' \in [Sides -> ExchangeState]
           /\ x'[b] = AfterField(x[b], f.tag) /\ x'[Other(b)] = x[Other(b)]
           /\ q' \in [Sides -> Queues]
           /\ Waiting(b)' \subseteq Waiting(b)
           /\ Waiting(Other(b))' \subseteq
                Waiting(Other(b)) \cup IF x[b].primary THEN {} ELSE {Field(f.tag)}
<1> DEFINE f == Head(q[b])
<1>1. q[b] # <<>> /\ f.kind = "FIELD" /\ stage[b] = "open" /\ stage' = stage
  BY DEF HandleField, Receiving
<1>2. f \in Frames /\ f \in Waiting(b)
  BY <1>1, TailFacts DEF Types, Waiting, Held
<1>3. f.tag \in Tags
  BY <1>1, <1>2, FrameFacts
<1>4. x' = [x EXCEPT ![b] = AfterField(x[b], f.tag)]
  BY DEF HandleField, Types
<1>5. AfterField(x[b], f.tag) \in ExchangeState
  BY <1>3, FieldFacts DEF Types
<1>6. /\ x' \in [Sides -> ExchangeState]
      /\ x'[b] = AfterField(x[b], f.tag) /\ x'[Other(b)] = x[Other(b)]
  BY <1>4, <1>5, OneBadge
<1>7. CASE x[b].primary
  <2>1. Take(b)
    BY <1>7 DEF HandleField
  <2> QED
    BY <2>1, <1>1, <1>2, <1>3, <1>4, <1>6, <1>7, TakeFacts DEF Other, Sides
<1>8. CASE ~x[b].primary
  <2>1. TakeAndSend(b, Field(f.tag), heard) /\ Field(f.tag) \in Frames
    BY <1>3, <1>8, FrameFacts DEF HandleField
  <2>2. /\ q' \in [Sides -> Queues]
        /\ Waiting(b)' \subseteq Waiting(b)
        /\ Waiting(Other(b))' \subseteq Waiting(Other(b)) \cup {Field(f.tag)}
    BY <2>1, <1>1, TakeAndSendFacts
  <2> QED
    BY <2>2, <1>1, <1>2, <1>3, <1>4, <1>6, <1>8
<1> QED
  BY <1>7, <1>8

LEMMA HandleDoneFacts ==
  ASSUME Types, NEW b \in Sides, NEW heard \in BOOLEAN, HandleDone(b, heard)
  PROVE  \E f \in Waiting(b) :
           /\ f.kind = "FIN" /\ stage[b] = "open" /\ stage' = stage
           /\ x' = [x EXCEPT ![b] = AfterDone(x[b])]
           /\ x' \in [Sides -> ExchangeState]
           /\ x'[b] = AfterDone(x[b]) /\ x'[Other(b)] = x[Other(b)]
           /\ q' \in [Sides -> Queues]
           /\ Waiting(b)' \subseteq Waiting(b)
           /\ Waiting(Other(b))' \subseteq
                Waiting(Other(b)) \cup IF AnswersDone(x[b]) THEN {Done} ELSE {}
<1> DEFINE f == Head(q[b])
<1>1. q[b] # <<>> /\ f.kind = "FIN" /\ stage[b] = "open" /\ stage' = stage
  BY DEF HandleDone, Receiving
<1>2. f \in Frames /\ f \in Waiting(b)
  BY <1>1, TailFacts DEF Types, Waiting, Held
<1>3. x' = [x EXCEPT ![b] = AfterDone(x[b])]
  BY DEF HandleDone, Types
<1>4. AfterDone(x[b]) \in ExchangeState
  BY DoneFacts DEF Types
<1>5. /\ x' \in [Sides -> ExchangeState]
      /\ x'[b] = AfterDone(x[b]) /\ x'[Other(b)] = x[Other(b)]
  BY <1>3, <1>4, OneBadge
<1>6. CASE AnswersDone(x[b])
  <2>1. TakeAndSend(b, Done, heard) /\ Done \in Frames
    BY <1>6, FrameFacts DEF HandleDone
  <2> QED
    BY <2>1, <1>1, <1>2, <1>3, <1>5, <1>6, TakeAndSendFacts
<1>7. CASE ~AnswersDone(x[b])
  <2>1. Take(b)
    BY <1>7 DEF HandleDone
  <2> QED
    BY <2>1, <1>1, <1>2, <1>3, <1>5, <1>7, TakeFacts DEF Other, Sides
<1> QED
  BY <1>6, <1>7

\* The end of a tick, y being the state it leaves the badge in.
LEMMA BecomeFacts ==
  ASSUME Types, NEW b \in Sides, NEW y \in ExchangeState, Become(b, y),
         stage[b] = "open"
  PROVE  /\ x' \in [Sides -> ExchangeState]
         /\ x'[b] = y /\ x'[Other(b)] = x[Other(b)]
         /\ stage' \in [Sides -> {"beaconing", "open", "done", "left"}]
         /\ stage'[b] = IF Completed(y) THEN "done" ELSE "open"
         /\ stage'[Other(b)] = stage[Other(b)]
<1>1. x' = [x EXCEPT ![b] = y]
  BY DEF Become
<1>2. /\ x' \in [Sides -> ExchangeState]
      /\ x'[b] = y /\ x'[Other(b)] = x[Other(b)]
  BY <1>1, OneBadge
<1> QED
  BY <1>2 DEF Become, Types, Other, Sides

\* A step that touches nothing of the exchange.
Aside(b) == Drop(b) \/ TearDown(b) \/ Enter(b) \/ Leave(b)

LEMMA AsideFacts ==
  ASSUME Types, NEW b \in Sides, Aside(b)
  PROVE  /\ x' = x
         /\ q' \in [Sides -> Queues]
         /\ \A c \in Sides : Waiting(c)' \subseteq Waiting(c)
         /\ stage' \in [Sides -> {"beaconing", "open", "done", "left"}]
         /\ \A c \in Sides : stage'[c] = "done" => stage[c] = "done"
<1>1. CASE Drop(b)
  BY <1>1, TakeFacts DEF Drop, Types
<1>2. CASE TearDown(b)
  <2>1. <<>> \in Queues
    BY QueueDepthAssumption DEF Queues
  <2> QED
    BY <1>2, <2>1 DEF TearDown, Types, Waiting
<1>3. CASE Enter(b)
  BY <1>3 DEF Enter, Types, Waiting
<1>4. CASE Leave(b)
  BY <1>4 DEF Leave, Types, Waiting
<1> QED
  BY <1>1, <1>2, <1>3, <1>4 DEF Aside

-----------------------------------------------------------------------------
(* The inductive invariant. *)

Inv == Types /\ Lockstep

LEMMA InitInv == Init => Inv
<1> SUFFICES ASSUME Init
             PROVE  Inv
  OBVIOUS
<1>1. \A b \in Sides : /\ x[b] \in ExchangeState /\ x[b].primary = (b = "pri")
                       /\ x[b].cursor = 0 /\ x[b].received = {}
                       /\ ~x[b].mySent /\ ~x[b].doneSent /\ ~x[b].finSeen
  BY FreshFacts DEF Init
<1>2. Types
  <2>1. <<>> \in Queues
    BY QueueDepthAssumption DEF Queues
  <2> QED
    BY <1>1, <2>1 DEF Init, Types
<1>3. \A b \in Sides : Waiting(b) = {}
  BY DEF Init, Waiting
<1>4. "pri" \in Sides /\ "sec" \in Sides
  BY DEF Sides
<1>5. PrimaryWalk /\ SecondaryWalk
  BY <1>1, <1>4 DEF PrimaryWalk, SecondaryWalk, PeerSent, Tags
<1>6. FieldsInFlight
  BY <1>3, <1>4 DEF FieldsInFlight
<1>7. DoneChain
  BY <1>1, <1>3 DEF DoneChain, Init
<1> QED
  BY <1>1, <1>2, <1>5, <1>6, <1>7 DEF Inv, Lockstep, Roles

\* Steps that are not part of the exchange only take frames away.
LEMMA AsideInv ==
  ASSUME Inv, NEW b \in Sides, Aside(b)
  PROVE  Inv'
<1>1. /\ x' = x /\ q' \in [Sides -> Queues]
      /\ \A c \in Sides : Waiting(c)' \subseteq Waiting(c)
      /\ stage' \in [Sides -> {"beaconing", "open", "done", "left"}]
      /\ \A c \in Sides : stage'[c] = "done" => stage[c] = "done"
  BY AsideFacts DEF Inv
<1>2. Types'
  BY <1>1 DEF Inv, Types
<1>3. (Roles /\ PrimaryWalk /\ SecondaryWalk)'
  BY <1>1 DEF Inv, Lockstep, Roles, PrimaryWalk, SecondaryWalk
<1>4. FieldsInFlight'
  BY <1>1 DEF Inv, Lockstep, FieldsInFlight, Sides
<1>5. DoneChain'
  BY <1>1 DEF Inv, Lockstep, DoneChain
<1> QED
  BY <1>2, <1>3, <1>4, <1>5 DEF Inv, Lockstep

\* The secondary hears FIELD(i), jumps to it if it is ahead, and answers.
LEMMA SecondaryHears ==
  ASSUME Inv, NEW heard \in BOOLEAN, HandleField("sec", heard)
  PROVE  Inv'
<1> DEFINE p == x["pri"]
           s == x["sec"]
<1> USE DEF Inv, Lockstep
<1>0. "sec" \in Sides /\ "pri" \in Sides /\ Other("sec") = "pri" /\ Other("pri") = "sec"
  BY DEF Sides, Other
<1>1. PICK f \in Waiting("sec") :
        /\ f.kind = "FIELD" /\ f.tag \in Tags
        /\ stage["sec"] = "open" /\ stage' = stage
        /\ x' \in [Sides -> ExchangeState]
        /\ x'["sec"] = AfterField(s, f.tag) /\ x'["pri"] = p
        /\ q' \in [Sides -> Queues]
        /\ Waiting("sec")' \subseteq Waiting("sec")
        /\ Waiting("pri")' \subseteq Waiting("pri") \cup
                                      IF s.primary THEN {} ELSE {Field(f.tag)}
  BY <1>0, HandleFieldFacts
<1>2. ~s.primary /\ p.primary /\ f.tag <= p.cursor
  BY <1>0, <1>1 DEF Roles, FieldsInFlight
<1> DEFINE t == AfterField(s, f.tag)
<1>3. /\ p \in ExchangeState /\ s \in ExchangeState
      /\ p.cursor \in 0 .. Rounds /\ s.cursor \in 0 .. Rounds /\ f.tag \in 0 .. Rounds - 1
      /\ p.received \subseteq Tags /\ s.received \subseteq Tags
  BY <1>0, <1>1 DEF Types, ExchangeState, Tags
<1>4. /\ t.primary = s.primary /\ t.received = s.received \cup {f.tag}
      /\ t.cursor = IF f.tag > s.cursor THEN f.tag ELSE s.cursor
      /\ t.mySent = \/ ~(f.tag > s.cursor) /\ s.mySent
                    \/ ~s.primary /\ f.tag = t.cursor
      /\ t.doneSent = s.doneSent /\ t.finSeen = s.finSeen
  BY <1>1, <1>3, FieldFacts
<1>5. Types'
  BY <1>1 DEF Types
<1>6. Roles'
  BY <1>0, <1>1, <1>4 DEF Roles, Sides
<1>7. PrimaryWalk'
  BY <1>1, <1>4 DEF PrimaryWalk
<1>8. SecondaryWalk'
  <2>1. \A i \in t.received : i <= t.cursor /\ i <= p.cursor
    BY <1>2, <1>3, <1>4, RoundsAssumption DEF SecondaryWalk, Tags
  <2>2. t.cursor \in t.received => t.mySent
    <3>1. CASE f.tag = t.cursor
      BY <3>1, <1>2, <1>4
    <3>2. CASE f.tag # t.cursor
      <4>1. t.cursor = s.cursor /\ ~(f.tag > s.cursor)
        BY <3>2, <1>3, <1>4, RoundsAssumption
      <4> QED
        BY <4>1, <3>2, <1>4 DEF SecondaryWalk, PeerSent
    <3> QED
      BY <3>1, <3>2
  <2> QED
    BY <2>1, <2>2, <1>1 DEF SecondaryWalk, PeerSent
<1>9. FieldsInFlight'
  <2>1. \A g \in Waiting("sec")' : g.kind = "FIELD" => g.tag <= p.cursor
    BY <1>1 DEF FieldsInFlight
  <2>2. ASSUME NEW g \in Waiting("pri")', g.kind = "FIELD"
        PROVE  g.tag <= p.cursor /\ g.tag \in t.received
    BY <2>2, <1>1, <1>2, <1>4, FrameFacts DEF FieldsInFlight
  <2> QED
    BY <2>1, <2>2, <1>1 DEF FieldsInFlight
<1>10. DoneChain'
  <2>1. t.doneSent => t.cursor = Rounds
    <3>1. s.doneSent => s.cursor = Rounds
      BY <1>0 DEF DoneChain
    <3>2. s.cursor = Rounds => t.cursor = Rounds
      BY <1>3, <1>4, RoundsAssumption
    <3> QED
      BY <3>1, <3>2, <1>4
  <2>2. \A g \in Waiting("pri")' : g.kind = "FIN" => t.doneSent
    BY <1>0, <1>1, <1>2, <1>4, FrameFacts DEF DoneChain
  <2>3. \A g \in Waiting("sec")' : g.kind = "FIN" => p.doneSent
    BY <1>0, <1>1 DEF DoneChain
  <2>4. stage'["sec"] # "done" /\ (stage'["pri"] = "done" => Completed(p))
    BY <1>0, <1>1 DEF DoneChain
  <2>5. /\ t.finSeen => p.doneSent
        /\ p.finSeen => t.doneSent
        /\ p.doneSent => p.cursor = Rounds
    BY <1>0, <1>4 DEF DoneChain
  <2> QED
    BY <2>1, <2>2, <2>3, <2>4, <2>5, <1>0, <1>1 DEF DoneChain, Sides
<1> QED
  BY <1>5, <1>6, <1>7, <1>8, <1>9, <1>10

\* The primary hears the answer to a tag it has reached: it never jumps.
LEMMA PrimaryHears ==
  ASSUME Inv, NEW heard \in BOOLEAN, HandleField("pri", heard)
  PROVE  Inv'
<1> DEFINE p == x["pri"]
           s == x["sec"]
<1> USE DEF Inv, Lockstep
<1>0. "sec" \in Sides /\ "pri" \in Sides /\ Other("sec") = "pri" /\ Other("pri") = "sec"
  BY DEF Sides, Other
<1>1. PICK f \in Waiting("pri") :
        /\ f.kind = "FIELD" /\ f.tag \in Tags
        /\ stage["pri"] = "open" /\ stage' = stage
        /\ x' \in [Sides -> ExchangeState]
        /\ x'["pri"] = AfterField(p, f.tag) /\ x'["sec"] = s
        /\ q' \in [Sides -> Queues]
        /\ Waiting("pri")' \subseteq Waiting("pri")
        /\ Waiting("sec")' \subseteq Waiting("sec") \cup
                                      IF p.primary THEN {} ELSE {Field(f.tag)}
  BY <1>0, HandleFieldFacts
<1>2. p.primary /\ f.tag <= p.cursor /\ f.tag \in s.received
  BY <1>0, <1>1 DEF Roles, FieldsInFlight
<1> DEFINE t == AfterField(p, f.tag)
<1>3. /\ p \in ExchangeState /\ p.cursor \in 0 .. Rounds /\ f.tag \in 0 .. Rounds - 1
  BY <1>0, <1>1 DEF Types, ExchangeState, Tags
<1>4. /\ t.primary = p.primary /\ t.received = p.received \cup {f.tag}
      /\ t.cursor = p.cursor /\ t.doneSent = p.doneSent /\ t.finSeen = p.finSeen
  <2>1. ~(f.tag > p.cursor)
    BY <1>2, <1>3, RoundsAssumption
  <2> QED
    BY <2>1, <1>1, <1>3, FieldFacts
<1>5. Waiting("sec")' \subseteq Waiting("sec")
  BY <1>1, <1>2
<1>6. Types'
  BY <1>1 DEF Types
<1>7. Roles'
  BY <1>0, <1>1, <1>4 DEF Roles, Sides
<1>8. PrimaryWalk'
  BY <1>1, <1>2, <1>4 DEF PrimaryWalk
<1>9. SecondaryWalk'
  BY <1>1, <1>4 DEF SecondaryWalk
<1>10. FieldsInFlight'
  BY <1>1, <1>4, <1>5 DEF FieldsInFlight
<1>11. DoneChain'
  BY <1>0, <1>1, <1>4, <1>5 DEF DoneChain, Sides
<1> QED
  BY <1>6, <1>7, <1>8, <1>9, <1>10, <1>11

\* A DONE is heard; a secondary at the end of its walk answers it.
LEMMA DoneHeard ==
  ASSUME Inv, NEW b \in Sides, NEW heard \in BOOLEAN, HandleDone(b, heard)
  PROVE  Inv'
<1> USE DEF Inv, Lockstep
<1>0. /\ "sec" \in Sides /\ "pri" \in Sides
      /\ Other(b) \in Sides /\ Other(b) # b /\ Other(Other(b)) = b
      /\ \A c \in Sides : c = b \/ c = Other(b)
  BY DEF Sides, Other
<1> DEFINE t == AfterDone(x[b])
<1>1. PICK f \in Waiting(b) :
        /\ f.kind = "FIN" /\ stage[b] = "open" /\ stage' = stage
        /\ x' \in [Sides -> ExchangeState]
        /\ x'[b] = t /\ x'[Other(b)] = x[Other(b)]
        /\ q' \in [Sides -> Queues]
        /\ Waiting(b)' \subseteq Waiting(b)
        /\ Waiting(Other(b))' \subseteq
             Waiting(Other(b)) \cup IF AnswersDone(x[b]) THEN {Done} ELSE {}
  BY <1>0, HandleDoneFacts
<1>2. /\ t.primary = x[b].primary /\ t.received = x[b].received
      /\ t.cursor = x[b].cursor /\ t.mySent = x[b].mySent
      /\ t.doneSent = (x[b].doneSent \/ AnswersDone(x[b]))
      /\ t.finSeen = TRUE
  BY <1>0, DoneFacts DEF Types
<1>3. \A c \in Sides : /\ x'[c].primary = x[c].primary /\ x'[c].received = x[c].received
                       /\ x'[c].cursor = x[c].cursor /\ x'[c].mySent = x[c].mySent
  BY <1>0, <1>1, <1>2
<1>4. \A c \in Sides : \A g \in Waiting(c)' : g.kind = "FIELD" => g \in Waiting(c)
  BY <1>0, <1>1, FrameFacts
<1>5. Types'
  BY <1>1 DEF Types
<1>6. Roles'
  BY <1>3 DEF Roles
<1>7. PrimaryWalk' /\ SecondaryWalk'
  BY <1>0, <1>3 DEF PrimaryWalk, SecondaryWalk, PeerSent
<1>8. FieldsInFlight'
  BY <1>0, <1>3, <1>4 DEF FieldsInFlight
<1>9. DoneChain'
  <2>1. \A c \in Sides : x'[c].doneSent => x'[c].cursor = Rounds
    BY <1>0, <1>1, <1>2, ZenonT(60) DEF DoneChain, AnswersDone
  <2>2. x[Other(b)].doneSent
    BY <1>0, <1>1 DEF DoneChain
  <2>3. \A c \in Sides : x'[c].finSeen => x'[Other(c)].doneSent
    BY <2>2, <1>0, <1>1, <1>2 DEF DoneChain
  <2>4. \A c \in Sides : \A g \in Waiting(c)' : g.kind = "FIN" => x'[Other(c)].doneSent
    <3>1. \A g \in Waiting(b)' : g.kind = "FIN" => x'[Other(b)].doneSent
      BY <2>2, <1>1
    <3>2. \A g \in Waiting(Other(b))' : g.kind = "FIN" => x'[b].doneSent
      BY <1>0, <1>1, <1>2 DEF DoneChain
    <3> QED
      BY <3>1, <3>2, <1>0
  <2>5. \A c \in Sides : stage'[c] = "done" => Completed(x'[c])
    BY <1>0, <1>1 DEF DoneChain
  <2> QED
    BY <2>1, <2>3, <2>4, <2>5 DEF DoneChain
<1> QED
  BY <1>5, <1>6, <1>7, <1>8, <1>9

\* A tick that moves b's cursor: the primary past a tag it has heard, the secondary
\* past one it has heard or gives up.
Moves(b) == Advance(b) \/ Skip(b)

LEMMA MovesInv ==
  ASSUME Inv, NEW b \in Sides, Moves(b)
  PROVE  Inv'
<1> DEFINE y == x[b]
           t == Advanced(y)
<1> USE DEF Inv, Lockstep
<1>0. /\ "sec" \in Sides /\ "pri" \in Sides /\ "sec" # "pri"
      /\ Other("sec") = "pri" /\ Other("pri") = "sec"
      /\ Other(b) \in Sides /\ Other(b) # b /\ Other(Other(b)) = b
      /\ \A c \in Sides : c = b \/ c = Other(b)
  BY DEF Sides, Other
<1>1. /\ stage[b] = "open" /\ Become(b, t) /\ q' = q /\ Walking(y)
      /\ y.primary => PeerSent(y)
  BY DEF Moves, Advance, Skip, Ticking, CanAdvance, CanSkip
<1>2. /\ y \in ExchangeState /\ y.cursor \in 0 .. Rounds
      /\ \A c \in Sides : x[c].cursor \in 0 .. Rounds /\ x[c].received \subseteq Tags
  BY DEF Types, ExchangeState
<1>3. /\ t \in ExchangeState /\ t.primary = y.primary /\ t.received = y.received
      /\ t.cursor = y.cursor + 1 /\ t.mySent = FALSE
      /\ t.doneSent = y.doneSent /\ t.finSeen = y.finSeen
  BY <1>1, <1>2, AdvancedFacts
<1>4. /\ x' \in [Sides -> ExchangeState] /\ x'[b] = t /\ x'[Other(b)] = x[Other(b)]
      /\ stage' \in [Sides -> {"beaconing", "open", "done", "left"}]
      /\ stage'[b] = "done" => Completed(t)
      /\ stage'[Other(b)] = stage[Other(b)]
  BY <1>1, <1>3, BecomeFacts
<1> HIDE DEF t, y
<1>5. Types'
  BY <1>1, <1>4 DEF Types
<1>6. Roles'
  BY <1>0, <1>3, <1>4 DEF Roles, y
<1>7. \A c \in Sides : Waiting(c)' = Waiting(c)
  BY <1>1 DEF Waiting
<1>8. ASSUME b = "pri"
      PROVE  (PrimaryWalk /\ SecondaryWalk /\ FieldsInFlight)'
  <2>1. /\ x'["pri"] = t /\ x'["sec"] = x["sec"] /\ y = x["pri"]
    BY <1>0, <1>4, <1>8 DEF y
  <2>2. PeerSent(y)
    BY <1>1, <1>8, <2>1 DEF Roles, Sides
  <2>3. PrimaryWalk'
    <3>1. \A i \in Tags : i < t.cursor => i \in t.received
      BY <1>2, <1>3, <2>1, <2>2, RoundsAssumption DEF PrimaryWalk, PeerSent, Tags
    <3>2. \A i \in t.received : i <= t.cursor /\ i \in x["sec"].received
      BY <1>0, <1>2, <1>3, <2>1, RoundsAssumption DEF PrimaryWalk, Tags
    <3> QED
      BY <3>1, <3>2, <2>1 DEF PrimaryWalk
  <2>4. SecondaryWalk'
    <3>1. \A i \in x["sec"].received : i <= x["sec"].cursor /\ i <= t.cursor
      BY <1>0, <1>2, <1>3, <2>1, RoundsAssumption DEF SecondaryWalk, Tags
    <3> QED
      BY <3>1, <2>1 DEF SecondaryWalk
  <2>5. FieldsInFlight'
    <3>1. ASSUME NEW c \in Sides, NEW f \in Waiting(c), f.kind = "FIELD",
                 f.tag <= y.cursor
          PROVE  f.tag <= t.cursor
      <4>1. f.tag \in Tags
        BY <3>1, FrameFacts DEF Types, Queues, Waiting
      <4> QED
        BY <4>1, <3>1, <1>2, <1>3, RoundsAssumption DEF Tags
    <3> QED
      BY <3>1, <1>0, <1>7, <2>1 DEF FieldsInFlight
  <2> QED
    BY <2>3, <2>4, <2>5
<1>9. ASSUME b = "sec"
      PROVE  (PrimaryWalk /\ SecondaryWalk /\ FieldsInFlight)'
  <2>1. /\ x'["sec"] = t /\ x'["pri"] = x["pri"] /\ y = x["sec"]
    BY <1>0, <1>4, <1>9 DEF y
  <2>2. PrimaryWalk'
    BY <1>3, <2>1 DEF PrimaryWalk
  <2>3. SecondaryWalk'
    <3>1. \A i \in t.received : i <= y.cursor /\ i <= x["pri"].cursor
      BY <1>3, <2>1 DEF SecondaryWalk
    <3>2. \A i \in t.received : i <= t.cursor /\ i # t.cursor
      BY <3>1, <1>0, <1>2, <1>3, <2>1, RoundsAssumption DEF Tags
    <3> QED
      BY <3>1, <3>2, <2>1 DEF SecondaryWalk, PeerSent
  <2>4. FieldsInFlight'
    BY <1>0, <1>3, <1>7, <2>1 DEF FieldsInFlight
  <2> QED
    BY <2>2, <2>3, <2>4
<1>10. DoneChain'
  <2>1. ~y.doneSent
    BY <1>1, <1>2, RoundsAssumption DEF DoneChain, Walking, y
  <2>2. \A c \in Sides : x'[c].doneSent = x[c].doneSent /\ x'[c].finSeen = x[c].finSeen
    BY <1>0, <1>3, <1>4 DEF y
  <2>3. \A c \in Sides : x'[c].doneSent => x'[c].cursor = Rounds
    BY <2>1, <2>2, <1>0, <1>4 DEF DoneChain, y
  <2>4. \A c \in Sides : stage'[c] = "done" => Completed(x'[c])
    BY <1>0, <1>4 DEF DoneChain
  <2>5. \A c \in Sides : x'[c].finSeen => x'[Other(c)].doneSent
    BY <2>2 DEF DoneChain, Sides, Other
  <2>6. \A c \in Sides : \A f \in Waiting(c)' : f.kind = "FIN" => x'[Other(c)].doneSent
    BY <2>2, <1>7 DEF DoneChain, Sides, Other
  <2> QED
    BY <2>3, <2>4, <2>5, <2>6 DEF DoneChain
<1> QED
  BY <1>5, <1>6, <1>8, <1>9, <1>10 DEF Sides

\* Only the primary starts a FIELD, and it sends the one at its cursor.
LEMMA SendFieldInv ==
  ASSUME Inv, NEW b \in Sides, NEW heard \in BOOLEAN, SendField(b, heard)
  PROVE  Inv'
<1> DEFINE p == x["pri"]
           t == AfterSendField(p)
<1> USE DEF Inv, Lockstep
<1>0. /\ "sec" \in Sides /\ "pri" \in Sides
      /\ Other("pri") = "sec" /\ Other("sec") = "pri"
  BY DEF Sides, Other
<1>1. b = "pri" /\ Walking(p) /\ stage["pri"] = "open"
  BY DEF SendField, CanSendField, Roles, Ticking
<1>2. Become("pri", t) /\ Send("pri", Field(p.cursor), heard)
  BY <1>1 DEF SendField
<1>3. p \in ExchangeState /\ p.cursor \in 0 .. Rounds /\ p.cursor \in Tags
  BY <1>0, <1>1, RoundsAssumption DEF Types, ExchangeState, Tags, Walking
<1>4. /\ t \in ExchangeState /\ t.primary = p.primary /\ t.received = p.received
      /\ t.cursor = p.cursor /\ t.doneSent = p.doneSent /\ t.finSeen = p.finSeen
  BY <1>3, SendFieldFacts
<1>5. /\ x' \in [Sides -> ExchangeState] /\ x'["pri"] = t /\ x'["sec"] = x["sec"]
      /\ stage' \in [Sides -> {"beaconing", "open", "done", "left"}]
      /\ stage'["pri"] = "done" => Completed(t)
      /\ stage'["sec"] = stage["sec"]
  BY <1>0, <1>1, <1>2, <1>4, BecomeFacts
<1>6. /\ q' \in [Sides -> Queues]
      /\ Waiting("pri")' \subseteq Waiting("pri")
      /\ Waiting("sec")' \subseteq Waiting("sec") \cup {Field(p.cursor)}
  BY <1>0, <1>2, <1>3, FrameFacts, SendFacts
<1> HIDE DEF t
<1>7. Types'
  BY <1>5, <1>6 DEF Types
<1>8. Roles' /\ PrimaryWalk' /\ SecondaryWalk'
  BY <1>4, <1>5 DEF Roles, PrimaryWalk, SecondaryWalk, Sides
<1>9. FieldsInFlight'
  <2>1. Field(p.cursor).tag <= p.cursor
    BY <1>3, FrameFacts, RoundsAssumption
  <2> QED
    BY <2>1, <1>4, <1>5, <1>6 DEF FieldsInFlight
<1>10. DoneChain'
  <2>1. Field(p.cursor).kind # "FIN"
    BY <1>3, FrameFacts
  <2> QED
    BY <2>1, <1>0, <1>4, <1>5, <1>6 DEF DoneChain, Sides
<1> QED
  BY <1>7, <1>8, <1>9, <1>10

\* A DONE is sent only from the end of the walk.
LEMMA SendDoneInv ==
  ASSUME Inv, NEW b \in Sides, NEW heard \in BOOLEAN, SendDone(b, heard)
  PROVE  Inv'
<1> DEFINE t == AfterSendDone(x[b])
<1> USE DEF Inv, Lockstep
<1>0. /\ "sec" \in Sides /\ "pri" \in Sides
      /\ Other(b) \in Sides /\ Other(b) # b /\ Other(Other(b)) = b
      /\ \A c \in Sides : c = b \/ c = Other(b)
  BY DEF Sides, Other
<1>1. /\ stage[b] = "open" /\ x[b].cursor = Rounds
      /\ Become(b, t) /\ Send(b, Done, heard)
  BY DEF SendDone, CanSendDone, Ticking
<1>2. /\ t \in ExchangeState /\ t.primary = x[b].primary /\ t.received = x[b].received
      /\ t.cursor = x[b].cursor /\ t.mySent = x[b].mySent
      /\ t.doneSent = TRUE /\ t.finSeen = x[b].finSeen
  BY SendDoneFacts DEF Types
<1>3. /\ x' \in [Sides -> ExchangeState] /\ x'[b] = t /\ x'[Other(b)] = x[Other(b)]
      /\ stage' \in [Sides -> {"beaconing", "open", "done", "left"}]
      /\ stage'[b] = "done" => Completed(t)
      /\ stage'[Other(b)] = stage[Other(b)]
  BY <1>1, <1>2, BecomeFacts
<1>4. /\ q' \in [Sides -> Queues]
      /\ Waiting(b)' \subseteq Waiting(b)
      /\ Waiting(Other(b))' \subseteq Waiting(Other(b)) \cup {Done}
  BY <1>1, FrameFacts, SendFacts
<1> HIDE DEF t
<1>5. \A c \in Sides : /\ x'[c].primary = x[c].primary /\ x'[c].received = x[c].received
                       /\ x'[c].cursor = x[c].cursor /\ x'[c].mySent = x[c].mySent
                       /\ x'[c].finSeen = x[c].finSeen
                       /\ x[c].doneSent => x'[c].doneSent
  BY <1>0, <1>2, <1>3
<1>6. \A c \in Sides : \A g \in Waiting(c)' : g.kind = "FIELD" => g \in Waiting(c)
  BY <1>0, <1>4, FrameFacts
<1>7. Types'
  BY <1>3, <1>4 DEF Types
<1>8. Roles'
  BY <1>5 DEF Roles
<1>9. PrimaryWalk' /\ SecondaryWalk'
  BY <1>0, <1>5 DEF PrimaryWalk, SecondaryWalk, PeerSent
<1>10. FieldsInFlight'
  BY <1>0, <1>5, <1>6 DEF FieldsInFlight
<1>11. DoneChain'
  <2>1. \A c \in Sides : x'[c].doneSent => x'[c].cursor = Rounds
    BY <1>0, <1>1, <1>2, <1>3 DEF DoneChain
  <2>2. \A c \in Sides : x'[c].finSeen => x'[Other(c)].doneSent
    BY <1>5 DEF DoneChain, Sides, Other
  <2>3. \A g \in Waiting(b)' : g.kind = "FIN" => x'[Other(b)].doneSent
    BY <1>0, <1>4, <1>5 DEF DoneChain
  <2>4. \A g \in Waiting(Other(b))' : g.kind = "FIN" => x'[b].doneSent
    BY <1>2, <1>3
  <2>5. \A c \in Sides : stage'[c] = "done" => Completed(x'[c])
    BY <1>0, <1>3 DEF DoneChain
  <2> QED
    BY <2>1, <2>2, <2>3, <2>4, <2>5, <1>0 DEF DoneChain
<1> QED
  BY <1>7, <1>8, <1>9, <1>10, <1>11

LEMMA CompleteInv ==
  ASSUME Inv, NEW b \in Sides, Complete(b)
  PROVE  Inv'
<1> USE DEF Inv, Lockstep
<1>1. /\ x' = x /\ q' = q
      /\ stage' \in [Sides -> {"beaconing", "open", "done", "left"}]
      /\ \A c \in Sides : stage'[c] = "done" => stage[c] = "done" \/ Completed(x[c])
  BY DEF Complete, Become, Types
<1>2. \A c \in Sides : Waiting(c)' = Waiting(c)
  BY <1>1 DEF Waiting
<1>3. Types' /\ Roles' /\ PrimaryWalk' /\ SecondaryWalk'
  BY <1>1 DEF Types, Roles, PrimaryWalk, SecondaryWalk
<1>4. FieldsInFlight'
  BY <1>1, <1>2 DEF FieldsInFlight, Sides
<1>5. DoneChain'
  BY <1>1, <1>2 DEF DoneChain
<1> QED
  BY <1>3, <1>4, <1>5

-----------------------------------------------------------------------------
(* The theorems. *)

Step(b) ==
  \/ Aside(b) \/ Moves(b) \/ Complete(b)
  \/ \E heard \in BOOLEAN : \/ HandleField(b, heard) \/ HandleDone(b, heard)
                            \/ SendField(b, heard) \/ SendDone(b, heard)

LEMMA NextIsStep == Next => \E b \in Sides : Step(b)
  BY DEF Next, Step, Aside, Moves, Tick, Handle

LEMMA StepInv == Inv /\ [Next]_vars => Inv'
<1> SUFFICES ASSUME Inv, [Next]_vars
             PROVE  Inv'
  OBVIOUS
<1>1. CASE UNCHANGED vars
  BY <1>1 DEF vars, Inv, Types, Lockstep, Roles, PrimaryWalk, SecondaryWalk,
              FieldsInFlight, DoneChain, Waiting
<1>2. CASE Next
  <2>1. PICK b \in Sides : Step(b)
    BY <1>2, NextIsStep
  <2>2. CASE Aside(b)
    BY <2>2, AsideInv
  <2>3. CASE Moves(b)
    BY <2>3, MovesInv
  <2>4. CASE Complete(b)
    BY <2>4, CompleteInv
  <2>5. ASSUME NEW heard \in BOOLEAN, HandleField(b, heard)
        PROVE  Inv'
    <3>1. CASE b = "pri"
      BY <2>5, <3>1, PrimaryHears
    <3>2. CASE b = "sec"
      BY <2>5, <3>2, SecondaryHears
    <3> QED
      BY <3>1, <3>2 DEF Sides
  <2>6. ASSUME NEW heard \in BOOLEAN, HandleDone(b, heard)
        PROVE  Inv'
    BY <2>6, DoneHeard
  <2>7. ASSUME NEW heard \in BOOLEAN, SendField(b, heard)
        PROVE  Inv'
    BY <2>7, SendFieldInv
  <2>8. ASSUME NEW heard \in BOOLEAN, SendDone(b, heard)
        PROVE  Inv'
    BY <2>8, SendDoneInv
  <2> QED
    BY <2>1, <2>2, <2>3, <2>4, <2>5, <2>6, <2>7, <2>8 DEF Step
<1> QED
  BY <1>1, <1>2

LEMMA InvHolds == Spec => []Inv
  BY InitInv, StepInv, PTL DEF Spec

\* Every reachable state of the exchange is well typed, queues no longer than
\* their depth (BadgeIR.cpp:304-317) included.
THEOREM TypeCorrect == Spec => []TypeOK
<1>1. Inv => TypeOK
  BY TypesAreTypeOK DEF Inv
<1> QED
  BY <1>1, InvHolds, PTL

\* The two walks stay in lockstep, for any number of fields, any loss of frames and
\* any queue depth (BoopsHandlers.cpp:201-300, 455-508).
THEOREM WalksInLockstep == Spec => []Lockstep
<1>1. Inv => Lockstep
  BY DEF Inv
<1> QED
  BY <1>1, InvHolds, PTL

\* The state in which a badge is complete leaves nothing for either to learn.
LEMMA CompleteMeansAll ==
  ASSUME Inv, NEW b \in Sides, Completed(x[b])
  PROVE  /\ \A c \in Sides : x[c].received = Tags
         /\ x["pri"].cursor = Rounds /\ x["sec"].cursor = Rounds
<1> DEFINE p == x["pri"]
           s == x["sec"]
<1>1. \A c \in Sides : /\ c = "pri" \/ c = "sec"
                       /\ x[c].received \subseteq Tags
  BY DEF Sides, Inv, Types, ExchangeState
<1>2. p.cursor = Rounds /\ s.cursor = Rounds
  BY DEF Completed, Inv, Lockstep, DoneChain, Sides, Other
<1>3. Tags \subseteq p.received
  BY <1>2, RoundsAssumption DEF Inv, Lockstep, PrimaryWalk, Tags
<1>4. p.received \subseteq s.received
  BY DEF Inv, Lockstep, PrimaryWalk
<1> QED
  BY <1>1, <1>2, <1>3, <1>4

\* A badge that calls the exchange complete leaves both badges with every field
\* (the `done` test, BoopsHandlers.cpp:312).
THEOREM BothHaveAll == Spec => []CompleteTogether
<1>1. Inv => CompleteTogether
  BY CompleteMeansAll DEF CompleteTogether, Inv, Lockstep, DoneChain
<1> QED
  BY <1>1, InvHolds, PTL

\* A jump of the cursor skips only tags the peer already has
\* (BoopsHandlers.cpp:464-466).
THEOREM JumpsAreSafe == Spec => []JumpIsSafe
<1>1. ASSUME Inv, NEW b \in Sides, q[b] # <<>>, Head(q[b]).kind = "FIELD",
             NEW i \in x[b].cursor .. Head(q[b]).tag - 1
      PROVE  i \in x[Other(b)].received
  <2> DEFINE f == Head(q[b])
  <2>1. f \in Waiting(b) /\ f \in Frames
    BY <1>1, TailFacts DEF Inv, Types, Waiting, Held
  <2>2. f.tag \in Tags /\ f.tag <= x["pri"].cursor
    BY <1>1, <2>1, FrameFacts DEF Inv, Lockstep, FieldsInFlight, Sides
  <2>3. /\ x["pri"].cursor \in 0 .. Rounds /\ x[b].cursor \in 0 .. Rounds
    BY <1>1 DEF Inv, Types, ExchangeState, Sides
  <2> HIDE DEF f
  <2>4. i \in Tags /\ i < x["pri"].cursor /\ x[b].cursor < x["pri"].cursor
    BY <1>1, <2>2, <2>3, RoundsAssumption DEF Tags, f
  <2>5. b = "sec"
    BY <2>3, <2>4 DEF Sides
  <2> QED
    BY <1>1, <2>4, <2>5 DEF Inv, Lockstep, PrimaryWalk, Other
<1>2. Inv => JumpIsSafe
  BY <1>1 DEF JumpIsSafe
<1> QED
  BY <1>2, InvHolds, PTL

-----------------------------------------------------------------------------
(* The exchange implements FieldSwap. *)

Shown(st) == IF st \in {"done", "left"} THEN st ELSE "open"

LEMMA SwapInit == Init => Swap!Init
  BY FreshFacts DEF Init, Swap!Init, Swap!Sides, Sides

\* A step that changes neither what was received nor what the stages amount to.
LEMMA Stutters ==
  ASSUME Inv,
         \A c \in Sides : x'[c].received = x[c].received,
         \A c \in Sides : Shown(stage'[c]) = Shown(stage[c])
  PROVE  UNCHANGED Swap!vars
  BY DEF Swap!vars, Shown

\* The secondary's FIELD is the tag the primary is offering, or one it offered
\* before; the primary's is one the secondary has.
LEMMA HearingRefines ==
  ASSUME Inv, NEW b \in Sides, NEW heard \in BOOLEAN, HandleField(b, heard)
  PROVE  Swap!Next
<1>1. PICK f \in Waiting(b) :
        /\ f.kind = "FIELD" /\ f.tag \in Tags
        /\ stage[b] = "open" /\ stage' = stage
        /\ x'[b] = AfterField(x[b], f.tag) /\ x'[Other(b)] = x[Other(b)]
  BY HandleFieldFacts DEF Inv
<1>2. x'[b].received = x[b].received \cup {f.tag}
  <2>1. x[b] \in ExchangeState
    BY DEF Inv, Types
  <2>2. AfterField(x[b], f.tag).received = x[b].received \cup {f.tag}
    BY <2>1, <1>1, FieldFacts
  <2> QED
    BY <2>2, <1>1
<1>3. f.tag <= x["pri"].cursor /\ x["pri"].cursor \in 0 .. Rounds
  BY <1>1 DEF Inv, Lockstep, FieldsInFlight, Types, ExchangeState, Sides
<1>4. 0 .. f.tag - 1 \subseteq x["pri"].received
  BY <1>1, <1>3, RoundsAssumption DEF Inv, Lockstep, PrimaryWalk, Tags
<1>5. [c \in Sides |-> x'[c].received] =
        [[c \in Sides |-> x[c].received] EXCEPT ![b] = @ \cup {f.tag}]
  BY <1>1, <1>2 DEF Sides, Other
<1>6. CASE b = "sec"
  <2>1. Swap!SecondaryLearns(f.tag)
    BY <1>1, <1>4, <1>5, <1>6 DEF Swap!SecondaryLearns, Sides
  <2> QED
    BY <2>1, <1>1 DEF Swap!Next, Swap!Tags, Tags
<1>7. CASE b = "pri"
  <2>1. f.tag \in x["sec"].received
    BY <1>1, <1>7 DEF Inv, Lockstep, FieldsInFlight
  <2>2. Swap!PrimaryLearns(f.tag)
    BY <2>1, <1>1, <1>4, <1>5, <1>7 DEF Swap!PrimaryLearns, Sides
  <2> QED
    BY <2>2, <1>1 DEF Swap!Next, Swap!Tags, Tags
<1> QED
  BY <1>6, <1>7 DEF Sides

\* A tick that leaves b in state y stutters, or finishes with everything learned.
LEMMA TickRefines ==
  ASSUME Inv, CompleteTogether', NEW b \in Sides, NEW y \in ExchangeState, Become(b, y),
         stage[b] = "open", y.received = x[b].received
  PROVE  [Swap!Next]_(Swap!vars)
<1>1. /\ x'[b] = y /\ x'[Other(b)] = x[Other(b)]
      /\ stage' = [stage EXCEPT ![b] = IF Completed(y) THEN "done" ELSE "open"]
  BY BecomeFacts DEF Inv, Become
<1>2. \A c \in Sides : x'[c].received = x[c].received
  BY <1>1 DEF Sides, Other
<1>3. CASE ~Completed(y)
  <2>1. stage' = stage
    BY <1>1, <1>3 DEF Inv, Types
  <2> QED
    BY <1>2, <2>1, Stutters
<1>4. CASE Completed(y)
  <2>1. \A c \in Sides : x[c].received = Tags
    <3>1. \A c \in Sides : x'[c].received = Tags
      <4>1. stage'[b] = "done"
        BY <1>1, <1>4 DEF Inv, Types
      <4> QED
        BY <4>1 DEF CompleteTogether
    <3> QED
      BY <3>1, <1>2
  <2>2. Swap!Finish(b)
    BY <2>1, <1>1, <1>2, <1>4 DEF Swap!Finish, Swap!Sides, Swap!Tags, Tags, Sides, Inv, Types
  <2> QED
    BY <2>2 DEF Swap!Next, Swap!Sides, Sides
<1> QED
  BY <1>3, <1>4

LEMMA AsideRefines ==
  ASSUME Inv, NEW b \in Sides, Aside(b)
  PROVE  [Swap!Next]_(Swap!vars)
<1>1. x' = x
  BY AsideFacts DEF Inv
<1>2. CASE Drop(b) \/ TearDown(b) \/ Enter(b)
  BY <1>1, <1>2, Stutters DEF Drop, TearDown, Enter, Shown, Inv, Types
<1>3. CASE Leave(b)
  <2>1. Swap!GiveUp(b)
    BY <1>1, <1>3 DEF Leave, Swap!GiveUp, Sides, Inv, Types
  <2> QED
    BY <2>1 DEF Swap!Next, Swap!Sides, Sides
<1> QED
  BY <1>2, <1>3 DEF Aside

LEMMA StepRefines ==
  ASSUME Inv, CompleteTogether', [Next]_vars
  PROVE  [Swap!Next]_(Swap!vars)
<1>1. CASE UNCHANGED vars
  BY <1>1 DEF vars, Swap!vars
<1>2. CASE Next
  <2>1. PICK b \in Sides : Step(b)
    BY <1>2, NextIsStep
  <2>2. x[b] \in ExchangeState
    BY DEF Inv, Types
  <2>3. CASE Aside(b)
    BY <2>3, AsideRefines
  <2>4. CASE Moves(b)
    <3>1. Become(b, Advanced(x[b])) /\ Walking(x[b]) /\ stage[b] = "open"
      BY <2>4 DEF Moves, Advance, Skip, CanAdvance, CanSkip, Ticking
    <3> QED
      BY <2>2, <3>1, AdvancedFacts, TickRefines
  <2>5. CASE Complete(b)
    BY <2>2, <2>5, TickRefines DEF Complete, Ticking
  <2>6. ASSUME NEW heard \in BOOLEAN, HandleField(b, heard)
        PROVE  [Swap!Next]_(Swap!vars)
    BY <2>6, HearingRefines
  <2>7. ASSUME NEW heard \in BOOLEAN, HandleDone(b, heard)
        PROVE  [Swap!Next]_(Swap!vars)
    <3>1. /\ stage' = stage /\ x'[b] = AfterDone(x[b])
          /\ x'[Other(b)] = x[Other(b)]
      BY <2>7, HandleDoneFacts DEF Inv
    <3>2. \A c \in Sides : x'[c].received = x[c].received
      <4>1. AfterDone(x[b]).received = x[b].received
        BY <2>2, DoneFacts
      <4> QED
        BY <4>1, <3>1 DEF Sides, Other
    <3> QED
      BY <3>1, <3>2, Stutters
  <2>8. ASSUME NEW heard \in BOOLEAN, SendField(b, heard)
        PROVE  [Swap!Next]_(Swap!vars)
    BY <2>2, <2>8, SendFieldFacts, TickRefines DEF SendField, Ticking
  <2>9. ASSUME NEW heard \in BOOLEAN, SendDone(b, heard)
        PROVE  [Swap!Next]_(Swap!vars)
    BY <2>2, <2>9, SendDoneFacts, TickRefines DEF SendDone, Ticking
  <2> QED
    BY <2>1, <2>3, <2>4, <2>5, <2>6, <2>7, <2>8, <2>9 DEF Step
<1> QED
  BY <1>1, <1>2

\* The exchange of BoopsHandlers.cpp keeps the promise of FieldSwap: tags are learned
\* one at a time, the secondary first, and nobody finishes before both have them all.
THEOREM ImplementsFieldSwap == Spec => SwapSpec
  BY InvHolds, BothHaveAll, SwapInit, StepRefines, PTL DEF Spec, SwapSpec, Swap!Spec

=============================================================================
