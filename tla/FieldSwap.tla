------------------------------ MODULE FieldSwap ------------------------------
(***************************************************************************)
(* What the field exchange between two booping badges promises, without    *)
(* frames, retries or cursors: the fields are swapped in lockstep, one tag *)
(* at a time, the secondary learning each tag just before the primary      *)
(* does, and a badge calls the exchange done only when both of them have   *)
(* everything.  A badge may give up at any point.                          *)
(***************************************************************************)
EXTENDS Naturals

CONSTANT Rounds

VARIABLES learned,   \* learned[b]: the tags b has from its peer
          verdict    \* verdict[b]: how b's exchange stands

Sides == {"pri", "sec"}
Tags  == 0 .. Rounds - 1

vars == <<learned, verdict>>

Init == /\ learned = [b \in Sides |-> {}]
        /\ verdict = [b \in Sides |-> "open"]

\* The secondary learns the tag the primary is offering: the first one the
\* primary does not have yet.
SecondaryLearns(i) ==
  /\ verdict["sec"] = "open"
  /\ 0 .. i - 1 \subseteq learned["pri"]
  /\ learned' = [learned EXCEPT !["sec"] = @ \cup {i}]
  /\ UNCHANGED verdict

\* The primary learns a tag as the answer to its own offer.
PrimaryLearns(i) ==
  /\ verdict["pri"] = "open"
  /\ i \in learned["sec"]
  /\ 0 .. i - 1 \subseteq learned["pri"]
  /\ learned' = [learned EXCEPT !["pri"] = @ \cup {i}]
  /\ UNCHANGED verdict

Finish(b) ==
  /\ verdict[b] = "open"
  /\ \A c \in Sides : learned[c] = Tags
  /\ verdict' = [verdict EXCEPT ![b] = "done"]
  /\ UNCHANGED learned

GiveUp(b) ==
  /\ verdict[b] = "open"
  /\ verdict' = [verdict EXCEPT ![b] = "left"]
  /\ UNCHANGED learned

Next == \/ \E i \in Tags : SecondaryLearns(i) \/ PrimaryLearns(i)
        \/ \E b \in Sides : Finish(b) \/ GiveUp(b)

Spec == Init /\ [][Next]_vars

=============================================================================
