------------------------------ MODULE Dictation ------------------------------
(***************************************************************************)
(* What whisper.linux promises the user, with threads, queues and windows *)
(* abstracted away (spec sections 5 and 8.5). Texts are numbered in the   *)
(* order they are spoken. Some are dropped (silence, a wake word, a stale *)
(* result); the rest are taken for output in the order they were spoken, *)
(* every text taken is typed exactly once, in that order, and a text      *)
(* taken is eventually typed. A step may type several texts at once, as   *)
(* a flush of the accumulated texts does.                                 *)
(***************************************************************************)
EXTENDS Naturals, Sequences

VARIABLES
  spoken,        \* number of texts spoken so far (text i is the i-th)
  accepted,      \* the texts taken for output, in that order
  typed          \* the texts typed so far, in that order

vars == <<spoken, accepted, typed>>

Init == spoken = 0 /\ accepted = <<>> /\ typed = <<>>

\* The user speaks one more text.
Speak ==
  /\ spoken' = spoken + 1
  /\ UNCHANGED <<accepted, typed>>

\* Text t, spoken after every text taken so far, is taken for output.
Accept(t) ==
  /\ t \in 1..spoken
  /\ accepted = <<>> \/ t > accepted[Len(accepted)]
  /\ accepted' = Append(accepted, t)
  /\ UNCHANGED <<spoken, typed>>

\* The next k texts taken and not yet typed are typed, in order.
Type(k) ==
  /\ Len(typed) + k <= Len(accepted)
  /\ typed' = typed \o SubSeq(accepted, Len(typed) + 1, Len(typed) + k)
  /\ UNCHANGED <<spoken, accepted>>

TypeSome == \E k \in 1..(Len(accepted) - Len(typed)) : Type(k)

Next == Speak \/ (\E t \in 1..spoken : Accept(t)) \/ TypeSome

Spec == Init /\ [][Next]_vars /\ WF_vars(TypeSome)
=============================================================================
