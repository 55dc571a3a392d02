------------------------------- MODULE CommandLog -------------------------------
(***************************************************************************)
(* What the Entry Opportunity command queue promises its inputs: a command *)
(* that was accepted stays accepted, and its effects are added to the      *)
(* ordered log of effects at most once and never taken back.               *)
(***************************************************************************)
EXTENDS Naturals, Sequences

CONSTANTS Commands, Legacy
VARIABLES accepted, applied

logVars == <<accepted, applied>>

Init == accepted = Commands \cap {Legacy} /\ applied = <<>>

Accept(c) ==
  /\ c \in Commands \ accepted
  /\ accepted' = accepted \cup {c}
  /\ UNCHANGED applied

Apply(c) ==
  /\ c \in accepted
  /\ \A i \in 1..Len(applied) : applied[i] # c
  /\ applied' = Append(applied, c)
  /\ UNCHANGED accepted

Next == \E c \in Commands : Accept(c) \/ Apply(c)

Spec == Init /\ [][Next]_logVars
=============================================================================
