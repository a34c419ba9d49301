--------------------------- MODULE AtLeastOnceQueue ---------------------------
(***************************************************************************)
(* What the way of a command from nest_api to a worker promises, without    *)
(* connections, channels, retries and processes: a command that was         *)
(* accepted stays until it was carried out and answered, it may be carried  *)
(* out again, also when it is settled or lost, and only acknowledgements on *)
(* the wrong channel, counted in mixups, may settle a command undone.       *)
(*                                                                          *)
(* CommandDelivery implements it.                                           *)
(***************************************************************************)
EXTENDS Naturals, TLAPS

CONSTANT Cmd

VARIABLES status, runs, answered, mixups

vars == <<status, runs, answered, mixups>>

Init ==
  /\ status = [c \in Cmd |-> "new"]
  /\ runs = [c \in Cmd |-> 0]
  /\ answered = {}
  /\ mixups = 0

Becomes(C, value) == [c \in Cmd |-> IF c \in C THEN value ELSE status[c]]

\* nest_api publishes the command, or gives it up.
Accept(c) ==
  /\ status[c] = "new" /\ status' = Becomes({c}, "held")
  /\ UNCHANGED <<runs, answered, mixups>>

Refuse(C) ==
  /\ \A c \in C : status[c] = "new"
  /\ status' = Becomes(C, "failed")
  /\ UNCHANGED <<runs, answered, mixups>>

\* The queue is not durable, and a publisher may write to a dead connection.
Lose(C) ==
  /\ \A c \in C : status[c] \in {"new", "held"}
  /\ status' = Becomes(C, "lost")
  /\ UNCHANGED <<runs, answered, mixups>>

\* A handler whose delivery went back to the queue carries its command out all the same.
Run(c) ==
  /\ status[c] \in {"held", "settled", "lost"}
  /\ runs' = [runs EXCEPT ![c] = @ + 1]
  /\ UNCHANGED <<status, answered, mixups>>

Answer(c) ==
  /\ runs[c] > 0
  /\ answered' = answered \cup {c}
  /\ UNCHANGED <<status, runs, mixups>>

Settle(c) ==
  /\ status[c] = "held" /\ c \in answered
  /\ status' = Becomes({c}, "settled")
  /\ UNCHANGED <<runs, answered, mixups>>

\* An acknowledgement on the wrong channel settles some command or none.
Mistake ==
  /\ mixups' = mixups + 1
  /\ \E C \in SUBSET {c \in Cmd : status[c] = "held"} :
        (\A a, b \in C : a = b) /\ status' = Becomes(C, "settled")
  /\ UNCHANGED <<runs, answered>>

Next ==
  \/ \E c \in Cmd : Accept(c) \/ Run(c) \/ Answer(c) \/ Settle(c)
  \/ \E C \in SUBSET Cmd : Refuse(C) \/ Lose(C)
  \/ Mistake

Spec == Init /\ [][Next]_vars

------------------------------------------------------------------------------
TypeOK ==
  /\ status \in [Cmd -> {"new", "held", "settled", "lost", "failed"}]
  /\ runs \in [Cmd -> Nat] /\ answered \subseteq Cmd /\ mixups \in Nat

\* As long as no acknowledgement went to the wrong channel, a settled command was carried
\* out and answered, and in any case only commands carried out were answered.
DoneWhenSettled ==
  /\ \A c \in answered : runs[c] > 0
  /\ mixups = 0 =>
       \A c \in Cmd : status[c] = "settled" => runs[c] > 0 /\ c \in answered

Inv == TypeOK /\ DoneWhenSettled

LEMMA InitHolds == Init => Inv
BY DEF Init, Inv, TypeOK, DoneWhenSettled

LEMMA StepHolds == Inv /\ [Next]_vars => Inv'
<1> SUFFICES ASSUME Inv, [Next]_vars PROVE Inv'
  OBVIOUS
<1> USE DEF Inv, TypeOK, DoneWhenSettled, Becomes
<1>1. ASSUME NEW c \in Cmd, Accept(c) \/ Settle(c) PROVE Inv'
  BY <1>1 DEF Accept, Settle
<1>2. ASSUME NEW c \in Cmd, Run(c) PROVE Inv'
  BY <1>2 DEF Run
<1>3. ASSUME NEW c \in Cmd, Answer(c) PROVE Inv'
  BY <1>3 DEF Answer
<1>4. ASSUME NEW C \in SUBSET Cmd, Refuse(C) \/ Lose(C) PROVE Inv'
  BY <1>4 DEF Refuse, Lose
<1>5. CASE Mistake
  BY <1>5 DEF Mistake
<1>6. CASE UNCHANGED vars
  BY <1>6 DEF vars
<1> QED BY <1>1, <1>2, <1>3, <1>4, <1>5, <1>6 DEF Next

\* The abstract queue keeps its promise: what it settles is done.
THEOREM SettledIsDone == Spec => []DoneWhenSettled
<1>1. Spec => []Inv
  BY InitHolds, StepHolds, PTL DEF Spec
<1> QED BY <1>1, PTL DEF Inv
==============================================================================
