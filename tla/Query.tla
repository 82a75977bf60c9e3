------------------------------- MODULE Query -------------------------------
(***************************************************************************)
(* What a fetch promises its caller (spec 4.5 and 8), whatever access path *)
(* the planner takes: the rows of the table that satisfy every restriction *)
(* are handed back one at a time in storage order; the fetch ends "ok"     *)
(* only once all of them are delivered, or ends "error" at any point; and  *)
(* it does end.                                                            *)
(***************************************************************************)
EXTENDS Sequences, SequencesExt

CONSTANTS Columns, Vals, Tables, RestrictionSets

VARIABLES
  table,     \* the stored rows, in storage order
  restr,     \* the restriction vector
  out,       \* the rows delivered so far
  outcome    \* "running", "ok" or "error"

qvars == <<table, restr, out, outcome>>

Satisfies(row, R) == \A x \in 1..Len(R) : row[R[x].name] = R[x].value
Answer == SelectSeq(table, LAMBDA row : Satisfies(row, restr))

Init ==
  /\ table \in Tables
  /\ restr \in RestrictionSets
  /\ out = <<>>
  /\ outcome = "running"

\* The next row of the answer is delivered.
Deliver ==
  /\ outcome = "running"
  /\ Len(out) < Len(Answer)
  /\ out' = Append(out, Answer[Len(out) + 1])
  /\ UNCHANGED <<table, restr, outcome>>

\* The whole answer has been delivered; success is reported.
Complete ==
  /\ outcome = "running"
  /\ out = Answer
  /\ outcome' = "ok"
  /\ UNCHANGED <<table, restr, out>>

\* The fetch gives up with a failure status.
Fail ==
  /\ outcome = "running"
  /\ outcome' = "error"
  /\ UNCHANGED <<table, restr, out>>

Next == Deliver \/ Complete \/ Fail

Spec == Init /\ [][Next]_qvars /\ WF_qvars(Deliver \/ Complete)

=============================================================================
