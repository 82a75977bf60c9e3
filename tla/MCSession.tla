----------------------------- MODULE MCSession -----------------------------
(* Two primary keys and one name value: enough for a clash on insert, an  *)
(* update that moves a row onto another one, a delete that removes two    *)
(* rows by name, and grouped work ahead of an auto-commit call.            *)
EXTENDS Session

MCIds == {"k1", "k2"}
MCVals == {"a"}

\* One vector per branch of the planner for User (index IDX_id on [id]):
\* empty (Err), composite match on IDX_id, full scan, partial match on
\* IDX_id with a residual name1, and two restrictions on one column over
\* a full scan and over the partial match.
MCSelectVectors ==
  LET Id(k) == [name |-> "id", value |-> k]
      Name(v) == [name |-> "name1", value |-> v]
  IN {<<>>, <<Id("k1")>>, <<Name("a")>>, <<Name("a"), Id("k1")>>,
      <<Name("a"), Name(NullText)>>, <<Id("k1"), Id("k2")>>}

=============================================================================
