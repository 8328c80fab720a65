------------------------------ MODULE MCRanking ------------------------------
(***************************************************************************)
(* Instances of Ranking for TLC.                                           *)
(***************************************************************************)
EXTENDS Ranking, TLC

CONSTANTS py, pydev, js, ecma, sql, qa, nobody, english

Names   == {py, pydev, js, ecma, sql, qa}
KeyOf   == [n \in Names |-> CASE n = pydev -> py [] n = ecma -> js [] OTHER -> n]

Tirana  == <<"tirana", "albania">>
Places  == {Tirana, <<"tirana">>}

Skill(label, years) == [label |-> label, years |-> years]
Must(name) == [name |-> name, must |-> TRUE]
Nice(name) == [name |-> name, must |-> FALSE]

\* On file from before the aliases are a skill under both its names, and another
\* under its alias only.  What extractions read: an alias with years, the same
\* skill without, others.
Contents == {
  [skills |-> <<Skill(pydev, 3), Skill(py, nobody)>>, facts |-> {english},
   place |-> <<"tirana">>, role |-> "backend", seniority |-> nobody],
  [skills |-> <<Skill(py, nobody), Skill(js, 1)>>, facts |-> {},
   place |-> <<"durres", "albania">>, role |-> "data", seniority |-> "senior"]}

Ver(skills, rules) == [skills |-> skills, rules |-> rules, role |-> "backend",
                       seniority |-> "senior"]

Versions == {
  Ver(<<Must(py), Nice(pydev), Nice(js)>>, {[kind |-> "skill", value |-> py]}),
  Ver(<<Must(js), Must(sql), Must(qa), Nice(py)>>, {[kind |-> "years", value |-> 3]}),
  Ver(<<Nice(py), Nice(js), Nice(sql)>>,
      {[kind |-> "location", value |-> Tirana], [kind |-> "fact", value |-> english]}),
  Ver(<<Must(sql), Nice(py)>>, {}),
  Ver(<<>>, {})}
=============================================================================
