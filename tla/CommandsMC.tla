----------------------------- MODULE CommandsMC -----------------------------
(* Command lines over three built-ins, one of which fails, and two programs.*)
EXTENDS Commands

MCBuiltin == [t |-> 0, u |-> 0, f |-> 1]
MCPrograms == {"p", "q"}

(* Chains of one operator, pipes and redirections. *)
Ordinary ==
  { <<"t", ">", "&&", "u">>, <<"f", "&&", "p">>, <<"t", "&&", "p", "&&", "u">>,
    <<"t", "&&", "f", "&&", "q">>, <<"t", "||", "u", "||", "p">>,
    <<"f", "||", "t", "||", "p">>, <<"p", "||", "t">>, <<"p", "&&", "q">>,
    <<"p", "|", "q">>, <<"t", "|", "q">>, <<"t", ">", "|", "q", ">">>,
    <<"f", "&&", "t", "|", "q">>, <<"t", "&&", "u", "|", "q">>, <<"p", "|", "q", ">", "&&", "u">>,
    <<"p">>, <<"t", ">">>, <<"p", ">">>, <<"t", ";", "u">> }
Sequence == {<<"t", ";", "p">>}
Conjunction == {<<"f", "&&", "t", "&&", "p">>}
=============================================================================
