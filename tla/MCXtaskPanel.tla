---------------------------- MODULE MCXtaskPanel -----------------------------
(* Small arguments: up to three choices, five integers, one word that looks  *)
(* like a flag.                                                              *)
EXTENDS XtaskPanel, Integers

MCWords == {"dev", "release", "bench", "-q"}
MCDashed == {"-q"}
MCMinInt == -2
MCChoices == {<<>>, <<"dev">>, <<"dev", "release">>, <<"release", "dev">>,
              <<"bench", "release", "dev">>}
=============================================================================
