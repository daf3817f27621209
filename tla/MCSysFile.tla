----------------------------- MODULE MCSysFile -----------------------------
(* Small instances of the file system calls for TLC. *)
EXTENDS SysFile, TLC

Abs(s) == [abs |-> TRUE, elems |-> s]
Rel(s) == [abs |-> FALSE, elems |-> s]

A == Abs(<<"a">>)
B == Abs(<<"b">>)
AB == Abs(<<"a", "b">>)

MCCalls ==
  [files |-> {<<"open", A, {"CREATE", "WR"}>>, <<"open", A, {"TRUNC"}>>, <<"write", 2>>,
              <<"read">>, <<"dup">>, <<"close">>, <<"unlink", A>>, <<"mk", A, "DEVICE">>},
   links |-> {<<"mk", A, "BADDEV">>, <<"link", A, B>>, <<"link", A, AB>>, <<"link", Abs(<<>>), B>>,
              <<"unlink", A>>, <<"unlink", B>>, <<"open", B, {}>>, <<"close">>},
   dirs |-> {<<"mk", A, "DIR">>, <<"mk", AB, "DIR">>, <<"unlink", A>>, <<"unlink", AB>>,
             <<"unlink", Abs(<<"a", "..">>)>>, <<"open", Abs(<<"a", "..", "a">>), {}>>,
             <<"close">>},
   cwds |-> {<<"mk", A, "DIR">>, <<"chdir", A>>, <<"chdir", Abs(<<>>)>>, <<"unlink", A>>,
             <<"open", Rel(<<"b">>), {"CREATE"}>>, <<"open", A, {"WR"}>>, <<"link", AB, Rel(<<"a">>)>>,
             <<"close">>},
   procs |-> {<<"open", A, {"CREATE"}>>, <<"unlink", A>>, <<"fork">>, <<"exit">>, <<"pipe">>,
              <<"close">>},
   image |-> {<<"open", A, {"TRUNC", "WR"}>>, <<"open", B, {"WR"}>>, <<"write", 2>>, <<"read">>,
              <<"unlink", A>>, <<"link", A, B>>, <<"close">>}]

MCMaxCalls == [files |-> 4, links |-> 4, dirs |-> 5, cwds |-> 4, procs |-> 5, image |-> 3]
MCImages == [w \in DOMAIN MCMaxCalls |->
               IF w = "image" THEN <<[name |-> "a", blocks |-> 2]>> ELSE <<>>]

(* Two processes that make and remove a file. *)
RaceCalls == [race |-> {<<"mk", A, "DEVICE">>, <<"unlink", A>>}]
RaceMaxCalls == [race |-> 4]
RaceImages == [race |-> <<>>]

Symmetry == Permutations(Proc)
=============================================================================
