------------------------------- MODULE MCShell -------------------------------
(* Instances of Shell for TLC. *)
EXTENDS Shell, TLC

Maker(n) == [makes |-> [i \in 1 .. n |-> i], reads |-> FALSE, copies |-> FALSE, status |-> 0]
Cat == [makes |-> <<>>, reads |-> TRUE, copies |-> TRUE, status |-> 0]
Grep == [makes |-> <<9>>, reads |-> TRUE, copies |-> FALSE, status |-> 2]
Commands ==
  ("two" :> Maker(2)) @@ ("three" :> Maker(3)) @@ ("cat" :> Cat) @@ ("grep" :> Grep)
    @@ ("missing" :> NotFound)
Programs == DOMAIN Commands

(* All pipelines of one and two commands, some that are longer, and the    *)
(* builtins, each redirected or not.                                       *)
Pipelines ==
  {<<p>> : p \in Programs \cup {"cd"}} \cup {<<p, q>> : p, q \in Programs}
    \cup {<<p, "cat", q>> : p \in {"two", "three"}, q \in {"cat", "grep"}}
    \cup {<<"grep", "grep", "cat", "two">>}
Lines == [cmds : Pipelines, to : {"none", "f"}]
Builtins == {[cmds |-> <<b>>, to |-> "none"] : b \in {"pwd", "cd", "exit"}}
              \cup {[cmds |-> <<"cd">>, to |-> "f"], [cmds |-> <<"cat">>, to |-> "error"]}

(* After a redirected cd: lines that go to another file, or fail to, or    *)
(* move the output of the shell once more.                                 *)
Strays ==
  LET stray == [cmds |-> <<"cd">>, to |-> "f"]
      next == [cmds : {<<"two">>, <<"cd">>, <<"exit">>}, to : {"none", "g", "error"}]
  IN  {<<stray, l, [cmds |-> <<"grep", "cat">>, to |-> f]>> : l \in next, f \in {"none", "f"}}

Empty == [cmds |-> <<>>, to |-> "none"]
BadEmpty == [cmds |-> <<>>, to |-> "error"]
AnyInputs ==
  {<<>>, <<Empty>>, <<BadEmpty>>} \cup {<<l>> : l \in Lines}
    \cup {<<b, l>> : b \in Builtins, l \in Lines} \cup Strays

=============================================================================
