---------------------------- MODULE MCWorkbench -----------------------------
(* Sizes, rectangles and texts for the runs of Workbench.                  *)
EXTENDS Workbench

SomeScreens == {<<40, 10>>, <<90, 30>>}
SomeWindows == {[x |-> 1, y |-> 0, width |-> 20, height |-> 3],
                [x |-> 1, y |-> 0, width |-> 20, height |-> 5],
                [x |-> 0, y |-> 0, width |-> 20, height |-> 6]}
SomeSources == {<<"letter">>, <<"letter", "letter">>, <<"letter", "cjk", "newline", "letter">>}
=============================================================================
