------------------------------- MODULE ConsoleMC -------------------------------
(***************************************************************************)
(* Console for TLC: a screen of three short rows, commands of one letter.  *)
(***************************************************************************)
EXTENDS Console

MCChars     == STRING
MCBootCalls == <<Call("write", <<"o", "k">>), Call("digits", <<"7">>), Call("writeline", <<>>)>>
MCTestCalls == <<Call("writeline", <<"k">>)>>
MCMessage   == <<Call("write", <<"b", "d">>), Call("digits", <<"0">>), Call("writeline", <<>>)>>
MCListings  == {<<Call("write", <<"d", "r">>), Call("write", <<Blank>>), Call("writeline", <<>>)>>}
MCFileTexts == {<<<<"t", "x">>>>}
MCPrompt    == <<">">>
MCFailed    == <<"!">>
MCCommand   == [ls |-> <<"l">>, mkdir |-> <<"m">>, touch |-> <<"t">>, rm |-> <<"d">>,
                run |-> <<"r">>, cat |-> <<"c">>, write |-> <<"w">>]
MCStackBytes == {[k \in 1 .. 6 |-> NUL], [k \in 1 .. 6 |-> IF k < 6 THEN "x" ELSE NUL]}

Plain(codes) == {<<k>> : k \in codes}
Session(set, left, ahead) == [set |-> set, left |-> left, ahead |-> ahead, test |-> FALSE]
Tested(session) == [session EXCEPT !.test = TRUE]

MCSessions ==
  {Session(Plain({38, 57, 28, 14}), 5, 0),       \* l, blank, Enter, Backspace
   Session(Plain({38, 57, 28}), 5, 1),
   Session(Plain({38, 57, 28}), 6, 0),           \* more words than slots
   Session(Plain({38, 57, 28, 1}), 4, 0),        \* Esc
   Session(Plain({46, 57, 28, 15}), 4, 0),       \* c, Tab
   Session(Plain({42, 170, 30, 28}), 4, 0),      \* Shift, a
   Session(Plain({17, 57, 28}), 7, 0),           \* w
   Session(Plain({19, 57, 28}), 5, 1),           \* r
   Tested(Session(Plain({38, 28}), 3, 1)),
   Session({<<224, 53>>, <<30>>, <<28>>, <<156>>, <<59>>}, 3, 1)}
=============================================================================
