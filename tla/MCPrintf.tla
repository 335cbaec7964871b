------------------------------- MODULE MCPrintf -------------------------------
(***************************************************************************)
(* Printf with short, int and long of 4, 6 and 8 bits, on the formats made *)
(* of one directive with its flags, width, length and specifier, a few     *)
(* with several directives or with a width too large for an int, and every *)
(* argument at a boundary of a type.                                       *)
(***************************************************************************)
EXTENDS Printf

MCSymbol ==
  {"%", "-", " ", "(", ")", "0", "1", "2", "3", "4", "5", "6", "7", "8", "9",
   "a", "b", "c", "d", "e", "f", "A", "B", "C", "D", "E", "F",
   "g", "h", "l", "n", "o", "p", "q", "s", "u", "x", "X", "y", "z"}

Flags == {<<>>, <<"0">>, <<"-">>, <<"0", "-">>, <<"-", "0">>}
Widths == {<<>>, <<"3">>, <<"1", "0">>}
Lengths == {<<>>, <<"h">>, <<"l">>, <<"l", "l">>}
Specifiers == {<<"d">>, <<"u">>, <<"x">>, <<"X">>, <<"p">>, <<"s">>, <<"c">>, <<"q">>, <<"%">>, <<>>}

OneDirective ==
  {<<"a", "%">> \o f \o w \o l \o s : f \in Flags, w \in Widths, l \in Lengths, s \in Specifiers}

MCFormats ==
  OneDirective \cup
  { <<>>, <<"%", "%", "%">>,
    <<"%", "5", "d", "%", "-", "4", "s", "b">>,
    <<"%", "l", "x", "%", "0", "6", "d", "%", "c">>,
    <<"%", "3", "1", "d">>, <<"%", "3", "2", "d">>, <<"%", "-", "9", "9", "7", "u">> }

Number(n) == Arg(n, <<"x", "y">>)
MCArgLists ==
  {<<Arg(n, t), Number(255), Number(128)>> :
     n \in {0, 5, 7, 8, 15, 31, 32, 63, 127, 128, 200, 255},
     t \in {<<"x">>}}
  \cup {<<Arg(200, t), Number(10), Number(9)>> : t \in {NoText, <<"l", "o", "n", "g">>}}

=============================================================================
