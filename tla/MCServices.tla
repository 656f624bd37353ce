----------------------------- MODULE MCServices -----------------------------
(* The inputs of the services for the checker. *)
EXTENDS Services

Pages3 == <<[path |-> <<"h", "a">>, length |-> 1, priv |-> FALSE],
            [path |-> <<"h", "a", "b">>, length |-> 3, priv |-> TRUE],
            [path |-> <<"h", "c", "">>, length |-> 9, priv |-> FALSE]>>
MCTodos == {Pages3, Reverse(Pages3)}

MCPeriods == ("hour" :> 4) @@ ("minute" :> 2) @@ ("second" :> 1)
MCHits == {<<1, 0>>, <<3, 2>>}

\* lines of one byte, "P" and "Q" the headers
P == "\n"
MCHeaders == (<<"P">> :> [priority |-> "1", test |-> TRUE])
               @@ (<<"Q">> :> [priority |-> "0", test |-> FALSE])
               @@ (<<"R">> :> [priority |-> "INIT", test |-> TRUE])
               @@ (<<"S">> :> [priority |-> "END", test |-> FALSE])
Good == <<"P", P, "u", "\r", P, P, "v", P>>
Twice == <<"Q", "\r", P, "u", P, "u", P>>
One == <<"P", P, "u", P>>
NoHeader == <<"u", P>>
LongLine == <<"P", P, "x", "x", "x", "x", P, "u", P>>
Again == <<"R", P, "Q", P, "u", P>>
Mark == <<"S", P, "u", P, "v", P>>
MCScripts == {<<Again, Mark>>, <<Good, NoHeader>>, <<LongLine>>, <<Twice, One>>, <<NoHeader, <<>>, <<>>>>}
MCValid == {<<"u">>, <<"v">>}

End == <<"\r", "\n", "\r", "\n">>
Get(name, more) == <<"G", "E", "T", " ">> \o name \o <<" ", "1.0">> \o more
MCRequests ==
    {Get(n, End) : n \in {<<"/dns", ".html">>, <<"/stats", ".html">>, <<"/">>,
                          <<"/output", ".html", "x">>}}
      \union {Get(<<"/urls", ".html">>, <<"\r", "\n", "h">> \o End), Get(<<"/">>, <<"\n", "\n">>),
              <<"P", "O", "S", "T">>, Get(<<"/stats", ".html">>, <<"\r", "\n", "h", "\r", "\n", "h">> \o End),
              <<"G", "E", "T", " ", "/">> \o End}

MCValues == ("depthInSite" :> 5) @@ ("limitTime" :> 0)
MCAtoi == ("2" :> 2) @@ ("7" :> 7)
MCExtOf == ("u.mp3" :> ".mp3") @@ ("v" :> "")
Lines == {<<"depthInSite", "2">>, <<"limitTime", "7">>, <<"specificSearch">>,
          <<"startUrl", "u.mp3">>, <<"limitToDomain", ".fr", ".uk", "end">>,
          <<"forbiddenExtensions", ".mp3", ".gz", "end">>,
          <<"specificSet", "audio", ".mp3", "image", ".jpg", "end", "end">>}
OrdersOf(S) == {FlattenSeq(s) : s \in SetToSeqs(S)}
MCFiles ==
    UNION {OrdersOf(S) : S \in kSubset(4, Lines)}
      \union {<<"startUrl", "bad">>, <<"limitToDomain", ".fr">>, <<"nonsense">>,
              <<"forbiddenExtensions", ".gz">>, <<"specificSet", "a", "end">>,
              <<"startUrl", "v", "startUrl", "v", "limitToDomain", "end">>}
=============================================================================
