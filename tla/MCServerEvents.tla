--------------------------- MODULE MCServerEvents ----------------------------
(* Small instances of ServerEvents. *)
EXTENDS ServerEvents, TLC

CONSTANTS c1, c2

(* Any one failure, lost connection or restart while two lines are printed, *)
(* and four lines, which can fill and pass every channel, without.          *)
ShortScripts == {<<"chat", "chat">>, <<"join", "leave">>, <<"started", "saved">>,
                 <<"other", "closed">>, <<"stream", "oneshot">>, <<"oneshot", "oneshot">>,
                 <<"badstate", "echo">>}
LongScripts  == {<<"chat", "other", "chat", "chat">>, <<"join", "leave", "join", "leave">>,
                 <<"started", "saved", "closed", "started">>,
                 <<"oneshot", "stream", "oneshot", "oneshot">>,
                 <<"other", "chat", "saved", "other">>}
AllScripts == ShortScripts \cup LongScripts
Troubles   == [s \in AllScripts |-> IF s \in ShortScripts THEN 1 ELSE 0]
Symmetry == Permutations(Conns)
=============================================================================
