------------------------------- MODULE MCOffer -------------------------------
(* A working directory with six files, x = 2, y = 3. *)
EXTENDS Offer
X == 2
Y == 3
F1 == <<Y>>                                   \* y
F2 == <<Y, Dot, X>>                           \* y.x
F3 == <<Y, Y, X>>                             \* yyx
F4 == <<X, Slash, Y, Dot, X>>                 \* x/y.x
F5 == <<X, Slash, Y, Slash, Y>>               \* x/y/y
F6 == <<X, Slash, Y, Slash, Y, Dot, X, X>>    \* x/y/y.xx, with a path too long
MCFiles == {F1, F2, F3, F4, F5, F6}
\* Empty files; transfers of one chunk, of several with and without a shorter last
\* one, of as many as the counter takes (126 bytes) and of one more.
MCSizings == {[f \in MCFiles |-> IF f = F2 THEN i ELSE IF f = F4 THEN j ELSE 0] :
                 i \in {0, 1, 60}, j \in {0, 2, 5, 66, 67}}
One(arg) == {arg}
MCArguments ==
    {{F1}, {F6}, {<<Star, Dot, X>>, F1}, {<<Y, Dot, Star>>}, {<<Star>>}, {<<Star, Star>>},
     {<<X, Slash, Star, Dot, X>>}, {<<X, Slash, Star, Star>>}, {<<Y, Mark, X>>},
     {<<X>>, <<Y, Mark, X>>}, {<<X, Slash, Y, Slash>>}}
MCDirectories ==
    {{<<X>>}, {<<X, Slash, Y>>}, {<<Dot>>}, {<<Dot, Slash, X>>}, {<<X, Slash, Dot>>}}
\* The arguments the claim AsDocumented is made for, and the directories in any spelling.
ASSUME \A args \in MCArguments : \A arg \in args : IsRow(arg)
ASSUME \A args \in MCDirectories : \A arg \in args : IsDirectory(arg, MCFiles)
=============================================================================
