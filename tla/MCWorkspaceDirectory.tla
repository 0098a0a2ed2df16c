------------------------ MODULE MCWorkspaceDirectory ------------------------
(***************************************************************************)
(* Files of up to two workspaces, whose slugs and domains differ, or are   *)
(* the same, or differ in case and blanks only; what is asked for likewise. *)
(***************************************************************************)
EXTENDS WorkspaceDirectory

LowerCase ==
    [c \in {" ", "@", "/", "*", "a", "A", "b", "x", "X", "y"} |->
        IF c = "A" THEN "a" ELSE IF c = "X" THEN "x" ELSE c]

Some ==
    [slug : {<<"a">>, <<" ", "A">>, <<"b">>}, domains : {{<<"x">>}, {<<"X", " ">>, <<"y">>}},
     status : {"", "disabled"}, sound : {TRUE}]

Refused ==
    {[slug |-> s, domains |-> {}, status |-> t, sound |-> b] :
        s \in {<<>>, <<"a">>, <<"a", "/">>}, t \in {"active", "other"}, b \in BOOLEAN}

SomeConfigs ==
    {<<>>} \cup {<<w>> : w \in Some \cup Refused} \cup {<<v, w>> : v, w \in Some}

SomeOriginLists == {<<<<"*">>>>, <<<<"a">>, <<" ", "b">>>>, <<<<>>>>}

SomeSlugs == {<<>>, <<" ">>, <<"a">>, <<"A", " ">>, <<"b">>}

SomeEmails ==
    {<<>>, <<"@", "x">>, <<"a", "@", "x">>, <<" ", "a", "@", "X", " ">>, <<"a", "@", "y">>,
     <<"a", "@", "@", "x">>, <<"a", "@", " ", "x">>}

SomeOrigins == {<<>>, <<"a">>, <<"b">>, <<"x">>}
=============================================================================
