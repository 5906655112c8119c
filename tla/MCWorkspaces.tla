---------------------------- MODULE MCWorkspaces ----------------------------
(* Small worlds for Workspaces: workflow files seen from everywhere.       *)
EXTENDS Naturals, Sequences

Name(c) == <<c>>
NameA == Name("a")
NameB == Name("b")
NameW == Name("w")
HomeDir == <<Name("h")>>

\* /a/w, /a/b/w, and one with a dash in its name, /a/b-w.
DashedFile  == <<NameA, <<"b", "-", "w">>>>
SomeFiles == {<<NameA, NameW>>, <<NameA, NameB, NameW>>, DashedFile}

Dot    == <<".">>
DotDot == <<".", ".">>
Tilde  == <<"~">>
DotVik == <<".", "vik">>

Rel(cwd, path) == [cwd |-> cwd, abs |-> FALSE, path |-> path]
Abs(path)      == [cwd |-> <<>>, abs |-> TRUE, path |-> path]

\* From the directory of the file, from above, from below, and absolute.
NormalArguments ==
    {Rel(<<NameA>>, <<Dot, NameW>>), Rel(<<>>, <<NameA, NameW>>), Rel(<<NameA, NameB>>, <<DotDot, NameW>>),
     Abs(<<NameA, NameW>>), Rel(<<NameA, NameB>>, <<NameW>>), Rel(<<NameA>>, <<NameB, DotDot, NameB, NameW>>),
     Abs(<<NameA, NameB, NameW>>)}
SomeArguments ==
    {Abs(<<NameA, NameB, DotDot, NameW>>), Rel(<<NameA>>, <<NameB, NameW>>), Abs(DashedFile)}

Login      == [home |-> HomeDir, vikHome |-> <<>>]
WithHome   == [home |-> HomeDir, vikHome |-> <<[abs |-> FALSE, path |-> <<Tilde, NameA>>]>>]
NoHome     == [home |-> <<>>, vikHome |-> <<>>]
OneLogin   == {Login}
AllEnvs    == {Login, WithHome, NoHome}

Omitted  == [kind |-> "omitted", abs |-> FALSE, path |-> <<>>]
Null     == [kind |-> "null", abs |-> FALSE, path |-> <<>>]
Shared   == [kind |-> "given", abs |-> TRUE, path |-> <<NameB>>]
Relative == [kind |-> "given", abs |-> FALSE, path |-> <<DotDot, NameB>>]
AtHome   == [kind |-> "given", abs |-> FALSE, path |-> <<Tilde, NameA>>]
AllRoots == {Omitted, Null, Shared, Relative, AtHome}
OnlyNull == {Null}

NoObstacles == {}
HomeTaken == {Append(HomeDir, DotVik)}
=============================================================================
