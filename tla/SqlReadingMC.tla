---------------------------- MODULE SqlReadingMC ----------------------------
EXTENDS SqlReading

Chars(set) == {<<c>> : c \in set}

\* Literals and escapes, comments of both kinds, dollar quotes, and what
\* colons can mean.
MCFamilies ==
    {Chars({"'", "\"", "\\", "E", "p", ";"}),
     Chars({"/", "*", "'", "p", ";"}),
     Chars({"/", "*", "-", "\n", "p"}),
     Chars({"$", "p", "1", "0", "'", ";"}) \cup {<<"$", "a", "$">>},
     Chars({"[", "]", ":", "a", "'"}) \cup {<<"$", "1">>, <<"$", "$">>}}

=============================================================================
