------------------------ MODULE MCStatementMessages -------------------------
EXTENDS StatementMessages

Text(sql, result, text, placeholders) == [sql |-> sql, result |-> result, text |-> text, placeholders |-> placeholders]

\* A generated insert and an insert whose key the caller supplies.
insert == Text("insert", "key", <<"word">>, <<"a", "b">>)
natural == Text("natural", "none", <<"word">>, <<"a">>)

\* A generated update: PostgreSQL's tag counts it, SQL Server selects @@rowcount.
update(d) == Text("update", IF d = "postgres" THEN "driver" ELSE "count", <<"word">>, <<"b", "a", "b">>)

\* Registry commands: one statement with a trailing semicolon, and two.
command == Text("command", "driver", <<"word", "semicolon", "blank">>, <<"a">>)
script == Text("script", "driver", <<"word", "semicolon", "word">>, <<>>)

Dialects == {"postgres", "sqlserver"}

MCMessages == [d \in Dialects |->
    {<<insert, update(d), natural>>, <<update(d), script, insert>>, <<natural, command, update(d)>>, <<natural, natural>>}]

MCSingles == [d \in Dialects |-> {update(d)}]

=============================================================================
