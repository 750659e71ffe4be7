--------------------------- MODULE MCSourceLoader ---------------------------
EXTENDS SourceLoader

T(form, ip, host) == [form |-> form, ip |-> ip, host |-> host]

Blocked == T("words", "local", "name")
Wildcard == T("words", "local", "wildcard")
Redirected == T("words", "valid", "wildcard")
Localhost == T("words", "local", "localhost")
Comment == T("comment", "local", "name")
Allowed == T("word", "local", "wildcard")
Annotated == T("annotated", "local", "name")
Initial == T("initial", "local", "name")

MCSources ==
    { [lines |-> <<Blocked, Redirected, Blocked, Wildcard, Blocked>>, allow |-> FALSE, redirect |-> FALSE],
      [lines |-> <<Redirected, Blocked, Redirected, Localhost, Redirected>>, allow |-> FALSE, redirect |-> TRUE],
      [lines |-> <<Allowed, Comment, Annotated, Initial>>, allow |-> TRUE, redirect |-> FALSE],
      [lines |-> <<>>, allow |-> FALSE, redirect |-> FALSE] }
=============================================================================
