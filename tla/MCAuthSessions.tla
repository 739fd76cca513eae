--------------------------- MODULE MCAuthSessions ---------------------------
\* Two requests at a time, one address, one failure for each subject.
EXTENDS AuthSessions

MCLimit == [s \in Subjects |-> 1]
=============================================================================
