-------------------------- MODULE MCMessageClients --------------------------
\* Two sessions with tables of one or two entries: one entry for two sessions,
\* or two, of which a refused registration takes one.
EXTENDS MessageClients

MCTableSize == [ dtls |-> 2, l2tpv2 |-> 1, gre_redir |-> 1, pptp |-> 2, map_t |-> 2 ]

\* A poll changes nothing that the clients or a later poll see.  One that began
\* in the middle of a call, or that a call has overtaken, is neither steady nor
\* gone and stays so until it returns: no property speaks of it, and its states
\* differ from each other in nothing else.
MCView ==
    << file, users, mem, table, phase, todo, disturbed, replaced, left_out,
       IF poll.steady \/ poll.gone THEN poll ELSE poll.stage = "idle" >>
=============================================================================
