--------------------------- MODULE ConversationLog ---------------------------
(***************************************************************************)
(* What the session API promises as long as no session is deleted and the  *)
(* process lives: a set of conversations, each a list of turns that only   *)
(* grows at its end, by one turn at a time, each turn younger than every   *)
(* turn of every conversation before it.                                   *)
(***************************************************************************)
EXTENDS Naturals, Sequences

CONSTANTS Sids, Ids  \* names of conversations, and of turns

VARIABLES open,  \* the conversations that exist
          log    \* the ids of the turns of each

logVars == <<open, log>>

LogInit ==
    /\ open = {}
    /\ log = [s \in Sids |-> <<>>]

Open(s) ==
    /\ s \notin open
    /\ open' = open \cup {s}
    /\ UNCHANGED log

Answer(s, id) ==
    /\ s \in open
    /\ \A r \in Sids : \A i \in DOMAIN log[r] : log[r][i] < id
    /\ log' = [log EXCEPT ![s] = Append(@, id)]
    /\ UNCHANGED open

LogNext == \E s \in Sids : Open(s) \/ \E id \in Ids : Answer(s, id)

LogSpec == LogInit /\ [][LogNext]_logVars
=============================================================================
