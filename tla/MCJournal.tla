----------------------------- MODULE MCJournal -----------------------------
(* Three identities, room for two unacknowledged records and three         *)
(* identities would never fill: the limits are below the number of IDs.    *)
EXTENDS Journal
============================================================================
