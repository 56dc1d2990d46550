--------------------------- MODULE WriteBehindLog ---------------------------
(***************************************************************************)
(* What the bounded background publisher promises: a log of accepted       *)
(* entries, of which a growing prefix is durable.  Entries become durable  *)
(* one at a time, in the order they were accepted and with the contents    *)
(* they were accepted with.  A failure or a restart loses the entries that *)
(* are not durable and nothing else.                                       *)
(***************************************************************************)
EXTENDS Integers

CONSTANTS Entries,  \* what may be submitted
          NoEntry,  \* a position of the log that holds nothing
          MaxSeq    \* the last position

VARIABLES log, accepted, durable

vars == <<log, accepted, durable>>

Positions == 1..MaxSeq

(* The log without the entries beyond a position. *)
UpTo(last) == [n \in Positions |-> IF n <= last THEN log[n] ELSE NoEntry]

Init ==
    /\ log = [n \in Positions |-> NoEntry]
    /\ accepted = 0
    /\ durable = 0

Accept(entry) ==
    /\ accepted < MaxSeq
    /\ accepted' = accepted + 1
    /\ log' = [log EXCEPT ![accepted + 1] = entry]
    /\ UNCHANGED durable

Persist ==
    /\ durable < accepted
    /\ durable' = durable + 1
    /\ UNCHANGED <<log, accepted>>

Lose ==
    /\ log' = UpTo(durable)
    /\ accepted' = durable
    /\ UNCHANGED durable

Next == (\E entry \in Entries : Accept(entry)) \/ Persist \/ Lose

Spec == Init /\ [][Next]_vars
=============================================================================
