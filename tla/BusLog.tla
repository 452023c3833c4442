------------------------------- MODULE BusLog -------------------------------
(***************************************************************************)
(* What a message bus promises its users (traits/core.rs: Writer, Reader): *)
(* one log of messages in reservation order.  A message becomes visible    *)
(* when its writer commits it, is never withdrawn, and each reader takes   *)
(* the messages one by one, in order, whole, and never past an entry that  *)
(* is not committed.  Nothing is said of memory, laps or files: the bus    *)
(* modules implement this one.                                             *)
(***************************************************************************)
EXTENDS Integers

CONSTANTS Readers,
          Lens,        \* the lengths a message may have
          Nothing      \* what a reader holds between two messages

VARIABLES tail,        \* position of the next message
          entry,       \* position -> [len, state], for every message so far
          cursor,      \* reader -> position it reads next
          holds        \* reader -> position of the message being handled

vars == <<tail, entry, cursor, holds>>

States == {"reserved", "committed", "hole"}

Init == /\ tail = 0
        /\ entry = [p \in {} |-> 0]
        /\ cursor = [r \in Readers |-> 0]
        /\ holds = [r \in Readers |-> Nothing]

Append(len) ==
    /\ entry' = [p \in DOMAIN entry \cup {tail} |->
                    IF p = tail THEN [len |-> len, state |-> "reserved"] ELSE entry[p]]
    /\ tail' = tail + len
    /\ UNCHANGED <<cursor, holds>>

\* Entries are settled once, in any order: committed, or left as a hole for good.
Settle(p, state) ==
    /\ entry[p].state = "reserved"
    /\ entry' = [entry EXCEPT ![p].state = state]
    /\ UNCHANGED <<tail, cursor, holds>>

Take(r) ==
    /\ holds[r] = Nothing
    /\ cursor[r] \in DOMAIN entry
    /\ entry[cursor[r]].state = "committed"
    /\ holds' = [holds EXCEPT ![r] = cursor[r]]
    /\ cursor' = [cursor EXCEPT ![r] = @ + entry[@].len]
    /\ UNCHANGED <<tail, entry>>

Finish(r) ==
    /\ holds[r] # Nothing
    /\ holds' = [holds EXCEPT ![r] = Nothing]
    /\ UNCHANGED <<tail, entry, cursor>>

Next == \/ \E len \in Lens : Append(len)
        \/ \E p \in DOMAIN entry : Settle(p, "committed") \/ Settle(p, "hole")
        \/ \E r \in Readers : Take(r) \/ Finish(r)

Spec == Init /\ [][Next]_vars

=============================================================================
