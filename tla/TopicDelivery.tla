--------------------------- MODULE TopicDelivery ---------------------------
(***************************************************************************)
(* What the stream path promises about the topic, whatever becomes of      *)
(* process, thread and broker: records are handled in the order of their   *)
(* offsets and none is passed over, the group's committed offset only      *)
(* grows and covers nothing that is still to be handled, and nothing it    *)
(* covers is handled again.  A record may be handled several times before. *)
(***************************************************************************)
EXTENDS Naturals

VARIABLES
    published,  \* how many records the topic has; offsets begin at 1
    committed,  \* the group's next offset; 0 before any commit
    handled,    \* the records the consumer is done with
    skipped     \* the records older than a group that had no offset

vars == <<published, committed, handled, skipped>>

\* Every record before offset o is dealt with.
AllBefore(o) == 1..(o - 1) \subseteq handled \union skipped

Init == published = 0 /\ committed = 0 /\ handled = {} /\ skipped = {}

Publish ==
    /\ published' = published + 1
    /\ UNCHANGED <<committed, handled, skipped>>

\* A group without an offset begins at the end of the topic.
SkipToEnd ==
    /\ committed = 0
    /\ skipped' = skipped \union 1..published
    /\ UNCHANGED <<published, committed, handled>>

Handle(o) ==
    /\ committed <= o /\ AllBefore(o)
    /\ handled' = handled \union {o}
    /\ UNCHANGED <<published, committed, skipped>>

CommitUpTo(o) ==
    /\ committed <= o /\ AllBefore(o)
    /\ committed' = o
    /\ UNCHANGED <<published, handled, skipped>>

Next ==
    \/ Publish
    \/ SkipToEnd
    \/ \E o \in 1..published : Handle(o)
    \/ \E o \in 1..published + 1 : CommitUpTo(o)

Spec == Init /\ [][Next]_vars
=============================================================================
