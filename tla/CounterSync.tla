---------------------------- MODULE CounterSync -----------------------------
(***************************************************************************)
(* One of the two counters of platform/docker/mqtt-exporter/exporter.py:   *)
(* the broker publishes how many messages it has handled since its start,  *)
(* and the exporter turns that into a Prometheus counter that never falls. *)
(* The broker's last publication is retained and may be delivered again.   *)
(***************************************************************************)
EXTENDS Naturals

CONSTANT MaxMessages \* bound: messages in a life of the exporter

ASSUME MaxMessagesAssumption == MaxMessages \in Nat

VARIABLES
    sent,       \* the broker's count,
    published,  \* and the count it published last
    prev,       \* _counter_state
    counter,    \* the Prometheus counter
    handled,    \* history: what the broker has handled, since the start of the one
                \* that ran when the exporter was started,
    restarted   \* and whether it was restarted meanwhile

counts == <<sent, published, prev, counter, handled, restarted>>

CountInit ==
    /\ sent = 0 /\ published = 0 /\ prev = 0 /\ counter = 0 /\ handled = 0
    /\ restarted = FALSE

Message ==
    /\ handled < MaxMessages
    /\ sent' = sent + 1
    /\ handled' = handled + 1
    /\ UNCHANGED <<published, prev, counter, restarted>>

Publish ==
    /\ published' = sent
    /\ UNCHANGED <<sent, prev, counter, handled, restarted>>

\* Faulty variant: the count is remembered only when it has fallen.
UpdateCounterForgetful(value) ==
    /\ counter' = IF value > prev THEN counter + (value - prev) ELSE counter
    /\ prev' = IF value < prev THEN value ELSE prev
    /\ UNCHANGED <<sent, published, handled, restarted>>

\* _update_counter.  Far below the last value or a little: it becomes the new one.
UpdateCounter(value) ==
    /\ counter' = IF value > prev THEN counter + (value - prev) ELSE counter
    /\ prev' = value
    /\ UNCHANGED <<sent, published, handled, restarted>>

\* A new broker starts from zero and retains nothing.
RestartBroker ==
    /\ sent' = 0
    /\ published' = 0
    /\ restarted' = TRUE
    /\ UNCHANGED <<prev, counter, handled>>

RestartExporter ==
    /\ prev' = 0
    /\ counter' = 0
    /\ handled' = sent
    /\ restarted' = FALSE
    /\ UNCHANGED <<sent, published>>

CountNext ==
    \/ Message \/ Publish \/ RestartBroker \/ RestartExporter
    \/ published > 0 /\ UpdateCounter(published)

-----------------------------------------------------------------------------
\* No message is counted twice, whatever is restarted or delivered again, and without
\* a restart of the broker the counter is the very count that was delivered last.
CountsOnce ==
    /\ counter <= handled
    /\ ~restarted => counter = prev

\* Why: of what the broker has counted, the counter has at most the part that the last
\* value accounts for, or, when that value is of an earlier broker, none at all.
CountInv ==
    /\ {sent, published, prev, counter, handled} \subseteq Nat
    /\ published <= sent
    /\ \/ counter + sent <= handled
       \/ prev <= published /\ counter + sent <= handled + prev
    /\ ~restarted => counter = prev /\ prev <= published

=============================================================================
