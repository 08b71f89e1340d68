------------------------------ MODULE EventLog ------------------------------
(***************************************************************************)
(* What a run's stored event log promises to those who read it by number:  *)
(* the stream, the pages of older events, the review packet.  Nothing here *)
(* says how the events are stored, batched or written.                     *)
(***************************************************************************)
EXTENDS Naturals, FiniteSets

VARIABLE log   \* [0..n-1 -> the event of that seq]

\* "seq is a gapless counter from 0" (run_log.py).
Numbered(events) ==
  \A i \in DOMAIN events : 0..i \subseteq DOMAIN events /\ events[i].seq = i

\* Each execution's events are the first ones it emitted, in that order.
InEmissionOrder(events) ==
  \A i \in DOMAIN events :
    events[i].n = 1 + Cardinality({j \in DOMAIN events :
                                     j < i /\ events[j].by = events[i].by})

\* Every event keeps its number.
Continues(old, new) ==
  DOMAIN old \subseteq DOMAIN new /\ \A i \in DOMAIN old : new[i] = old[i]

Init == log = [i \in {} |-> 0]

\* What was logged stays where it is, and what comes is put after it.
Extend ==
  /\ DOMAIN log' # DOMAIN log
  /\ Numbered(log') /\ InEmissionOrder(log')
  /\ Continues(log, log')

Spec == Init /\ [][Extend]_log
=============================================================================
