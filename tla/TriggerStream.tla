----------------------------- MODULE TriggerStream -----------------------------
(***************************************************************************)
(* What leb gives a consumer of its output when the front ends lose        *)
(* nothing: the events of the triggers, in order, each holding exactly one *)
(* fragment of every node.  The stream may have gaps, for two reasons      *)
(* only: so many events wait for the consumer that the next one is         *)
(* dropped, or its send fails; and each failed send lets one event more    *)
(* wait.                                                                   *)
(***************************************************************************)
EXTENDS Integers, Sequences

CONSTANTS Node,      \* the front ends
          MaxTrig,   \* triggers of the run
          TrigMod,   \* trigger numbers are written modulo TrigMod
          MaxPend,   \* events that may wait for the consumer
          MaxErrors  \* sends that may fail

VARIABLES out,    \* what was put in the queue to the consumer, from the start
          due,    \* the trigger whose event is the next to be built
          held,   \* how much of out waits in the queue
          errors  \* how many sends have failed

vars == <<out, due, held, errors>>

\* The event of trigger t, built from one fragment of every node.
EventOf(t) == [event_number |-> t % TrigMod,
               frags        |-> [id : Node, trig : {t}]]

HasRoom == held < MaxPend + errors

Init == out = << >> /\ due = 0 /\ held = 0 /\ errors = 0

Emit == /\ HasRoom
        /\ out' = Append(out, EventOf(due))
        /\ held' = held + 1
        /\ UNCHANGED errors

Fail == /\ HasRoom /\ errors < MaxErrors
        /\ errors' = errors + 1
        /\ UNCHANGED <<out, held>>

Drop == ~ HasRoom /\ UNCHANGED <<out, held, errors>>

\* The next event is built, and given to the consumer or not.
Build == /\ due < MaxTrig
         /\ due' = due + 1
         /\ Emit \/ Fail \/ Drop

\* The consumer has taken an event, or was disconnected and has lost it.
Release == held > 0 /\ held' = held - 1 /\ UNCHANGED <<out, due, errors>>

Next == Build \/ Release

Spec == Init /\ [][Next]_vars /\ WF_vars(Build)
================================================================================
