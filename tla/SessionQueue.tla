---------------------------- MODULE SessionQueue ----------------------------
(***************************************************************************)
(* What the gateway promises for the messages of one session: they are     *)
(* processed one at a time and in the order of their arrival, whatever     *)
(* becomes of each; a restart loses those that wait and the one at work.   *)
(***************************************************************************)
EXTENDS Naturals

CONSTANTS
  Msg,    \* messages, numbered in the order of their arrival
  None    \* nobody is at work

VARIABLES
  waiting,   \* messages that have arrived and are not taken up yet
  busy,      \* the message that is being processed
  over       \* messages that are not to be processed (again)

vars == <<waiting, busy, over>>

Init == waiting = {} /\ busy = None /\ over = {}

Arrive(m) ==
  /\ m \notin waiting \cup over /\ m # busy
  /\ waiting' = waiting \cup {m}
  /\ UNCHANGED <<busy, over>>

Take(m) ==
  /\ busy = None
  /\ m \in waiting /\ \A n \in waiting : m <= n
  /\ busy' = m
  /\ waiting' = waiting \ {m}
  /\ UNCHANGED over

Finish ==
  /\ busy # None
  /\ over' = over \cup {busy}
  /\ busy' = None
  /\ UNCHANGED waiting

Restart ==
  /\ over' = over \cup waiting \cup ({busy} \ {None})
  /\ waiting' = {} /\ busy' = None

Next == (\E m \in Msg : Arrive(m) \/ Take(m)) \/ Finish \/ Restart

Spec == Init /\ [][Next]_vars
=============================================================================
