---------------------------- MODULE DesireFlags ----------------------------
(***************************************************************************)
(* What DesireWorker promises to the rest of Kage-Shiki, without timers,   *)
(* levels, clocks or generations: every desire has an `active` flag; some  *)
(* announcer (the thread of a timer) raises flags that were down and then  *)
(* owes exactly one callback on_threshold_exceeded for each flag it        *)
(* raised; anybody may lower all flags (reset_all) or one (reset).         *)
(*                                                                         *)
(* agent/desire_worker.py is modelled in detail by DesireWorker, which     *)
(* implements this specification; AutonomousTurn is composed with this     *)
(* module instead of with the timers.                                      *)
(***************************************************************************)
CONSTANTS DesireTypes,   \* the kinds of desire
          Announcers     \* the threads that may raise a flag

VARIABLES active,        \* [DesireTypes -> BOOLEAN], DesireLevel.active
          owed,          \* pairs <<announcer, desire>> whose callback is due
          announced      \* history: callback made since the flag was last raised

flagVars == <<active, owed, announced>>

TypeOK ==
  /\ active \in [DesireTypes -> BOOLEAN]
  /\ owed \in SUBSET (Announcers \X DesireTypes)
  /\ announced \in [DesireTypes -> BOOLEAN]

Init ==
  /\ active = [d \in DesireTypes |-> FALSE]
  /\ owed = {}
  /\ announced = [d \in DesireTypes |-> FALSE]

Idle(a) == \A d \in DesireTypes : <<a, d>> \notin owed

\* One cycle of an announcer raises the flags in S, all of them down before.
Raise(a, S) ==
  /\ Idle(a)
  /\ \A d \in S : ~active[d]
  /\ active' = [d \in DesireTypes |-> active[d] \/ d \in S]
  /\ owed' = owed \cup ({a} \X S)
  /\ announced' = [d \in DesireTypes |-> announced[d] /\ d \notin S]

\* The announcer makes one of the callbacks it owes.
Announce(a, d) ==
  /\ <<a, d>> \in owed
  /\ owed' = owed \ {<<a, d>>}
  /\ announced' = [announced EXCEPT ![d] = TRUE]
  /\ UNCHANGED active

ResetAll ==
  /\ active' = [d \in DesireTypes |-> FALSE]
  /\ UNCHANGED <<owed, announced>>

Reset(d) ==
  /\ active' = [active EXCEPT ![d] = FALSE]
  /\ UNCHANGED <<owed, announced>>

Next ==
  \/ \E a \in Announcers, S \in SUBSET DesireTypes : Raise(a, S)
  \/ \E a \in Announcers, d \in DesireTypes : Announce(a, d)
  \/ ResetAll
  \/ \E d \in DesireTypes : Reset(d)

Spec == Init /\ [][Next]_flagVars

\* A raised flag suppresses every further callback of that desire, so it must
\* have been announced, or an announcer must still be about to announce it:
\* otherwise the desire is muted until the user types (desire_worker.py:384-404).
RaisedIsAnnounced ==
  \A d \in DesireTypes :
    active[d] => announced[d] \/ \E a \in Announcers : <<a, d>> \in owed
=============================================================================
