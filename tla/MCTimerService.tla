--------------------------- MODULE MCTimerService ---------------------------
(* TimerService on a small instance: two timers, a short clock, a host on UTC  *)
(* or ahead of it.  One timer is of any kind; the other is a one-shot, or the  *)
(* bad crontab that ends a restore.                                            *)
EXTENDS TimerService

CONSTANT AnyKind   \* the timer of any kind

MCPlain == [id \in Timers |-> {"once", "badcron"}]
MCKinds == [MCPlain EXCEPT ![AnyKind] = Kinds]
=============================================================================
