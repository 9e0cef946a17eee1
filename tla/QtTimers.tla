------------------------------ MODULE QtTimers ------------------------------
(***************************************************************************)
(* The QTimer objects of one process and the order in which Qt's event     *)
(* loop activates them.  Qt is not part of the repository: this module is  *)
(* what the handlers in src/src rely on when they call start(), stop() and *)
(* changeInterval() (Qt 3 signatures: start(msecs, singleShot)).           *)
(*                                                                         *)
(* A set of timers is a function `ts' whose domain is the set of timers    *)
(* that are running and whose values are the ticks left until each one is  *)
(* due; a value of -n is a timer that is n ticks late.                     *)
(***************************************************************************)
EXTENDS Integers

(* QTimer::start(n): an active timer is stopped first, so the old deadline *)
(* is forgotten whatever it was.                                           *)
Started(ts, t, n) ==
  [u \in DOMAIN ts \cup {t} |-> IF u = t THEN n ELSE ts[u]]

(* start(n) of every timer of T. *)
AllStarted(ts, T, n) ==
  [u \in DOMAIN ts \cup T |-> IF u \in T THEN n ELSE ts[u]]

(* QTimer::stop(), and what a single-shot timer does to itself just before *)
(* it emits timeout().                                                     *)
Stopped(ts, T) == [u \in DOMAIN ts \ T |-> ts[u]]

(* A periodic timer keeps its phase unless it has fallen a whole period    *)
(* behind.                                                                 *)
Rearmed(ts, t, period) ==
  [ts EXCEPT ![t] = IF @ + period < 0 THEN period ELSE @ + period]

(* One tick of real time.                                                  *)
Elapsed(ts) == [t \in DOMAIN ts |-> ts[t] - 1]

(* The event loop activates due timers one at a time, earliest deadline    *)
(* first; between equal deadlines either may come first.                   *)
DueFirst(ts, t) ==
  /\ t \in DOMAIN ts
  /\ ts[t] <= 0
  /\ \A u \in DOMAIN ts : ts[t] <= ts[u]

(* Time may pass over a due timer only while none is `maxLate' ticks late: *)
(* handlers are short, and nothing else runs in the process.               *)
MayElapse(ts, maxLate) == \A t \in DOMAIN ts : ts[t] > -maxLate
=============================================================================
