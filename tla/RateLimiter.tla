----------------------------- MODULE RateLimiter -----------------------------
(***************************************************************************)
(* execution/ratelimit.py: the limiter of one command that executes.  The   *)
(* executor asks it before each write, sends when it is let through, and    *)
(* pauses it when the broker answers 429 (executor.py, _submit).  The clock *)
(* moves between any two steps, also between the check and the record, and  *)
(* between the record and the moment the broker gets the write.             *)
(*                                                                         *)
(* Every command makes a limiter of its own: what it promises holds for the *)
(* writes of one command.                                                  *)
(***************************************************************************)
EXTENDS Integers, Sequences

CONSTANTS Capacity,   \* capacity: acquisitions in a window
          Per,        \* per_seconds: the window
          Pauses,     \* the Retry-After a 429 may carry
          MaxTime     \* bound of the clock

VARIABLES now,        \* the monotonic clock
          granted,    \* every acquisition of the command
          head,       \* the deque _sent is granted from here on
          paused,     \* _paused_until
          turn, wake, \* where the executor is; when its sleep ends
          arrived     \* the writes the broker got

limiterVars == <<now, granted, head, paused, turn, wake, arrived>>

LimiterInit ==
    /\ now = 0 /\ granted = <<>> /\ head = 1 /\ paused = 0
    /\ turn = "idle" /\ wake = 0 /\ arrived = <<>>

Tick == now < MaxTime /\ now' = now + 1 /\ UNCHANGED <<granted, head, paused, turn, wake, arrived>>

(* _prune: what is a window old or older leaves the deque.                    *)
Pruned(h) ==
    /\ h \in head .. Len(granted) + 1
    /\ \A i \in head .. h - 1 : now - granted[i] >= Per
    /\ h <= Len(granted) => now - granted[h] < Per

Later(s, t) == IF s >= t THEN s ELSE t

(* wait_time: when the next acquisition is allowed.                            *)
FreeAt(h) ==
    IF Len(granted) - h + 1 >= Capacity THEN Later(paused, granted[h] + Per) ELSE paused

Ask ==
    /\ turn \in {"idle", "asking"}
    /\ \E h \in 1 .. Len(granted) + 1 :
         /\ Pruned(h) /\ head' = h
         /\ turn' = IF FreeAt(h) <= now THEN "free" ELSE "asleep"
         /\ wake' = FreeAt(h)
    /\ UNCHANGED <<now, granted, paused, arrived>>

Wake == turn = "asleep" /\ now >= wake /\ turn' = "asking" /\ UNCHANGED <<now, granted, head, paused, wake, arrived>>

(* The clock is read again for the record.                                    *)
Grant ==
    /\ turn = "free" /\ turn' = "granted"
    /\ granted' = Append(granted, now)
    /\ UNCHANGED <<now, head, paused, wake, arrived>>

Send ==
    /\ turn = "granted" /\ turn' = "sent"
    /\ arrived' = Append(arrived, now)
    /\ UNCHANGED <<now, granted, head, paused, wake>>

Answer ==
    /\ turn = "sent" /\ turn' = "idle"
    /\ \E until \in {paused} \cup {Later(paused, now + s) : s \in Pauses} : paused' = until
    /\ UNCHANGED <<now, granted, head, wake, arrived>>

LimiterNext == Tick \/ Ask \/ Wake \/ Grant \/ Send \/ Answer

LimiterSpec == LimiterInit /\ [][LimiterNext]_limiterVars

-----------------------------------------------------------------------------
(* Properties *)

(* No window holds more acquisitions than the capacity (the rule of the file).  *)
WindowHolds ==
    \A i \in DOMAIN granted : i + Capacity \in DOMAIN granted => granted[i + Capacity] - granted[i] >= Per

(* A write arrives later than it was let through, so the broker may see one    *)
(* more than the capacity in a window, and never two (DEFAULT_CAPACITY leaves   *)
(* room for that under the quota of the broker).                              *)
BrokerWindowHolds ==
    \A i \in DOMAIN arrived :
        i + Capacity + 1 \in DOMAIN arrived => arrived[i + Capacity + 1] - arrived[i] >= Per

(* Nobody is let through during a pause the broker asked for.                  *)
PauseHolds == [][granted' # granted => now >= paused]_limiterVars

=============================================================================
