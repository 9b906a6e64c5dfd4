------------------------------ MODULE MCCadence ------------------------------
(* The loop and one project on a calendar of 4-minute hours, 2-hour days,     *)
(* weeks of 2 days, and a long and a short month of 3 and 2.                  *)
EXTENDS Cadence

MCDateOf ==
  [d \in 0..4 |-> IF d < 3 THEN [dom |-> d + 1, month |-> 1]
                  ELSE [dom |-> d - 2, month |-> 2]]

MCTyped ==
  {Manual, Tick, Every(0), Short(3, "m"), Short(6, "m"), Short(12, "m"),
   Short(1, "h"), Short(2, "h"),
   Short(1, "d"), Short(2, "d"), Short(5, "d"), Short(0, "d"),
   Cron(<<At({1}), Any, At({1}), Any, At({1})>>),
   Cron(<<At({0}), At({1}), Any, At({2}), At({2})>>),
   Cron(<<At({0}), At({0}), At({3}), At({2}), Any>>),    \* a day no month has
   Cron(<<At({4}), Any, Any, Any, Any>>)}

=============================================================================
