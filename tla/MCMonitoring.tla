---------------------------- MODULE MCMonitoring ----------------------------
(* Monitoring on small instances: one outbound with two cycles and two URLs,  *)
(* with two workers, with tests of the group, and with Close; and two         *)
(* outbounds, one of which dials through the other.                           *)
EXTENDS Monitoring, TLC

CONSTANTS a, b, w1, w2

One == [outbounds |-> {a}, tunnels |-> {a}, parents |-> (a :> {}), workers |-> {w1}, urls |-> 2, cycles |-> 2,
        closes |-> FALSE, kinds |-> {"test", "invalidate"}, calls |-> 2]

MCSetups == {
  One,
  [One EXCEPT !.workers = {w1, w2}, !.urls = 1, !.cycles = 1],
  [One EXCEPT !.kinds = {"test", "group"}, !.urls = 1, !.cycles = 1],
  [One EXCEPT !.kinds = {"signal"}, !.cycles = 1, !.closes = TRUE],
  [One EXCEPT !.outbounds = {a, b}, !.parents = (a :> {b}) @@ (b :> {}), !.cycles = 1, !.urls = 1,
              !.kinds = {"test"}, !.calls = 1]}
=============================================================================
