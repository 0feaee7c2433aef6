----------------------------- MODULE MCSelector -----------------------------
(* Selectors for TLC: with tags of their own, with a default or with none  *)
(* but what a provider offers, under one or two callers and a connection;  *)
(* and with two providers, under one caller.                               *)
EXTENDS Selector

CONSTANTS a, b, x, y, s1, s2, d1

Config(ts, ps, default, interrupt, ss, ds) ==
  [outbounds |-> ts, providers |-> ps, default |-> default, interrupt |-> interrupt,
   selects |-> ss, dials |-> ds]

MCConfigs ==
  {Config(<<a, b>>, <<"p">>, None, TRUE, {s1, s2}, {d1}),
   Config(<<a, b>>, <<"p">>, b, TRUE, {s1}, {d1}),
   Config(<< >>, <<"p">>, None, FALSE, {s1}, {d1}),
   Config(<< >>, <<"p", "q">>, None, FALSE, {s1}, {})}
MCOffers == [t \in {"p", "q"} |-> IF t = "p" THEN {<< >>, <<x>>} ELSE {<< >>, <<y>>}]

OneConfig == {Config(<<a, b>>, << >>, None, TRUE, {s1}, {d1})}
=============================================================================
