----------------------------- MODULE MCProgram -----------------------------
(***************************************************************************)
(* Bases that answer the same requests differently, one with a bus without *)
(* stops, one without colours, and documents that fail before and after    *)
(* the file is opened; queries of up to two requests.                      *)
(***************************************************************************)
EXTENDS Program

Full == [NoBase EXCEPT !.buses = {"b"}, !.stops = {"s", "t"}, !.routes = {<<"s", "t">>},
                       !.palette = TRUE]
Other == [NoBase EXCEPT !.buses = {"c"}, !.stops = {"s", "t"}, !.unmeasured = {"c"},
                        !.palette = TRUE]
Odd == [NoBase EXCEPT !.buses = {"b", "c"}, !.stopless = {"c"}, !.stops = {"s"}]

MCBases == {Full, Other, Odd, [Full EXCEPT !.fails = "before"],
            [Full EXCEPT !.fails = "after"]}

Ask(type, name, to) ==
  [id |-> 1, type |-> type, name |-> name, to |-> to, flawed |-> FALSE]

MCRequests ==
  {Ask("Bus", "b", "b"), Ask("Bus", "c", "c"), Ask("Stop", "t", "t"), Ask("Map", "m", "m"),
   Ask("Route", "s", "t"), Ask("Route", "s", "x"), Ask("Tram", "b", "b"),
   [Ask("Bus", "b", "b") EXCEPT !.flawed = TRUE]}

Query(requests, missing) == [stat_requests |-> requests, missing |-> missing]

MCQueries ==
  {Query(<<q>>, "nothing") : q \in MCRequests}
    \cup {Query(<<q, [r EXCEPT !.id = 2]>>, "nothing") :
            q \in MCRequests, r \in {t \in MCRequests : t.name \in {"c", "s"}}}
    \cup {Query(<< >>, m) : m \in {"serialization_settings", "stat_requests"}}
=============================================================================
