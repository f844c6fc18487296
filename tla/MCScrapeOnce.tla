---------------------------- MODULE MCScrapeOnce ----------------------------
(* A small instance of ScrapeOnce for TLC. *)
EXTENDS ScrapeOnce

OneEndpoint == <<"varz">>
EveryScrape == <<1>>
Flags == {{}, {"varz"}, {"nosuch"}}
Override(n) == [name |-> "varz", value |-> n]
Overrides == {<<Override(1)>>, <<Override(2)>>, <<Override(2), Override(0)>>}
=============================================================================
