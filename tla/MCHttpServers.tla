----------------------------- MODULE MCHttpServers -----------------------------
(* A small instance of HttpServers: a client of each service.               *)
EXTENDS HttpServers

CONSTANTS scraper, discoverer

MCClients   == {scraper, discoverer}
MCServiceOf == [c \in MCClients |-> IF c = scraper THEN "metrics" ELSE "sd"]
=============================================================================
