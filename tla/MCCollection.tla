---------------------------- MODULE MCCollection ----------------------------
(***************************************************************************)
(* How events come in and are found again, one component in every          *)
(* behaviour: the log datasource, the enrichment of what is stored, the    *)
(* live updates of open pages and the search box.                          *)
(***************************************************************************)
EXTENDS LogTail, Sequences

CONSTANTS c1, c2

VARIABLES
  part,
  pend, cursor, pos, last, at, cached, blocked, stale, lost, lookupFaults,
  newest, on, valid, running, state, reading, queue, phase, told, pollFaults,
  tokens, quoted

geoip == <<pend, cursor, pos, last, at, cached, blocked, stale, lost, lookupFaults>>
live == <<newest, on, valid, running, state, reading, queue, phase, told, pollFaults>>
search == <<tokens, quoted>>

G == INSTANCE GeoipScan WITH
  faults <- lookupFaults, Limit <- 2, MaxPending <- 5, MaxFaults <- 2

B == INSTANCE Broadcaster WITH
  last <- told, faults <- pollFaults, Clients <- {c1, c2}, MaxId <- 2, MaxFaults <- 1

S == INSTANCE SearchExpression WITH MaxTokens <- 9, MaxDepth <- 2

ASSUME G!GeoipAssumption /\ B!BroadcasterAssumption /\ S!SearchAssumption

MCInit ==
  /\ part \in {"log", "geoip", "live", "search"}
  /\ Init /\ G!Init /\ B!Init /\ S!Init
  /\ maintained
  /\ part # "geoip" => Len(pend) = 1

\* A query that is refused already is not typed on.
MCNext ==
  \/ part = "log" /\ Next /\ UNCHANGED <<part, geoip, live, search>>
  \/ part = "geoip" /\ G!Next /\ UNCHANGED <<part, LTvars, live, search>>
  \/ part = "live" /\ B!Next /\ UNCHANGED <<part, LTvars, geoip, search>>
  \/ /\ part = "search" /\ \A p \in DOMAIN tokens : S!Fits(tokens, p)
     /\ S!Next /\ UNCHANGED <<part, LTvars, geoip, live>>

MCSpec ==
  /\ MCInit /\ [][MCNext]_<<part, LTvars, geoip, live, search>>
  /\ WF_LTvars(part = "log" /\ Collect) /\ WF_LTvars(part = "log" /\ StoreChunk)
  /\ WF_LTvars(part = "log" /\ Judge) /\ WF_LTvars(part = "log" /\ Finish)
  /\ WF_LTvars(part = "log" /\ Start)
  /\ WF_geoip(part = "geoip" /\ G!Tick)
  /\ WF_geoip(part = "geoip" /\ G!ErrorExpires) /\ WF_geoip(part = "geoip" /\ G!SaveSettings)
  /\ WF_live(part = "live" /\ B!Poll)
  /\ \A c \in {c1, c2} :
        /\ WF_live(part = "live" /\ B!Subscribe(c)) /\ WF_live(part = "live" /\ B!Take(c))
        /\ WF_live(part = "live" /\ B!CheckSession(c))

\* What runs of the components alone show, for the behaviours of each.
LogDrains == part = "log" => Drains
EveryEventChecked == part = "geoip" => G!EveryEventChecked
ClientsFollow == part = "live" => B!ClientsFollow
ParsedAsGrammar == S!ParsedAsGrammar
=============================================================================
