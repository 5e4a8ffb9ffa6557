-------------------------- MODULE MCDnsController --------------------------
(***************************************************************************)
(* One zone, team.example, and one record that is edited between names     *)
(* inside it and a set of names of which one is outside.                   *)
(***************************************************************************)
EXTENDS DnsController, Sequences

CONSTANTS zone, rec

team  == <<"team", "example">>
other == <<"other", "example">>
app   == <<"app">> \o team
bad   == <<"app">> \o other

MCDnsNames == {team, other, app, bad}

Record(names) == [zoneRef |-> zone, names |-> names]

MCSpecs     == [k \in Keys |-> {Record({app}), Record({app, bad})}]
MCZoneSpecs == [z \in Zones |-> {team}]
=============================================================================
