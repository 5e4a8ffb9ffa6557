-------------------------- MODULE MCItemController --------------------------
(***************************************************************************)
(* One issuer, edited between ACME, CA and both at once, which cannot be   *)
(* built; or two issuers of different tenants whose children have the same *)
(* name; or one project, edited between two sets of repositories, one of   *)
(* which has the chart repository already.                                 *)
(***************************************************************************)
EXTENDS ItemController

CONSTANTS issuer, left, right, project, letsEncrypt, signingCa, git, charts, apps, extra

acme   == <<"acme">>
acmeEu == <<"acme", "eu">>

IssuerOf(tenant, server, ca) == [tenant |-> tenant, acme |-> server, ca |-> ca]

ProjectOf(repos, destinations) ==
  [tenant |-> acme, namespace |-> apps, repos |-> repos, destinations |-> destinations]

MCTenants     == {acme, acmeEu}
MCPopulations == {{issuer}, {left, right}, {project}}

(* acme's eu-le and acme-eu's le both become tenant-acme-eu-le.            *)
MCNameOf ==
  [k \in Keys |-> CASE k = left  -> <<"eu", "le">>
                     [] k = right -> <<"le">>
                     [] OTHER     -> <<"dev">>]
MCNames == {tenant \o MCNameOf[k] : tenant \in Tenants, k \in Keys}

MCSpecs ==
  [k \in Keys |->
    CASE k = issuer  -> {IssuerOf(acme, letsEncrypt, NoName), IssuerOf(acme, NoName, signingCa),
                         IssuerOf(acme, letsEncrypt, signingCa)}
      [] k = left    -> {IssuerOf(acme, letsEncrypt, NoName)}
      [] k = right   -> {IssuerOf(acmeEu, NoName, signingCa)}
      [] k = project -> {ProjectOf({git}, {}), ProjectOf({git, charts}, {extra})}]
=============================================================================
