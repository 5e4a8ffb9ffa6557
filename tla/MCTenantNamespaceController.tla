--------------------- MODULE MCTenantNamespaceController ---------------------
(***************************************************************************)
(* One TenantNamespace, with a quota, without one, or with one that cannot *)
(* be parsed.                                                              *)
(***************************************************************************)
EXTENDS TenantNamespaceController

CONSTANTS tn, tenant, apps, ops, small, bad

TenantOf(admins, quota) ==
  [tenant |-> tenant, namespace |-> apps, admins |-> admins, quota |-> quota]

MCSpecs ==
  [k \in Keys |-> {TenantOf(ops, small), TenantOf(ops, NoName), TenantOf(ops, bad)}]

MCQuotaSpecs == [k \in Keys |-> {TenantOf(ops, small)}]
=============================================================================
