----------------------- MODULE MCClusterDexController -----------------------
(***************************************************************************)
(* One ClusterDex, dx, that is edited between two baselines, a third one   *)
(* whose image cannot be rendered, and a disabled one.  One Secret         *)
(* holds everything it refers to.                                          *)
(***************************************************************************)
EXTENDS ClusterDexController

CONSTANTS dx, edge, argocd, dexConfig, tagged, digest, team

DexSpecOf(enabled, impersonates, image) ==
  [enabled |-> enabled, impersonates |-> impersonates, cluster |-> edge,
   namespace |-> NoName, clientRef |-> dexConfig,
   configRef |-> IF enabled THEN dexConfig ELSE NoName, oidcRef |-> dexConfig,
   image |-> image, issuer |-> NoName, groups |-> team]

MCSpecs ==
  [k \in Keys |-> {DexSpecOf(TRUE, FALSE, NoName), DexSpecOf(TRUE, TRUE, tagged),
                   DexSpecOf(TRUE, TRUE, digest), DexSpecOf(FALSE, FALSE, NoName)}]

MCToggledSpecs ==
  [k \in Keys |-> {DexSpecOf(TRUE, FALSE, NoName), DexSpecOf(FALSE, FALSE, NoName)}]
=============================================================================
