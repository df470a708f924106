---------------------------- MODULE MCRpcFailover ----------------------------
(***************************************************************************)
(* Two callers share two endpoints of their chain; the second one has an   *)
(* endpoint of another chain configured first.                             *)
(***************************************************************************)
EXTENDS RpcFailover, TLC

CONSTANTS c1, c2, e1, e2, e3

MCUrls == (c1 :> <<e1, e2>>) @@ (c2 :> <<e3, e1>>)

MCChainOf == (e1 :> "ckb") @@ (e2 :> "ckb") @@ (e3 :> "ckb_testnet")

MCExpected == (c1 :> "ckb") @@ (c2 :> "ckb")

=============================================================================
