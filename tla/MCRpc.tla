------------------------------- MODULE MCRpc --------------------------------
(* Instances of Rpc: the calls are interchangeable, and so are the instances. *)
EXTENDS Rpc, TLC

Symmetry == Permutations(Call) \cup Permutations(Instance)
RpcCodes == {-2, 0, RPC_OK}
=============================================================================
