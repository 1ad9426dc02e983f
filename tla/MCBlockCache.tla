---------------------------- MODULE MCBlockCache ----------------------------
(* Instances of BlockCache for TLC: three keys, blocks of one, two, three   *)
(* bytes and one larger than the cache.                                     *)
EXTENDS BlockCache, TLC

CONSTANTS b1, b2, b3, bBig
MCBlocks == {b1, b2, b3, bBig}
MCBlockLen == b1 :> 1 @@ b2 :> 2 @@ b3 :> 3 @@ bBig :> 5
=============================================================================
