---------------------------- MODULE MCTokenStore ----------------------------
(* TokenStore on three tokens issued with no use, one, two or no limit.    *)
EXTENDS TokenStore
MCUses == 0..2 \cup {Unlimited}
=============================================================================
