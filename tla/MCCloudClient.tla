---------------------------- MODULE MCCloudClient ----------------------------
(* Small instances of CloudClient for TLC: three sockets, so that the one    *)
(* stop() closes, the one whose auth.ok scheduled the reset and the one      *)
(* being opened can all be different.                                        *)
EXTENDS CloudClient, TLC

SockSymmetry == Permutations(Socks)
=============================================================================
