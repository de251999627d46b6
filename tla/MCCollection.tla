---------------------------- MODULE MCCollection ----------------------------
(* Small instances of Collection for TLC.                                     *)
EXTENDS Collection, TLC

CONSTANTS r1, r2, d1, d2

(* Two files for the required item; one of them may also be sent for the      *)
(* optional item or as an other document.                                     *)
AttachReview == {<<r1, d1>>, <<r1, d2>>, <<r2, d2>>, <<Other, d2>>}

(* One file for each of two items.                                            *)
AttachEach == {<<r1, d1>>, <<r2, d2>>}

(* One file for one item.                                                     *)
AttachOne == {<<r1, d1>>}
=============================================================================
