------------------------------ MODULE MCServer ------------------------------
EXTENDS Server, TLC

CONSTANTS c1, c2

Put == to_bytes("Put", 1, 1)
Get == to_bytes("Get", 1, 0)

(* Requests that the parser does not execute: it panics, closes, answers     *)
(* without or after reading the payload; and one with bytes it overlooks.    *)
Damaged ==
    {[Put EXCEPT !.head.len = 3], [Put EXCEPT !.head.magic = FALSE],
     [Put EXCEPT !.head.type = "Unknown"],
     [Put EXCEPT !.head.len = 25, !.payload.len = 11], [Get EXCEPT !.payload.len = 6]}

(* One client sends any request and then a good one, the other none.         *)
MCScript == c1 :> <<{Put} \cup Damaged, {Get}>> @@ c2 :> <<>>
=============================================================================
