----------------------------- MODULE MCConsole ------------------------------
(***************************************************************************)
(* TLC instance of Console: a ring of four, lines of three characters on a *)
(* screen of three rows of two, so that the ring goes round, lines wrap,   *)
(* the screen scrolls, readline's buffer fills and the ring overflows.     *)
(*                                                                         *)
(* States that differ only in dead bytes (read slots of the ring, the line *)
(* beyond n, the screen outside the line being typed) count as one: no     *)
(* property and no later live byte depends on them.                        *)
(***************************************************************************)
EXTENDS Console

LiveState ==
  <<serial, kbd, rpos, wpos, unread, n, crt_pos,
    [k \in 1 .. (wpos - rpos) % CONSBUFSIZE |->
       buf[(rpos + k - 1) % CONSBUFSIZE]],
    [k \in 0 .. n - 1 |-> line[k]],
    [k \in {x \in 0 .. CRT_SIZE - 1 : crt_pos - n <= x /\ x < crt_pos} |->
       crt_buf[k]]>>
=============================================================================
