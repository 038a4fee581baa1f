------------------------------ MODULE MCTftpd ------------------------------
(***************************************************************************)
(* Small instances of Tftpd: pages of 4 bytes, two to a block.             *)
(***************************************************************************)
EXTENDS Tftpd

File(kind, tag, len) == [kind |-> kind, tag |-> tag, len |-> len]

(* Short, one block, a block and a bit, the longest that leaves the pages  *)
(* of the configuration alone, and requests that are refused.  No file     *)
(* ends on the last two bytes of a page.                                   *)
GoodFiles == {File("script", 1, 1), File("script", 2, 10), File("script", 3, 6),
              File("image", 4, 9), File("image", 5, 18), File("other", 6, 5),
              File("badmode", 7, 1)}

(* Two blocks of an image and a script. *)
ImageAndScript == {File("image", 4, 10), File("script", 1, 5)}

(* Images of every length up to three pages. *)
EveryLength == [f \in BOOLEAN |-> {File("image", n, n) : n \in 1..12}]

PutsByNetwork == [f \in BOOLEAN |-> IF f THEN ImageAndScript ELSE GoodFiles]
=============================================================================
