-------------------------------- MODULE Efc --------------------------------
(***************************************************************************)
(* The second flash bank, EFC1, as src/my/efc.c uses it: pages that are    *)
(* programmed whole, a file stored from address 0, configuration pages at  *)
(* the end, and the length of the stored file found by looking for the     *)
(* last byte that is not blank.  These are functions of the content of the *)
(* bank; the state machines that use them keep the content in a variable.  *)
(*                                                                         *)
(* The flash controller is hardware: a page command erases the page and    *)
(* programs the write buffer, which is blank again afterwards.  The loop   *)
(* that ends efc1_write_data() and the padding of a last short page both   *)
(* rely on that.                                                           *)
(***************************************************************************)
EXTENDS Integers, Sequences, FiniteSets

CONSTANTS
  PageSz,    \* EFC_PAGE_SZ
  WordSz,    \* bytes of a word, 4
  GpioPage,  \* EFC_PAGE_GPIO, where the configuration pages begin
  EthPage    \* EFC_PAGE_ETH_ADDR, the last page of the bank

ASSUME FlashAssumption == /\ WordSz \in Nat \ {0}
                          /\ PageSz \in Nat /\ PageSz >= 2 * WordSz
                          /\ GpioPage \in Nat \ {0}
                          /\ EthPage \in Nat /\ EthPage > GpioPage

Blank == -1    \* 0xFF; the bytes of files are positive
Config == -2   \* a byte of the board's address settings
Firmware == -3 \* a byte of the firmware in EFC0
Beyond == -4   \* a byte of the memory outside both banks

BankSz == (EthPage + 1) * PageSz
Addr == 0..(BankSz - 1)
PageOf(a) == a \div PageSz
Erased == [a \in Addr |-> Blank]

(* efc1_write_page(): the data, padded, becomes the page.  With no data    *)
(* the page is erased.                                                     *)
WritePage(mem, data, page) ==
  [a \in Addr |->
     IF PageOf(a) # page THEN mem[a]
     ELSE LET i == a % PageSz IN IF i < Len(data) THEN data[i + 1] ELSE Blank]

(* A page is taken for a used one by its first and its last word only. *)
LooksUsed(mem, page) ==
  \E i \in (0..(WordSz - 1)) \union ((PageSz - WordSz)..(PageSz - 1)) :
     mem[page * PageSz + i] # Blank

Highest(S) == CHOOSE m \in S : \A n \in S : n <= m

(* efc1_write_data(): data for an offset joins the bytes left over from    *)
(* before.  Each time they fill the buffer it becomes the page of the      *)
(* offset then reached, from which the bytes left over at first are not    *)
(* counted; the rest waits.  At the end the rest is written and later      *)
(* pages that look used are erased, but for the last one.  When nothing is *)
(* left over, the page written at the end is the last full page once more. *)
(* Offsets below 0 are in EFC0: their pages, as uint16_t, are beyond the   *)
(* bank, and the next one after the last of them is page 0.                *)
WriteData(mem, left, data, offset, end) ==
  LET all   == left \o data
      full  == Len(all) \div PageSz
      rest  == SubSeq(all, full * PageSz + 1, Len(all))
      Page(j) == PageOf(IF j = 0 THEN offset ELSE offset + j * PageSz - Len(left))
      last  == Page(IF rest = <<>> /\ full > 0 THEN full - 1 ELSE full)
      Fills(page) == {j \in 0..(full - 1) : Page(j) = page}
      paged == [a \in Addr |->
                  IF Fills(PageOf(a)) # {}
                    THEN all[Highest(Fills(PageOf(a))) * PageSz + (a % PageSz) + 1]
                    ELSE mem[a]]
      ended == WritePage(paged, rest, last)
  IN [mem  |-> IF ~end THEN paged
               ELSE [a \in Addr |->
                       IF PageOf(a) > last /\ last >= -1 /\ PageOf(a) < EthPage
                          /\ LooksUsed(paged, PageOf(a))
                         THEN Blank ELSE ended[a]],
      left |-> rest]

(* efc_get_length(): the last used page is searched from the end of the    *)
(* bank, or from below the configuration pages when the page before them   *)
(* is blank.                                                               *)
TopPage(mem) == IF LooksUsed(mem, GpioPage - 1) THEN EthPage - 1 ELSE GpioPage - 1

LastPage(mem) == Highest({0} \union {p \in 1..TopPage(mem) : LooksUsed(mem, p)})

(* Mutant: the search begins one byte lower. *)
GetLength_OneLower(mem) ==
  LET last == LastPage(mem) * PageSz + PageSz - 1
  IN Highest({0} \union {k \in 1..(last - 2) : mem[k - 1] # Blank})

(* Then the last used byte of it is, from its last but two.                *)
GetLength(mem) ==
  LET last == LastPage(mem) * PageSz + PageSz - 1
  IN Highest({0} \union {k \in 1..(last - 1) : mem[k - 1] # Blank})

(* What crc32() and pcl_load() are given: the stored bytes, as far as the  *)
(* length says.                                                            *)
Stored(mem) == [i \in 1..GetLength(mem) |-> mem[i - 1]]

(* The address settings, written to the last page. *)
WithConfig(mem) == WritePage(mem, <<Config>>, EthPage)

(* Mutant: the address settings are not written back. *)
Prepare_NoConfig(mem, enabled) == IF GetLength(mem) = 0 THEN mem ELSE Erased

(* The start of WRQ: a bank that holds a file is erased and the address    *)
(* settings are written back, if efc_commit() is enabled.                  *)
Prepare(mem, enabled) ==
  IF GetLength(mem) = 0 THEN mem
  ELSE IF enabled THEN WithConfig(Erased) ELSE Erased
=============================================================================
