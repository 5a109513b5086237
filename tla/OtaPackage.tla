----------------------------- MODULE OtaPackage -----------------------------
(***************************************************************************)
(* The storage device of an update package (components/ota/package).  A    *)
(* package arrives in pieces: its head is parsed, the software behind the  *)
(* head goes to flash a block at a time (package_writer.c), and the same   *)
(* bytes are hashed on their way (package_checksum.c).  The calls are      *)
(* functions of a record d; the module that uses the device decides when   *)
(* they are made and where power is lost.                                  *)
(*                                                                         *)
(* A unit is the pair of a package and its place in it, so that two images *)
(* differ wherever two packages do.  A checksum is the sequence of what    *)
(* was hashed after the head: two are equal when the hashed bytes are.     *)
(***************************************************************************)
EXTENDS Naturals, Sequences, SequencesExt

CONSTANTS
  Packages,     \* the packages a server may serve
  HEAD,         \* the units of a head, all of them in the first piece
  TOTAL,        \* the units of a package, its head included
  BLOCK,        \* flash_block_size
  WRITES        \* the most flash writes one call makes

ASSUME PackageAssumption ==
  /\ BLOCK \in Nat \ {0} /\ HEAD \in Nat \ {0} /\ WRITES \in Nat \ {0}
  /\ TOTAL \in Nat /\ HEAD < TOTAL /\ "none" \notin Packages

NoPackage == "none"
Erased == <<NoPackage, 0>>
Area == 0 .. TOTAL + BLOCK - 1

Unit(p, i) == <<p, i>>
Software(p) == [k \in 1 .. TOTAL - HEAD |-> Unit(p, HEAD + k - 1)]

\* What the flash keeps over a reset; the rest of d is RAM.  left is the number
\* of writes that still succeed in this call, ok whether all have so far.
DeviceInit(flash) ==
  [flash |-> flash, head |-> NoPackage,
   sum |-> [set |-> FALSE, at |-> 0, data |-> <<>>],
   held |-> FALSE, at |-> 0, data |-> <<>>, left |-> WRITES, ok |-> TRUE]

ReadFlash(d, at, n) == [k \in 1 .. n |-> d.flash[at + k - 1]]

Put(flash, at, units) ==
  [i \in DOMAIN flash |-> IF i \in at .. at + Len(units) - 1
                          THEN units[i - at + 1] ELSE flash[i]]

\* A write that fails has erased its place.
pack_write_data(d, at, units) ==
  IF d.left > 0
  THEN [d EXCEPT !.flash = Put(@, at, units), !.left = @ - 1]
  ELSE [d EXCEPT !.flash = Put(@, at, [k \in DOMAIN units |-> Erased]), !.ok = FALSE]

\* The block under construction keeps its bytes after it is written; it is held
\* until then, and a block written again stays as one that was written.
pack_wr_write_stored_data(d) ==
  LET e == pack_write_data(d, d.at, d.data) IN [e EXCEPT !.held = @ /\ ~e.ok]

-----------------------------------------------------------------------------
(* pack_wr_write, for units from an offset of the software.                *)

pack_wr_begin_not_aligned(d, offset, units) ==
  LET begin == (offset \div BLOCK) * BLOCK
      e == IF d.held /\ d.data # <<>>
           THEN [d EXCEPT !.data = @ \o units]
           ELSE [d EXCEPT !.held = TRUE, !.at = begin,
                          !.data = ReadFlash(d, begin, offset - begin) \o units]
  IN IF Len(e.data) < BLOCK THEN e ELSE pack_wr_write_stored_data(e)

\* One after the other, until all are written or a write fails.
pack_wr_entire_blocks(d, offset, units) ==
  LET n == Len(units) \div BLOCK
      k == Min({n, d.left})
      e == [d EXCEPT !.flash = Put(@, offset, SubSeq(units, 1, k * BLOCK)), !.left = @ - k]
  IN IF k = n THEN e
     ELSE pack_write_data(e, offset + k * BLOCK, SubSeq(units, k * BLOCK + 1, (k + 1) * BLOCK))

pack_wr_end_not_aligned_block(d, offset, units) ==
  [d EXCEPT !.held = TRUE, !.at = offset, !.data = units]

pack_wr_write(d, offset, units) ==
  LET Sub(i, j) == SubSeq(units, i + 1, j)
      over == offset % BLOCK
      a == IF over = 0 THEN 0 ELSE Min({Len(units), BLOCK - over})
      b == a + ((Len(units) - a) \div BLOCK) * BLOCK
      d1 == IF d.held /\ d.at + Len(d.data) # offset /\ d.data # <<>>
            THEN pack_wr_write_stored_data(d) ELSE d
      d2 == IF d1.ok /\ a > 0 THEN pack_wr_begin_not_aligned(d1, offset, Sub(0, a)) ELSE d1
      d3 == IF d2.ok THEN pack_wr_entire_blocks(d2, offset + a, Sub(a, b)) ELSE d2
  IN IF d3.ok /\ b < Len(units)
     THEN pack_wr_end_not_aligned_block(d3, offset + b, Sub(b, Len(units))) ELSE d3
\* A plausible slip: the last, partly filled block is left in RAM.
WriteEndAligned(d) == IF d.held THEN [d EXCEPT !.held = FALSE] ELSE d

pack_wr_write_end(d) == IF d.data = <<>> THEN d ELSE pack_wr_write_stored_data(d)

-----------------------------------------------------------------------------
(* The device's calls; offset counts from the start of the package.        *)

\* A head restarts the checksum; without one only the start of a package will do.
pack_head_parse(d, offset, units) ==
  IF offset = 0
  THEN [d EXCEPT !.head = units[1][1], !.sum = [set |-> FALSE, at |-> 0, data |-> <<>>]]
  ELSE [d EXCEPT !.ok = d.head # NoPackage]

\* After a gap the checksum starts again with what the flash holds, `offset`
\* units of it although the head is not there.
pack_checksum_update_data(d, offset, units) ==
  LET next == (d.sum.set /\ d.sum.at = offset) \/ offset = HEAD
      before == IF next THEN d.sum.data ELSE ReadFlash(d, 0, offset)
  IN [d EXCEPT !.sum = [set |-> TRUE, at |-> offset + Len(units), data |-> before \o units]]

write_software(d, offset, units) ==
  LET used == IF offset < HEAD THEN HEAD - offset ELSE 0
      rest == SubSeq(units, used + 1, Len(units))
      d1 == pack_head_parse(d, offset, units)
      d2 == pack_wr_write(d1, offset + used - HEAD, rest)
  IN IF ~d1.ok \/ rest = <<>> THEN d1
     ELSE IF ~d2.ok THEN d2 ELSE pack_checksum_update_data(d2, offset + used, rest)

pack_head_check(d, len) ==
  d.head # NoPackage /\ len = TOTAL /\ d.sum.data = Software(d.head)

\* The end of a download, which came to the end of the package or failed; only
\* the first clears what was kept to go on from.
write_software_end(d, complete, len) ==
  LET e == pack_wr_write_end(d)
  IN IF complete THEN [DeviceInit(e.flash) EXCEPT !.ok = e.ok /\ pack_head_check(e, len)]
     ELSE e

\* The flash holds all of one package's software.
WholeImage(d) == \E p \in Packages : ReadFlash(d, 0, TOTAL - HEAD) = Software(p)
=============================================================================
