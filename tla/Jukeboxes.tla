----------------------------- MODULE Jukeboxes -----------------------------
(***************************************************************************)
(* The memory of a compiled program: jukeboxes, each holding one word in   *)
(* RecordItem.tag.Memory, and the entity tagged "ptr", which intrinsic:    *)
(* setptr moves to the jukebox that %ptr addresses.  A command reads or    *)
(* writes the jukebox where the entity stands, a whole word at a time;     *)
(* what is shorter, or lies across two jukeboxes, is put together from     *)
(* words by the load_* and store_* intrinsics.  Here these are operators   *)
(* on m, the word in each jukebox.                                         *)
(***************************************************************************)
EXTENDS Words, Sequences

CONSTANTS
  Side,    \* the jukeboxes along y and along z, 16 in the code
  Planes   \* the jukeboxes along x, 128 in the code

ASSUME GridAssumption == Side \in Nat \ {0} /\ Planes \in Nat \ {0}

Cells == (0 .. Planes - 1) \X (0 .. Side - 1) \X (0 .. Side - 1)
Size  == 4 * Planes * Side * Side

(* Addresses are words; the code has 2^17 of them.                         *)
ASSUME SizeAssumption == Size < HighBit

(* get_index: the address of a jukebox.                                    *)
Index(c) == (c[1] * Side * Side + c[2] * Side + c[3]) * 4

(* The jukeboxes in the order of get_index.                                *)
CellAt == [i \in 0 .. Size \div 4 - 1 |-> CHOOSE c \in Cells : Index(c) = 4 * i]

(* intrinsic:setptr.                                                       *)
SetPtr(p) ==
  LET q == Over(p, 4)
      r == Over(q, Side)
  IN <<Over(r, Side), Mod(r, Side), Mod(q, Side)>>

-----------------------------------------------------------------------------
(* The loads.  The byte is shifted to the top, losing those above it, and  *)
(* then down; the halfwords assert an even address.                        *)

LoadByte(m, p) ==
  Lshr(Times(m[SetPtr(p)], Byte ^ (3 - Mod(p, 4))), 3 * ByteBits)

LoadHalfword(m, p) ==
  Lshr(Times(m[SetPtr(p)], IF Mod(p, 4) = 0 THEN Half ELSE 1), 2 * ByteBits)

LoadHalfwordUnaligned(m, p) == Add(LoadByte(m, p), Times(LoadByte(m, p + 1), Byte))

LoadWordUnaligned(m, p) ==
  Add(Add(Add(LoadByte(m, p),
              Times(LoadByte(m, p + 1), Byte)),
          Times(LoadByte(m, p + 2), Half)),
      Times(LoadByte(m, p + 3), Byte * Half))

(* The stores: what they leave in memory m.                                *)

StoreByte(m, p, v) ==
  LET c    == SetPtr(p)
      unit == Byte ^ Mod(p, 4)
      mask == Wrap(-1 - (Byte - 1) * unit)
  IN [m EXCEPT ![c] = Add(And(m[c], mask), Times(Mod(v, Byte), unit))]

StoreHalfword(m, p, v) ==
  LET c    == SetPtr(p)
      unit == Byte ^ Mod(p, 4)
      mask == Wrap(-1 - (Half - 1) * unit)
  IN [m EXCEPT ![c] = Add(And(m[c], mask), Times(Mod(v, Half), unit))]

(* The low k bytes of v one at a time: store_halfword_unaligned,           *)
(* store_word_unaligned, and what compile_instr emits for three bytes.     *)
StoreBytes(m, p, v, k) ==
  LET after[i \in 0 .. k] ==
        IF i = 0 THEN m
        ELSE StoreByte(after[i - 1], p + i - 1, Lshr(v, (i - 1) * ByteBits))
  IN after[k]

StoreWord(m, p, v) == [m EXCEPT ![SetPtr(p)] = v]

(* A value, word by word.                                                  *)
StoreWords(m, p, v, aligned) ==
  LET after[i \in 0 .. Len(v)] ==
        IF i = 0 THEN m
        ELSE LET a == p + 4 * (i - 1)
             IN IF aligned THEN StoreWord(after[i - 1], a, v[i])
                ELSE StoreBytes(after[i - 1], a, v[i], 4)
  IN after[Len(v)]
=============================================================================
