------------------------------- MODULE Memory -------------------------------
(***************************************************************************)
(* The sparse memory of memory.c: a table of regions, searched from newest *)
(* to oldest, each backed by a buffer or by a constant byte.               *)
(*                                                                         *)
(* The number of addresses is a parameter, 2^16 in the program, so that    *)
(* every address of a small space can be checked.  Each mapped blob has a  *)
(* buffer of its own, as in the program, and so have the two helpers for   *)
(* vectors, whose buffers are shared by all their calls.                   *)
(*                                                                         *)
(* A region of length 0 covers an address all the same, and its blob has   *)
(* no byte: what is read there, and where a write there goes, is memory    *)
(* next to the blob that belongs to no buffer.  Unset stands for that byte.*)
(***************************************************************************)
EXTENDS Integers, Sequences

CONSTANTS
  Space,        \* the number of addresses
  Byte,         \* the values of a byte
  MAX_REGIONS,  \* the length of the table
  Lengths,      \* the lengths regions are mapped with
  Points,       \* the addresses regions are mapped at and written to
  Entries,      \* 16-bit values for the vectors, as pairs of low and high byte
  Unset         \* a byte nobody has written or that lies in no buffer: any byte

ASSUME MemoryAssumption ==
  /\ Space \in Nat /\ Space > 6
  /\ 0 \in Byte /\ Unset \notin Byte
  /\ MAX_REGIONS \in Nat \ {0}
  /\ Lengths \subseteq 0..(Space - 1)
  /\ Points \subseteq 0..(Space - 1)
  /\ Entries \subseteq Byte \X Byte

VARIABLES
  g_regions,       \* g_regions[0 .. g_region_count-1]
  g_default_fill,
  store            \* the bytes of every buffer, from its offset 0

memVars == <<g_regions, g_default_fill, store>>

Address == 0..(Space - 1)
Narrow(n) == n % Space      \* (uint16_t)n

\* A buffer for each entry of the table, and the static ones of the helpers.
vec    == MAX_REGIONS + 1
vecpg  == MAX_REGIONS + 2
Buffer == 1..vecpg

Region == [start : Address, end : Address, type : {"ROM", "RAM", "FILL"},
           data : Buffer, fill : Byte]

Covers(r, addr) == r.start <= addr /\ addr <= r.end

Covering(addr) == {i \in DOMAIN g_regions : Covers(g_regions[i], addr)}

\* Mutant of Newest: the oldest region wins.
NewestOldest(addr) ==
  LET covering == Covering(addr) IN CHOOSE i \in covering : \A j \in covering : i <= j

\* The region an address belongs to: the newest that covers it.
Newest(addr) ==
  LET covering == Covering(addr) IN CHOOSE i \in covering : \A j \in covering : j <= i

Owner(addr)  == g_regions[Newest(addr)]
Offset(addr) == Narrow(addr - Owner(addr).start)

\* The buffer goes as far as the byte the address has in it.
InBuffer(addr) == Offset(addr) \in DOMAIN store[Owner(addr).data]

MemRead(addr) ==
  IF Covering(addr) = {} THEN g_default_fill
  ELSE IF Owner(addr).type = "FILL" THEN Owner(addr).fill
  ELSE IF InBuffer(addr) THEN store[Owner(addr).data][Offset(addr)]
  ELSE Unset

\* A write lands in RAM; one to ROM, to a fill or to nothing is ignored, and one
\* that a buffer does not go as far as changes no buffer.
Writable(addr) == Covering(addr) # {} /\ Owner(addr).type = "RAM"

\* MemWrite of f[a] at every a in the domain of f, which is all a caller that
\* writes to different addresses one after the other does.
MemWrites(f) ==
  store' = [b \in Buffer |-> [off \in DOMAIN store[b] |->
    LET here == {a \in DOMAIN f : Writable(a) /\ Owner(a).data = b /\ Offset(a) = off}
    IN  IF here = {} THEN store[b][off] ELSE f[CHOOSE a \in here : TRUE] ]]

MemWrite(addr, val) ==
  /\ MemWrites([a \in {addr} |-> val])
  /\ UNCHANGED <<g_regions, g_default_fill>>

\* Mutant of EndOf: the length is added, not the length less one.
EndOfOne(addr, len) == Narrow(addr + len)

\* The last address of a region is 16 bits wide too: a region that would end
\* past the top ends below its start, and a length of 0 still makes one of
\* one address.
EndOf(addr, len) == Narrow(addr + IF len = 0 THEN 0 ELSE len - 1)

\* Mutant of add_region: it asks whether the table is overfull.
add_regionTooMany(r) ==
  g_regions' = IF Len(g_regions) > MAX_REGIONS THEN g_regions ELSE Append(g_regions, r)

add_region(r) ==
  g_regions' = IF Len(g_regions) >= MAX_REGIONS THEN g_regions ELSE Append(g_regions, r)

NextBuffer == IF Len(g_regions) < MAX_REGIONS THEN Len(g_regions) + 1 ELSE MAX_REGIONS

\* A blob of len bytes b, which comes into view if there is room for it.
Blob(len, b) == [off \in 0..(len - 1) |-> b]

Back(len, b) ==
  store' = IF Len(g_regions) < MAX_REGIONS THEN [store EXCEPT ![NextBuffer] = Blob(len, b)]
           ELSE store

MapBlob(type, addr, len, b) ==
  /\ add_region([start |-> addr, end |-> EndOf(addr, len), type |-> type,
                 data |-> NextBuffer, fill |-> 0])
  /\ Back(len, b)
  /\ UNCHANGED g_default_fill

MapROM(addr, len, b) == MapBlob("ROM", addr, len, b)
MapRAM(addr, len, b) == MapBlob("RAM", addr, len, b)

MapFill(addr, len, b) ==
  /\ add_region([start |-> addr, end |-> EndOf(addr, len), type |-> "FILL",
                 data |-> NextBuffer, fill |-> b])
  /\ UNCHANGED <<g_default_fill, store>>

MemSetDefaultFill(b) == g_default_fill' = b /\ UNCHANGED <<g_regions, store>>

\* The helpers: the static bytes are written first, then mapped.
MapVector(buffer, start, bytes) ==
  /\ store' = [store EXCEPT ![buffer] = [off \in 0..(Len(bytes) - 1) |-> bytes[off + 1]]]
  /\ add_region([start |-> start, end |-> EndOf(start, Len(bytes)), type |-> "ROM",
                 data |-> buffer, fill |-> 0])
  /\ UNCHANGED g_default_fill

MapResetVector(entry) == MapVector(vec, Space - 4, entry)
MapVectorPage(nmi, reset, irq) == MapVector(vecpg, Space - 6, nmi \o reset \o irq)

memInit ==
  /\ g_regions = <<>>
  /\ g_default_fill = 0
  /\ store = [b \in Buffer |-> [off \in {} |-> 0]]

\* dis.c: static uint8_t image[0xffff]; MapRAM(0x0000, image, sizeof image).
Image == [start |-> 0, end |-> Space - 2, type |-> "RAM", data |-> 1, fill |-> 0]

\* Memory as main hands it to a reader.
imageInit ==
  /\ g_regions = <<Image>> /\ g_default_fill = 0
  /\ store = [b \in Buffer |-> IF b = 1 THEN Blob(Space - 1, 0) ELSE [off \in {} |-> 0]]

Map ==
  \E addr \in Points, len \in Lengths, b \in Byte :
    MapROM(addr, len, b) \/ MapRAM(addr, len, b) \/ MapFill(addr, len, b)

MapVectors ==
  \E reset, other \in Entries : MapResetVector(reset) \/ MapVectorPage(other, reset, other)

memNext ==
  \/ Map
  \/ MapVectors
  \/ \E b \in Byte : MemSetDefaultFill(b)
  \/ \E addr \in Points, b \in Byte : MemWrite(addr, b)

memSpec == memInit /\ [][memNext]_memVars

-----------------------------------------------------------------------------
memTypeOK ==
  /\ g_regions \in Seq(Region) /\ Len(g_regions) <= MAX_REGIONS
  /\ g_default_fill \in Byte
  /\ \A b \in Buffer : \A off \in DOMAIN store[b] : off \in Nat /\ store[b][off] \in Byte

\* MemRead and MemWrite index the buffer of the region they find with a 16-bit
\* difference of addresses: no region, a wrapped or an overlapping one included,
\* lets them past the end of a buffer that has a byte.  A buffer that has none,
\* of a region mapped with length 0, they do leave, and at one address alone:
\* the start of the region, which is its end too.
ReadsInBounds ==
  \A a \in Address :
    Covering(a) # {} /\ Owner(a).type # "FILL" =>
      IF DOMAIN store[Owner(a).data] = {} THEN a = Owner(a).start /\ a = Owner(a).end
      ELSE InBuffer(a)

\* "later mappings override earlier ones": seen from outside, memory is one
\* byte at every address, a mapping changes the addresses it covers and no
\* other, whatever the regions below, and a write shows where it is made.
Kind(a) ==
  IF Covering(a) = {} THEN "unmapped"
  ELSE IF Owner(a).type # "FILL" /\ ~InBuffer(a) THEN "unbacked"
  ELSE IF Writable(a) THEN "ram" ELSE "fixed"

Flat == INSTANCE FlatMemory WITH
          view <- [a \in Address |-> MemRead(a)],
          kind <- [a \in Address |-> Kind(a)]
ImplementsFlat == Flat!Spec
=============================================================================
