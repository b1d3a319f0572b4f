---------------------------- MODULE MemoryProofs ----------------------------
(***************************************************************************)
(* Theorems about Memory, for every number of addresses, every length of   *)
(* the table, and all regions in it: wrapped, overlapping or hidden.       *)
(***************************************************************************)
EXTENDS Memory, SequenceTheorems, TLAPS

-----------------------------------------------------------------------------
(* The inductive invariant.                                                *)

\* A region of the table has the buffer of its entry, or one of the static
\* buffers, which are only ever mapped at the vectors.
Placed(r, i) ==
  \/ r.data = i
  \/ r.data = vec /\ r.type = "ROM" /\ r.start = Space - 4 /\ r.end = Space - 3
  \/ r.data = vecpg /\ r.type = "ROM" /\ r.start = Space - 6 /\ r.end = Space - 1

\* A buffer has a byte for every address of a region it backs, or it has none and
\* the region has one address.
Fits(r, buffers) ==
  r.type # "FILL" =>
    IF DOMAIN buffers[r.data] = {} THEN r.start = r.end
    ELSE \A a \in Address : Covers(r, a) => a - r.start \in DOMAIN buffers[r.data]

Backed == \A i \in DOMAIN g_regions : Placed(g_regions[i], i) /\ Fits(g_regions[i], store)

\* Of the regions that cover an address one is the newest.  It follows from the
\* order of numbers, by induction over them; as an invariant it needs none.
HasNewest ==
  \A a \in Address : Covering(a) # {} => \E i \in Covering(a) : \A j \in Covering(a) : j <= i

MInv == memTypeOK /\ DOMAIN store = Buffer /\ Backed /\ HasNewest

-----------------------------------------------------------------------------
(* 16-bit arithmetic.                                                      *)

LEMMA SpaceFacts ==
  /\ Space \in Nat /\ Space > 6 /\ MAX_REGIONS \in Nat
  /\ vec = MAX_REGIONS + 1 /\ vecpg = MAX_REGIONS + 2 /\ Buffer = 1..(MAX_REGIONS + 2)
BY MemoryAssumption DEF vec, vecpg, Buffer

LEMMA NarrowFacts ==
  /\ \A n \in Int : Narrow(n) \in Address
  /\ \A n \in Address : Narrow(n) = n
  /\ \A n \in Address : Narrow(n + Space) = n
BY SpaceFacts, SMT DEF Narrow, Address

\* The end of a region is less than its length away, or wraps below its start.
LEMMA EndFacts ==
  ASSUME NEW addr \in Address, NEW len \in Nat, len < Space
  PROVE  /\ EndOf(addr, len) \in Address
         /\ addr <= EndOf(addr, len) => EndOf(addr, len) - addr <= IF len = 0 THEN 0 ELSE len - 1
<1> DEFINE n == IF len = 0 THEN 0 ELSE len - 1
<1>1. n \in Nat /\ n < Space /\ Space \in Nat /\ addr \in Nat /\ addr < Space
  BY SpaceFacts DEF Address
<1>2. EndOf(addr, len) = Narrow(addr + n)
  BY DEF EndOf
<1>3. CASE addr + n < Space
  <2>1. addr + n \in Address
    BY <1>1, <1>3 DEF Address
  <2> QED
    BY <1>1, <1>2, <2>1, NarrowFacts
<1>4. CASE ~(addr + n < Space)
  <2>1. addr + n - Space \in Address /\ addr + n = (addr + n - Space) + Space
    BY <1>1, <1>4 DEF Address
  <2>2. EndOf(addr, len) = addr + n - Space
    BY <1>2, <2>1, NarrowFacts
  <2> QED
    BY <1>1, <2>1, <2>2
<1> QED
  BY <1>3, <1>4

LEMMA MaxChoice ==
  ASSUME NEW S \in SUBSET Int, NEW i \in S, \A j \in S : j <= i
  PROVE  (CHOOSE k \in S : \A j \in S : j <= k) = i
<1> DEFINE c == CHOOSE k \in S : \A j \in S : j <= k
<1>1. c \in S /\ \A j \in S : j <= c
  OBVIOUS
<1>2. c <= i /\ i <= c
  BY <1>1
<1> HIDE DEF c
<1>3. c = i
  BY <1>1, <1>2
<1> QED
  BY <1>3 DEF c

-----------------------------------------------------------------------------
(* The region an address belongs to.                                       *)

LEMMA OwnerFacts ==
  ASSUME MInv, NEW a \in Address, Covering(a) # {}
  PROVE  /\ Newest(a) \in DOMAIN g_regions
         /\ Owner(a) = g_regions[Newest(a)] /\ Owner(a) \in Region
         /\ Covers(Owner(a), a)
         /\ Placed(Owner(a), Newest(a)) /\ Fits(Owner(a), store)
         /\ Offset(a) = a - Owner(a).start
<1>1. /\ g_regions \in Seq(Region) /\ Covering(a) \subseteq DOMAIN g_regions
      /\ DOMAIN g_regions \subseteq Int
  BY DEF MInv, memTypeOK, Covering
<1>2. Newest(a) \in Covering(a)
  BY DEF MInv, HasNewest, Newest
<1>3. Newest(a) \in DOMAIN g_regions /\ Covers(g_regions[Newest(a)], a)
  BY <1>2 DEF Covering
<1>4. Owner(a) = g_regions[Newest(a)] /\ Owner(a) \in Region
  BY <1>1, <1>3 DEF Owner
<1>5. a - Owner(a).start \in Address
  BY <1>3, <1>4, SpaceFacts DEF Covers, Region, Address
<1>6. Offset(a) = a - Owner(a).start
  BY <1>5, NarrowFacts DEF Offset
<1> QED
  BY <1>3, <1>4, <1>6 DEF MInv, Backed

\* The address is in a region of RAM or ROM whose buffer has no byte.
NoByte(a) == Covering(a) # {} /\ Owner(a).type # "FILL" /\ DOMAIN store[Owner(a).data] = {}

\* What MemRead answers, with the buffer and the offset spelt out.
ReadRight(a) ==
  /\ MemRead(a) = IF Covering(a) = {} THEN g_default_fill
                  ELSE IF Owner(a).type = "FILL" THEN Owner(a).fill
                  ELSE IF NoByte(a) THEN Unset
                  ELSE store[Owner(a).data][a - Owner(a).start]
  /\ MemRead(a) \in Byte \cup {Unset}
  /\ MemRead(a) = Unset <=> NoByte(a)
  /\ Kind(a) = IF Covering(a) = {} THEN "unmapped"
               ELSE IF NoByte(a) THEN "unbacked"
               ELSE IF Writable(a) THEN "ram" ELSE "fixed"

LEMMA ReadFacts ==
  ASSUME MInv, NEW a \in Address
  PROVE  ReadRight(a)
<1>1. CASE Covering(a) = {}
  BY <1>1, MemoryAssumption DEF ReadRight, NoByte, Kind, MemRead, MInv, memTypeOK
<1>2. CASE Covering(a) # {}
  <2>1. /\ Owner(a) \in Region /\ Covers(Owner(a), a) /\ Fits(Owner(a), store)
        /\ Offset(a) = a - Owner(a).start
    BY <1>2, OwnerFacts
  <2>2. Owner(a).type # "FILL" => (InBuffer(a) <=> ~NoByte(a))
    BY <1>2, <2>1 DEF InBuffer, NoByte, Fits
  <2>3. MemRead(a) = IF Owner(a).type = "FILL" THEN Owner(a).fill
                     ELSE IF NoByte(a) THEN Unset
                     ELSE store[Owner(a).data][a - Owner(a).start]
    BY <1>2, <2>1, <2>2 DEF MemRead
  <2>4. Owner(a).fill \in Byte /\ Owner(a).data \in Buffer
    BY <2>1 DEF Region
  <2>5. Owner(a).type # "FILL" /\ ~NoByte(a) => store[Owner(a).data][a - Owner(a).start] \in Byte
    BY <1>2, <2>1, <2>4 DEF Fits, NoByte, MInv, memTypeOK
  <2>6. NoByte(a) => Owner(a).type # "FILL"
    BY DEF NoByte
  <2>7. MemRead(a) \in Byte \cup {Unset} /\ (MemRead(a) = Unset <=> NoByte(a))
    BY <2>3, <2>4, <2>5, <2>6, MemoryAssumption
  <2> QED
    BY <1>2, <2>2, <2>3, <2>6, <2>7 DEF ReadRight, Kind
<1> QED
  BY <1>1, <1>2

\* What MemRead answers, of every address.
ReadsRight == \A a \in Address : ReadRight(a)

LEMMA Reads == MInv => ReadsRight
BY ReadFacts DEF ReadsRight

-----------------------------------------------------------------------------
(* The steps.                                                              *)

\* A buffer that no entry of the table owns is filled.
Rewrites(c) ==
  /\ c \in Buffer \ DOMAIN g_regions
  /\ DOMAIN store' = Buffer
  /\ \A b \in Buffer \ {c} : store'[b] = store[b]
  /\ \A off \in DOMAIN store'[c] : off \in Nat /\ store'[c][off] \in Byte
  /\ c = vec => DOMAIN store'[c] = 0..1
  /\ c = vecpg => DOMAIN store'[c] = 0..5

\* A region enters the table.
Adds(r, c) ==
  /\ Len(g_regions) < MAX_REGIONS
  /\ g_regions' = Append(g_regions, r)
  /\ r \in Region /\ Placed(r, Len(g_regions) + 1) /\ Fits(r, store')
  /\ c \in {vec, vecpg} => r.data = c
  /\ Rewrites(c)

\* Regions that were there still fit.
LEMMA StillFits ==
  ASSUME MInv, NEW c, Rewrites(c), NEW i \in DOMAIN g_regions
  PROVE  Fits(g_regions[i], store')
<1>1. /\ g_regions[i] \in Region /\ Placed(g_regions[i], i) /\ Fits(g_regions[i], store)
      /\ c # i
  <2>1. g_regions \in Seq(Region)
    BY DEF MInv, memTypeOK
  <2> QED
    BY <2>1 DEF MInv, Backed, Rewrites
<1> SUFFICES ASSUME NEW r \in Region, Placed(r, i), Fits(r, store)
             PROVE  Fits(r, store')
  BY <1>1
<1>2. r.data \in Buffer /\ r.start \in Address /\ r.end \in Address
  BY DEF Region
<1>3. CASE r.data # c
  BY <1>1, <1>2, <1>3 DEF Fits, Rewrites
<1>4. CASE r.data = c
  <2>1. CASE c = vec
    <3>1. r.start = Space - 4 /\ r.end = Space - 3 /\ DOMAIN store'[r.data] = 0..1
      BY <1>1, <1>4, <2>1, SpaceFacts DEF Placed, Rewrites
    <3> QED
      BY <3>1, SpaceFacts DEF Fits, Covers, Address
  <2>2. CASE c = vecpg
    <3>1. r.start = Space - 6 /\ r.end = Space - 1 /\ DOMAIN store'[r.data] = 0..5
      BY <1>1, <1>4, <2>2, SpaceFacts DEF Placed, Rewrites
    <3> QED
      BY <3>1, SpaceFacts DEF Fits, Covers, Address
  <2> QED
    BY <1>1, <1>4, <2>1, <2>2 DEF Placed
<1> QED
  BY <1>3, <1>4

LEMMA Appended ==
  ASSUME memTypeOK, NEW r \in Region, g_regions' = Append(g_regions, r)
  PROVE  /\ g_regions \in Seq(Region) /\ Len(g_regions) \in Nat
         /\ DOMAIN g_regions = 1..Len(g_regions)
         /\ g_regions' \in Seq(Region) /\ Len(g_regions') = Len(g_regions) + 1
         /\ DOMAIN g_regions' = 1..(Len(g_regions) + 1)
         /\ \A i \in DOMAIN g_regions : g_regions'[i] = g_regions[i]
         /\ g_regions'[Len(g_regions) + 1] = r
BY DEF memTypeOK

\* The new region owns the addresses it covers, and no other changes hands.
LEMMA OwnersAfter ==
  ASSUME MInv, NEW r \in Region, g_regions' = Append(g_regions, r), NEW a \in Address
  PROVE  IF Covers(r, a)
         THEN /\ Covering(a)' # {} /\ Owner(a)' = r
              /\ \E i \in Covering(a)' : \A j \in Covering(a)' : j <= i
         ELSE Covering(a)' = Covering(a) /\ (Covering(a) # {} => Owner(a)' = Owner(a))
<1> DEFINE new == Len(g_regions) + 1
<1>1. /\ new \in Nat /\ DOMAIN g_regions = 1..(new - 1) /\ DOMAIN g_regions' = 1..new
      /\ \A i \in DOMAIN g_regions : g_regions'[i] = g_regions[i]
      /\ g_regions'[new] = r
  BY Appended DEF MInv
<1> HIDE DEF new
<1>2. Covering(a)' = {i \in 1..new : Covers(g_regions'[i], a)}
  BY <1>1 DEF Covering, Covers
<1>3. Covering(a) = {i \in 1..(new - 1) : Covers(g_regions[i], a)}
  BY <1>1 DEF Covering
<1>4. Covering(a)' = Covering(a) \cup (IF Covers(r, a) THEN {new} ELSE {})
  BY <1>1, <1>2, <1>3
<1>5. CASE Covers(r, a)
  <2>1. /\ Covering(a)' \in SUBSET Int /\ new \in Covering(a)'
        /\ \A j \in Covering(a)' : j <= new
    BY <1>1, <1>2, <1>5
  <2>2. Newest(a)' = new
    BY <2>1, MaxChoice DEF Newest
  <2>3. Owner(a)' = r
    BY <1>1, <2>2 DEF Owner
  <2> QED
    BY <1>5, <2>1, <2>3
<1>6. CASE ~Covers(r, a)
  <2>1. Covering(a)' = Covering(a)
    BY <1>4, <1>6
  <2>2. Newest(a)' = Newest(a)
    BY <2>1 DEF Newest
  <2>3. Covering(a) # {} => Newest(a) \in DOMAIN g_regions
    BY OwnerFacts
  <2> QED
    BY <1>1, <1>6, <2>1, <2>2, <2>3 DEF Owner
<1> QED
  BY <1>5, <1>6

LEMMA AddsStep ==
  ASSUME MInv, NEW r, NEW c, Adds(r, c), UNCHANGED g_default_fill
  PROVE  MInv'
<1>1. /\ r \in Region /\ g_regions' = Append(g_regions, r) /\ Rewrites(c)
      /\ Len(g_regions) < MAX_REGIONS
  BY DEF Adds
<1>2. memTypeOK'
  <2>1. g_regions' \in Seq(Region) /\ Len(g_regions') <= MAX_REGIONS
    BY <1>1, Appended, SpaceFacts DEF MInv
  <2>2. \A b \in Buffer : \A off \in DOMAIN store'[b] : off \in Nat /\ store'[b][off] \in Byte
    BY <1>1 DEF Rewrites, MInv, memTypeOK
  <2> QED
    BY <2>1, <2>2 DEF MInv, memTypeOK
<1>3. DOMAIN store' = Buffer
  BY <1>1 DEF Rewrites
<1>4. Backed'
  <2>1. /\ DOMAIN g_regions = 1..Len(g_regions) /\ Len(g_regions) \in Nat
        /\ DOMAIN g_regions' = 1..(Len(g_regions) + 1)
        /\ \A i \in DOMAIN g_regions : g_regions'[i] = g_regions[i]
        /\ g_regions'[Len(g_regions) + 1] = r
    BY <1>1, Appended DEF MInv
  <2>2. \A i \in DOMAIN g_regions : Placed(g_regions[i], i) /\ Fits(g_regions[i], store')
    BY <1>1, StillFits DEF MInv, Backed
  <2>3. Placed(r, Len(g_regions) + 1) /\ Fits(r, store')
    BY DEF Adds
  <2>4. \A i \in DOMAIN g_regions' : Placed(g_regions'[i], i) /\ Fits(g_regions'[i], store')
    BY <2>1, <2>2, <2>3
  <2> QED
    BY <2>4 DEF Backed
<1>5. HasNewest'
  <2>1. \A a \in Address : Covering(a)' # {} =>
          \E i \in Covering(a)' : \A j \in Covering(a)' : j <= i
    BY <1>1, OwnersAfter DEF MInv, HasNewest
  <2> QED
    BY <2>1 DEF HasNewest
<1> QED
  BY <1>2, <1>3, <1>4, <1>5 DEF MInv

\* A helper that finds the table full has still written its static bytes.
LEMMA RewritesStep ==
  ASSUME MInv, NEW c, Rewrites(c), UNCHANGED <<g_regions, g_default_fill>>
  PROVE  MInv'
<1>1. memTypeOK' /\ DOMAIN store' = Buffer
  BY DEF Rewrites, MInv, memTypeOK
<1>2. \A i \in DOMAIN g_regions : Placed(g_regions[i], i) /\ Fits(g_regions[i], store')
  BY StillFits DEF MInv, Backed
<1>3. Backed'
  BY <1>2 DEF Backed
<1>4. \A a : Covering(a)' = Covering(a)
  BY DEF Covering, Covers
<1>5. HasNewest'
  BY <1>4 DEF MInv, HasNewest
<1> QED
  BY <1>1, <1>3, <1>5 DEF MInv

\* What a call of a mapping function comes to: nothing, a new region, or, if the
\* table is full, static bytes that nobody asked for.
Maps ==
  /\ UNCHANGED g_default_fill
  /\ \/ UNCHANGED <<g_regions, store>>
     \/ \E r, c : Adds(r, c)
     \/ UNCHANGED g_regions /\ \E c \in {vec, vecpg} : Rewrites(c)

LEMMA RoomFacts ==
  ASSUME MInv, Len(g_regions) < MAX_REGIONS
  PROVE  /\ NextBuffer = Len(g_regions) + 1
         /\ NextBuffer \in Buffer \ DOMAIN g_regions
         /\ NextBuffer \notin {vec, vecpg}
<1>1. Len(g_regions) \in Nat /\ DOMAIN g_regions = 1..Len(g_regions)
  BY DEF MInv, memTypeOK
<1> QED
  BY <1>1, SpaceFacts DEF NextBuffer

LEMMA BlobStep ==
  ASSUME MInv, NEW type \in {"ROM", "RAM"}, NEW addr \in Address,
         NEW len \in Nat, len < Space, NEW b \in Byte, MapBlob(type, addr, len, b)
  PROVE  Maps
<1>1. CASE ~(Len(g_regions) < MAX_REGIONS)
  <2>1. Len(g_regions) >= MAX_REGIONS
    BY <1>1, SpaceFacts DEF MInv, memTypeOK
  <2> QED
    BY <1>1, <2>1 DEF MapBlob, add_region, Back, Maps
<1>2. CASE Len(g_regions) < MAX_REGIONS
  <2> DEFINE c == NextBuffer
             r == [start |-> addr, end |-> EndOf(addr, len), type |-> type,
                   data |-> c, fill |-> 0]
  <2>1. ~(Len(g_regions) >= MAX_REGIONS)
    BY <1>2, SpaceFacts DEF MInv, memTypeOK
  <2>2. g_regions' = Append(g_regions, r)
    BY <2>1 DEF MapBlob, add_region
  <2>3. c = Len(g_regions) + 1 /\ c \in Buffer \ DOMAIN g_regions /\ c \notin {vec, vecpg}
    BY <1>2, RoomFacts
  <2>4. store' = [store EXCEPT ![c] = Blob(len, b)] /\ DOMAIN store = Buffer
    BY <1>2 DEF MapBlob, Back, MInv
  <2>5. r \in Region
    BY <2>3, EndFacts, MemoryAssumption DEF Region
  <2> HIDE DEF c
  <2>6. store'[c] = Blob(len, b)
    BY <2>3, <2>4
  <2>7. DOMAIN store'[c] = 0..(len - 1)
    BY <2>6 DEF Blob
  <2>8. Rewrites(c)
    BY <2>3, <2>4, <2>6 DEF Rewrites, Blob
  <2>9. Fits(r, store')
    <3>1. CASE len = 0
      <4>1. EndOf(addr, len) = addr /\ DOMAIN store'[c] = {}
        BY <2>7, <3>1, NarrowFacts DEF EndOf, Address
      <4> QED
        BY <4>1 DEF Fits
    <3>2. CASE len # 0
      <4>1. 0 \in DOMAIN store'[c]
        BY <2>7, <3>2
      <4>2. ASSUME NEW a \in Address, Covers(r, a)  PROVE  a - addr \in DOMAIN store'[c]
        <5>1. /\ a \in Int /\ addr \in Int /\ addr <= a /\ a <= EndOf(addr, len)
              /\ EndOf(addr, len) \in Int
          BY <4>2, EndFacts, SpaceFacts DEF Covers, Address
        <5>2. EndOf(addr, len) - addr <= len - 1
          BY <3>2, <5>1, EndFacts
        <5>3. a - addr \in 0..(len - 1)
          BY <5>1, <5>2
        <5> QED
          BY <2>7, <5>3
      <4> QED
        BY <4>1, <4>2 DEF Fits
    <3> QED
      BY <3>1, <3>2
  <2>10. Placed(r, Len(g_regions) + 1)
    BY <2>3 DEF Placed
  <2>11. Adds(r, c)
    BY <1>2, <2>2, <2>3, <2>5, <2>8, <2>9, <2>10 DEF Adds
  <2>12. UNCHANGED g_default_fill
    BY DEF MapBlob
  <2> QED
    BY <2>11, <2>12 DEF Maps
<1> QED
  BY <1>1, <1>2

LEMMA FillStep ==
  ASSUME MInv, NEW addr \in Address, NEW len \in Nat, len < Space, NEW b \in Byte,
         MapFill(addr, len, b)
  PROVE  Maps
<1>1. CASE ~(Len(g_regions) < MAX_REGIONS)
  <2>1. Len(g_regions) >= MAX_REGIONS
    BY <1>1, SpaceFacts DEF MInv, memTypeOK
  <2> QED
    BY <2>1 DEF MapFill, add_region, Maps
<1>2. CASE Len(g_regions) < MAX_REGIONS
  <2> DEFINE c == NextBuffer
             r == [start |-> addr, end |-> EndOf(addr, len), type |-> "FILL",
                   data |-> c, fill |-> b]
  <2>1. ~(Len(g_regions) >= MAX_REGIONS)
    BY <1>2, SpaceFacts DEF MInv, memTypeOK
  <2>2. g_regions' = Append(g_regions, r) /\ store' = store
    BY <2>1 DEF MapFill, add_region
  <2>3. c = Len(g_regions) + 1 /\ c \in Buffer \ DOMAIN g_regions /\ c \notin {vec, vecpg}
    BY <1>2, RoomFacts
  <2>4. r \in Region
    BY <2>3, EndFacts DEF Region
  <2> HIDE DEF c
  <2>5. Rewrites(c)
    BY <2>2, <2>3 DEF Rewrites, MInv, memTypeOK
  <2>6. Fits(r, store') /\ Placed(r, Len(g_regions) + 1)
    BY <2>3 DEF Fits, Placed
  <2>7. Adds(r, c)
    BY <1>2, <2>2, <2>3, <2>4, <2>5, <2>6 DEF Adds
  <2>8. UNCHANGED g_default_fill
    BY DEF MapFill
  <2> QED
    BY <2>7, <2>8 DEF Maps
<1> QED
  BY <1>1, <1>2

\* One of the helpers: n bytes at the vectors, in a static buffer.
LEMMA VectorStep ==
  ASSUME MInv, NEW c, NEW start, NEW n, NEW bytes,
         \/ c = vec /\ start = Space - 4 /\ n = 2
         \/ c = vecpg /\ start = Space - 6 /\ n = 6,
         bytes \in Seq(Byte), Len(bytes) = n, MapVector(c, start, bytes)
  PROVE  Maps
<1>1. c \in Buffer \ DOMAIN g_regions
  <2>1. Len(g_regions) \in Nat /\ DOMAIN g_regions = 1..Len(g_regions) /\ Len(g_regions) <= MAX_REGIONS
    BY DEF MInv, memTypeOK
  <2> QED
    BY <2>1, SpaceFacts
<1>2. /\ DOMAIN store' = Buffer /\ DOMAIN store'[c] = 0..(n - 1)
      /\ \A off \in 0..(n - 1) : store'[c][off] = bytes[off + 1]
      /\ \A b \in Buffer \ {c} : store'[b] = store[b]
  BY <1>1 DEF MapVector, MInv
<1>3. \A off \in 0..(n - 1) : bytes[off + 1] \in Byte
  OBVIOUS
<1>4. Rewrites(c)
  BY <1>1, <1>2, <1>3, SpaceFacts DEF Rewrites
<1>5. CASE ~(Len(g_regions) < MAX_REGIONS)
  <2>1. Len(g_regions) >= MAX_REGIONS
    BY <1>5, SpaceFacts DEF MInv, memTypeOK
  <2> QED
    BY <1>4, <2>1 DEF MapVector, add_region, Maps
<1>6. CASE Len(g_regions) < MAX_REGIONS
  <2> DEFINE r == [start |-> start, end |-> EndOf(start, n), type |-> "ROM",
                   data |-> c, fill |-> 0]
  <2>1. ~(Len(g_regions) >= MAX_REGIONS)
    BY <1>6, SpaceFacts DEF MInv, memTypeOK
  <2>2. g_regions' = Append(g_regions, r)
    BY <2>1 DEF MapVector, add_region
  <2>3. start \in Address /\ start + n - 1 \in Address
    BY SpaceFacts DEF Address
  <2>4. EndOf(start, n) = start + n - 1
    BY <2>3, NarrowFacts DEF EndOf
  <2>5. r \in Region
    BY <1>1, <2>3, <2>4, MemoryAssumption DEF Region
  <2>6. Placed(r, Len(g_regions) + 1)
    BY <2>4, SpaceFacts DEF Placed
  <2>7. Fits(r, store')
    BY <1>2, <2>3, <2>4 DEF Fits, Covers, Address
  <2>8. Adds(r, c)
    BY <1>4, <1>6, <2>2, <2>5, <2>6, <2>7 DEF Adds
  <2>9. UNCHANGED g_default_fill
    BY DEF MapVector
  <2> QED
    BY <2>8, <2>9 DEF Maps
<1> QED
  BY <1>5, <1>6

LEMMA MapsStep ==
  ASSUME MInv, Map \/ MapVectors
  PROVE  Maps
<1>1. CASE Map
  <2>1. PICK addr \in Points, len \in Lengths, b \in Byte :
          MapROM(addr, len, b) \/ MapRAM(addr, len, b) \/ MapFill(addr, len, b)
    BY <1>1 DEF Map
  <2>2. addr \in Address /\ len \in Nat /\ len < Space
    BY MemoryAssumption DEF Address
  <2> QED
    BY <2>1, <2>2, BlobStep, FillStep DEF MapROM, MapRAM
<1>2. CASE MapVectors
  <2>1. PICK reset \in Entries, other \in Entries :
          MapResetVector(reset) \/ MapVectorPage(other, reset, other)
    BY <1>2 DEF MapVectors
  <2>2. PICK lo \in Byte, hi \in Byte : reset = <<lo, hi>>
    BY MemoryAssumption
  <2>3. PICK olo \in Byte, ohi \in Byte : other = <<olo, ohi>>
    BY MemoryAssumption
  <2>4. /\ reset \in Seq(Byte) /\ Len(reset) = 2
        /\ other \in Seq(Byte) /\ Len(other) = 2
    BY <2>2, <2>3
  <2>5. other \o reset \in Seq(Byte) /\ Len(other \o reset) = Len(other) + Len(reset)
    BY <2>4, ConcatProperties, Zenon
  <2>6. /\ other \o reset \o other \in Seq(Byte)
        /\ Len(other \o reset \o other) = Len(other \o reset) + Len(other)
    BY <2>4, <2>5, ConcatProperties, Zenon
  <2>7. Len(other \o reset \o other) = 6
    BY <2>4, <2>5, <2>6
  <2>8. CASE MapResetVector(reset)
    BY <2>4, <2>8, VectorStep DEF MapResetVector
  <2>9. CASE MapVectorPage(other, reset, other)
    BY <2>6, <2>7, <2>9, VectorStep DEF MapVectorPage
  <2> QED
    BY <2>1, <2>8, <2>9
<1> QED
  BY <1>1, <1>2

\* What a write changes: one byte of the buffer its region has.
LEMMA WriteFacts ==
  ASSUME MInv, NEW addr \in Address, NEW val \in Byte, MemWrite(addr, val)
  PROVE  /\ UNCHANGED <<g_regions, g_default_fill>>
         /\ DOMAIN store' = Buffer
         /\ \A b \in Buffer : DOMAIN store'[b] = DOMAIN store[b]
         /\ \A b \in Buffer : \A off \in DOMAIN store[b] :
              store'[b][off] = IF Writable(addr) /\ Owner(addr).data = b /\ Offset(addr) = off
                               THEN val ELSE store[b][off]
<1> DEFINE f == [a \in {addr} |-> val]
           here(b, off) == {a \in DOMAIN f :
                              Writable(a) /\ Owner(a).data = b /\ Offset(a) = off}
<1>1. store' = [b \in Buffer |-> [off \in DOMAIN store[b] |->
                  IF here(b, off) = {} THEN store[b][off] ELSE f[CHOOSE a \in here(b, off) : TRUE] ]]
  BY DEF MemWrite, MemWrites
<1>2. \A b, off : here(b, off) = IF Writable(addr) /\ Owner(addr).data = b /\ Offset(addr) = off
                                 THEN {addr} ELSE {}
  OBVIOUS
<1>3. \A b, off : here(b, off) # {} => f[CHOOSE a \in here(b, off) : TRUE] = val
  BY <1>2
<1> HIDE DEF f, here
<1>4. \A b \in Buffer : \A off \in DOMAIN store[b] :
        store'[b][off] = IF here(b, off) = {} THEN store[b][off] ELSE val
  BY <1>1, <1>3
<1>5. \A b \in Buffer : \A off \in DOMAIN store[b] :
        store'[b][off] = IF Writable(addr) /\ Owner(addr).data = b /\ Offset(addr) = off
                         THEN val ELSE store[b][off]
  BY <1>2, <1>4
<1> QED
  BY <1>1, <1>5 DEF MemWrite

\* The table decides which region an address belongs to.
LEMMA SameOwners ==
  ASSUME UNCHANGED g_regions, NEW a \in Address
  PROVE  /\ Covering(a)' = Covering(a) /\ Owner(a)' = Owner(a)
         /\ Writable(a)' = Writable(a)
<1>1. Covering(a)' = Covering(a)
  BY DEF Covering
<1>2. Owner(a)' = Owner(a)
  BY <1>1 DEF Owner, Newest
<1>3. Writable(a)' = Writable(a)
  BY <1>1, <1>2 DEF Writable
<1> QED
  BY <1>1, <1>2, <1>3

LEMMA WriteStep ==
  ASSUME MInv, NEW addr \in Address, NEW val \in Byte, MemWrite(addr, val)
  PROVE  MInv'
<1>1. memTypeOK' /\ DOMAIN store' = Buffer
  BY WriteFacts DEF MInv, memTypeOK
<1>2. Backed'
  <2> SUFFICES \A i \in DOMAIN g_regions : g_regions[i].data \in Buffer
    BY WriteFacts DEF MInv, Backed, Fits
  <2>1. \A i \in DOMAIN g_regions : g_regions[i] \in Region
    BY DEF MInv, memTypeOK
  <2> QED
    BY <2>1 DEF Region
<1>3. HasNewest'
  BY SameOwners, WriteFacts DEF MInv, HasNewest
<1> QED
  BY <1>1, <1>2, <1>3 DEF MInv

LEMMA InitInvariant == memInit => MInv
<1> SUFFICES ASSUME memInit PROVE MInv
  OBVIOUS
<1>1. g_regions = <<>> /\ DOMAIN g_regions = {}
  BY DEF memInit
<1>2. \A a : Covering(a) = {}
  BY <1>1 DEF Covering
<1>3. memTypeOK /\ DOMAIN store = Buffer
  BY MemoryAssumption DEF memInit, memTypeOK
<1> QED
  BY <1>1, <1>2, <1>3 DEF MInv, Backed, HasNewest

LEMMA StepInvariant == MInv /\ [memNext]_memVars => MInv'
<1> SUFFICES ASSUME MInv, [memNext]_memVars PROVE MInv'
  OBVIOUS
<1>1. CASE Map \/ MapVectors
  <2>1. Maps
    BY <1>1, MapsStep
  <2>2. CASE UNCHANGED <<g_regions, g_default_fill, store>>
    BY <2>2 DEF MInv, memTypeOK, Backed, HasNewest, Covering
  <2>3. CASE \E r, c : Adds(r, c)
    BY <2>1, <2>3, AddsStep DEF Maps
  <2>4. CASE UNCHANGED g_regions /\ \E c \in {vec, vecpg} : Rewrites(c)
    BY <2>1, <2>4, RewritesStep DEF Maps
  <2> QED
    BY <2>1, <2>2, <2>3, <2>4 DEF Maps
<1>2. CASE \E b \in Byte : MemSetDefaultFill(b)
  BY <1>2 DEF MemSetDefaultFill, MInv, memTypeOK, Backed, HasNewest, Covering
<1>3. CASE \E addr \in Points, b \in Byte : MemWrite(addr, b)
  BY <1>3, WriteStep, MemoryAssumption DEF Address
<1>4. CASE UNCHANGED memVars
  BY <1>4 DEF memVars, MInv, memTypeOK, Backed, HasNewest, Covering
<1> QED
  BY <1>1, <1>2, <1>3, <1>4 DEF memNext

\* Every region has a buffer as long as itself, its own or a helper's.
THEOREM Invariance == memSpec => []MInv
BY InitInvariant, StepInvariant, PTL DEF memSpec

-----------------------------------------------------------------------------
(* The properties.                                                         *)

\* The table never holds more regions than there is room for, and regions,
\* buffers and the default byte keep their types.
THEOREM TypeCorrect == memSpec => []memTypeOK
<1>1. MInv => memTypeOK
  BY DEF MInv
<1> QED
  BY <1>1, Invariance, PTL

\* MemRead and MemWrite index no buffer past its end, whatever regions were
\* mapped in whatever order, but one that has no byte at all: a region that
\* wraps past the top of memory covers nothing, one of length 0 the address it
\* was mapped at, where there is nothing to read.
THEOREM InBounds == memSpec => []ReadsInBounds
<1>1. ASSUME MInv, NEW a \in Address, Covering(a) # {}, Owner(a).type # "FILL"
      PROVE  IF DOMAIN store[Owner(a).data] = {} THEN a = Owner(a).start /\ a = Owner(a).end
             ELSE InBuffer(a)
  <2>1. /\ Owner(a) \in Region /\ Covers(Owner(a), a) /\ Fits(Owner(a), store)
        /\ Offset(a) = a - Owner(a).start
    BY <1>1, OwnerFacts
  <2>2. a \in Int /\ Owner(a).start \in Int /\ Owner(a).end \in Int
    BY <2>1, SpaceFacts DEF Region, Address
  <2> QED
    BY <1>1, <2>1, <2>2 DEF InBuffer, Fits, Covers
<1>2. MInv => ReadsInBounds
  BY <1>1 DEF ReadsInBounds
<1> QED
  BY <1>2, Invariance, PTL

-----------------------------------------------------------------------------
(* Memory as the readers use it: one region of RAM up to the last address  *)
(* but one.                                                                *)

Imaged ==
  /\ g_regions = <<Image>> /\ g_default_fill = 0
  /\ DOMAIN store = Buffer /\ DOMAIN store[1] = 0..(Space - 2)
  /\ \A b \in Buffer : \A off \in DOMAIN store[b] : off \in Nat /\ store[b][off] \in Byte

LEMMA ImageFacts ==
  /\ Image.start = 0 /\ Image.end = Space - 2 /\ Image.type = "RAM" /\ Image.data = 1
  /\ Image \in Region /\ 1 \in Buffer
<1>1. 0 \in Address /\ Space - 2 \in Address /\ 1 \in Buffer /\ 0 \in Byte
  BY SpaceFacts, MemoryAssumption DEF Address
<1> QED
  BY <1>1 DEF Image, Region

LEMMA ImagedReads ==
  ASSUME Imaged, NEW a \in Address
  PROVE  /\ memTypeOK
         /\ a < Space - 1 => /\ MemRead(a) = store[1][a] /\ Writable(a)
                            /\ Owner(a) = Image /\ Offset(a) = a /\ a \in DOMAIN store[1]
         /\ ~(a < Space - 1) => MemRead(a) = 0 /\ ~Writable(a)
         /\ MemRead(a) \in Byte
<1>1. /\ g_regions = <<Image>> /\ DOMAIN g_regions = {1} /\ g_regions[1] = Image
      /\ Len(g_regions) = 1 /\ g_regions \in Seq(Region)
  BY ImageFacts DEF Imaged
<1>2. memTypeOK
  BY <1>1, MemoryAssumption DEF Imaged, memTypeOK
<1>3. a \in Nat /\ Space \in Nat /\ a < Space /\ Space > 6
  BY SpaceFacts DEF Address
<1>4. Covers(Image, a) <=> a < Space - 1
  BY <1>3, ImageFacts DEF Covers
<1>5. CASE a < Space - 1
  <2>1. Covering(a) = {1}
    BY <1>1, <1>4, <1>5 DEF Covering
  <2>2. Newest(a) = 1
    BY <2>1 DEF Newest
  <2>3. Owner(a) = Image
    BY <1>1, <2>2 DEF Owner
  <2>4. a - Image.start = a /\ Narrow(a) = a
    BY <1>3, ImageFacts, NarrowFacts
  <2>5. Covering(a) # {} /\ Owner(a).type = "RAM" /\ Owner(a).data = 1 /\ Offset(a) = a
    BY <2>1, <2>3, <2>4, ImageFacts DEF Offset
  <2>6. a \in DOMAIN store[1]
    BY <1>3, <1>5 DEF Imaged
  <2>7. MemRead(a) = store[1][a]
    BY <2>5, <2>6 DEF MemRead, InBuffer
  <2> QED
    BY <1>2, <1>5, <2>3, <2>5, <2>6, <2>7, ImageFacts DEF Imaged, Writable
<1>6. CASE ~(a < Space - 1)
  <2>1. Covering(a) = {}
    BY <1>1, <1>4, <1>6 DEF Covering
  <2> QED
    BY <1>2, <1>6, <2>1, MemoryAssumption DEF MemRead, Writable, Imaged
<1> QED
  BY <1>5, <1>6

ImageShown == \A a \in Address : a < Space - 1 => MemRead(a) = store[1][a]

LEMMA ImagedBytes == Imaged => ImageShown
BY ImagedReads DEF ImageShown

LEMMA ImagedTyped == Imaged => memTypeOK
<1>1. 0 \in Address
  BY SpaceFacts DEF Address
<1> QED
  BY <1>1, ImagedReads

LEMMA InitImaged ==
  ASSUME imageInit
  PROVE  Imaged /\ \A a \in Address : MemRead(a) = 0
<1>1. Space - 1 \in Nat /\ Space - 1 # 0 /\ Space - 1 - 1 = Space - 2 /\ 0 \in Byte
  BY SpaceFacts, MemoryAssumption
<1>2. Blob(Space - 1, 0) = [off \in 0..(Space - 2) |-> 0]
  BY <1>1 DEF Blob
<1>3. /\ DOMAIN store = Buffer
      /\ store[1] = [off \in 0..(Space - 2) |-> 0]
      /\ \A b \in Buffer : b # 1 => store[b] = [off \in {} |-> 0]
  BY <1>2, ImageFacts DEF imageInit
<1>4. Imaged
  BY <1>1, <1>3 DEF imageInit, Imaged
<1>5. \A a \in Address : MemRead(a) = 0
  BY <1>3, <1>4, ImagedReads DEF Imaged
<1> QED
  BY <1>4, <1>5

LEMMA ImagedWrites ==
  ASSUME Imaged, UNCHANGED <<g_regions, g_default_fill>>,
         NEW f, DOMAIN f \subseteq Address, \A a \in DOMAIN f : f[a] \in Byte,
         MemWrites(f)
  PROVE  /\ Imaged'
         /\ \A a \in Address :
              a < Space - 1 => MemRead(a)' = IF a \in DOMAIN f THEN f[a] ELSE MemRead(a)
<1> DEFINE here(b, off) == {a \in DOMAIN f : Writable(a) /\ Owner(a).data = b /\ Offset(a) = off}
<1>1. /\ DOMAIN store' = Buffer
      /\ \A b \in Buffer : DOMAIN store'[b] = DOMAIN store[b]
      /\ \A b \in Buffer : \A off \in DOMAIN store[b] :
           store'[b][off] = IF here(b, off) = {} THEN store[b][off]
                            ELSE f[CHOOSE a \in here(b, off) : TRUE]
  BY DEF MemWrites
<1>2. \A b \in Buffer : \A off \in DOMAIN store[b] :
        here(b, off) # {} => f[CHOOSE a \in here(b, off) : TRUE] \in Byte
  <2>1. \A b, off : here(b, off) \subseteq DOMAIN f
    OBVIOUS
  <2>2. \A b, off : here(b, off) # {} => (CHOOSE a \in here(b, off) : TRUE) \in here(b, off)
    OBVIOUS
  <2> QED
    BY <2>1, <2>2
<1>3. Imaged'
  <2> HIDE DEF here
  <2>1. DOMAIN store'[1] = 0..(Space - 2)
    BY <1>1, ImageFacts DEF Imaged
  <2>2. \A b \in Buffer : \A off \in DOMAIN store'[b] : off \in Nat /\ store'[b][off] \in Byte
    BY <1>1, <1>2 DEF Imaged
  <2> QED
    BY <1>1, <2>1, <2>2 DEF Imaged
<1>4. ASSUME NEW a \in Address, a < Space - 1
      PROVE  MemRead(a)' = IF a \in DOMAIN f THEN f[a] ELSE MemRead(a)
  <2>1. /\ MemRead(a) = store[1][a] /\ a \in DOMAIN store[1]
        /\ Writable(a) /\ Owner(a) = Image /\ Offset(a) = a
    BY <1>4, ImagedReads
  <2>2. MemRead(a)' = store'[1][a]
    <3>1. ImageShown'
      BY <1>3, ImagedBytes, PTL
    <3> QED
      BY <1>4, <3>1 DEF ImageShown
  <2>3. here(1, a) = IF a \in DOMAIN f THEN {a} ELSE {}
    <3>1. ASSUME NEW x \in here(1, a) PROVE x = a
      <4>1. x \in Address /\ Writable(x) /\ Offset(x) = a
        OBVIOUS
      <4>2. x < Space - 1
        BY <4>1, ImagedReads
      <4> QED
        BY <4>1, <4>2, ImagedReads
    <3>2. a \in DOMAIN f => a \in here(1, a)
      BY <2>1, ImageFacts
    <3>3. here(1, a) \subseteq DOMAIN f
      OBVIOUS
    <3> HIDE DEF here
    <3> QED
      BY <3>1, <3>2, <3>3
  <2>4. store'[1][a] = IF here(1, a) = {} THEN store[1][a] ELSE f[CHOOSE x \in here(1, a) : TRUE]
    BY <1>1, <2>1, ImageFacts
  <2> HIDE DEF here
  <2>5. CASE a \in DOMAIN f
    <3>1. here(1, a) = {a} /\ (CHOOSE x \in {a} : TRUE) = a
      BY <2>3, <2>5
    <3> QED
      BY <2>2, <2>4, <2>5, <3>1
  <2>6. CASE a \notin DOMAIN f
    BY <2>1, <2>2, <2>3, <2>4, <2>6
  <2> QED
    BY <2>5, <2>6
<1> QED
  BY <1>3, <1>4

-----------------------------------------------------------------------------
(* Memory implements FlatMemory.                                           *)

Views == [a \in Address |-> MemRead(a)]
KindsNow == [a \in Address |-> Kind(a)]

\* Only the helper for the vectors, or the entry a region is about to get, has
\* the buffer that is filled.
LEMMA OthersKeep ==
  ASSUME MInv, NEW c, Rewrites(c), NEW a \in Address, Covering(a) # {},
         Owner(a).type # "FILL", Owner(a).data = c
  PROVE  \/ c = vec /\ Owner(a).type = "ROM" /\ Owner(a).start = Space - 4 /\ Owner(a).end = Space - 3
         \/ c = vecpg /\ Owner(a).type = "ROM" /\ Owner(a).start = Space - 6 /\ Owner(a).end = Space - 1
BY OwnerFacts DEF Placed, Rewrites

LEMMA ShowsRight ==
  ASSUME ReadsRight'
  PROVE  Flat!Shows(Views', KindsNow')
<1>1. \A a \in Address : MemRead(a)' \in Byte \cup {Unset}
  BY DEF ReadsRight, ReadRight, Address
<1>2. \A a \in Address : Kind(a)' \in Flat!Kinds
  BY DEF Kind, Flat!Kinds
<1>3. \A a \in Address : MemRead(a)' = Unset <=> Kind(a)' = "unbacked"
  BY DEF ReadsRight, ReadRight, NoByte, Address
<1> QED
  BY <1>1, <1>2, <1>3 DEF Flat!Shows, Flat!Address, Address, Views, KindsNow

\* A new region changes the addresses it covers, and no other.
LEMMA AddsFlat ==
  ASSUME MInv, ReadsRight, ReadsRight', NEW r, NEW c, Adds(r, c), UNCHANGED g_default_fill
  PROVE  Flat!Map
<1> DEFINE k == IF r.type # "FILL" /\ DOMAIN store'[r.data] = {} THEN "unbacked"
                ELSE IF r.type = "RAM" THEN "ram" ELSE "fixed"
<1>1. /\ r \in Region /\ g_regions' = Append(g_regions, r) /\ Rewrites(c)
      /\ Placed(r, Len(g_regions) + 1) /\ Len(g_regions) + 1 \notin {vec, vecpg}
      /\ r.start \in Address /\ r.end \in Address
  BY SpaceFacts DEF Adds, Region, MInv, memTypeOK
<1>2. ASSUME NEW a \in Address, Covers(r, a)
      PROVE  Kind(a)' = k
  <2>1. Covering(a)' # {} /\ Owner(a)' = r
    BY <1>1, <1>2, OwnersAfter
  <2>2. /\ NoByte(a)' <=> r.type # "FILL" /\ DOMAIN store'[r.data] = {}
        /\ Writable(a)' <=> r.type = "RAM"
    BY <2>1 DEF NoByte, Writable
  <2> QED
    BY <2>1, <2>2 DEF ReadsRight, ReadRight
<1>3. ASSUME NEW a \in Address, ~Covers(r, a)
      PROVE  Kind(a)' = Kind(a) /\ MemRead(a)' = MemRead(a)
  <2>1. Covering(a)' = Covering(a) /\ (Covering(a) # {} => Owner(a)' = Owner(a))
    BY <1>1, <1>3, OwnersAfter
  <2>2. Writable(a)' = Writable(a) /\ ReadRight(a) /\ ReadRight(a)'
    BY <2>1 DEF Writable, ReadsRight
  <2>3. CASE Covering(a) = {}
    BY <2>1, <2>2, <2>3 DEF ReadRight
  <2>4. CASE Covering(a) # {} /\ Owner(a).type = "FILL"
    BY <2>1, <2>2, <2>4 DEF ReadRight, NoByte
  <2>5. CASE Covering(a) # {} /\ Owner(a).type # "FILL"
    <3>1. Owner(a).data # c
      <4> SUFFICES ASSUME Owner(a).data = c PROVE FALSE
        OBVIOUS
      <4>1. /\ c \in {vec, vecpg} /\ Covers(Owner(a), a)
            /\ c = vec => Owner(a).start = Space - 4 /\ Owner(a).end = Space - 3
            /\ c = vecpg => Owner(a).start = Space - 6 /\ Owner(a).end = Space - 1
        BY <1>1, <2>5, OthersKeep, OwnerFacts, SpaceFacts
      <4>2. r.start = Owner(a).start /\ r.end = Owner(a).end
        BY <1>1, <4>1, SpaceFacts DEF Adds, Placed
      <4> QED
        BY <1>3, <4>1, <4>2 DEF Covers
    <3>2. Owner(a).data \in Buffer
      BY <2>5, OwnerFacts DEF Region
    <3>3. store'[Owner(a).data] = store[Owner(a).data]
      BY <1>1, <3>1, <3>2 DEF Rewrites
    <3>4. NoByte(a)' <=> NoByte(a)
      BY <2>1, <2>5, <3>3 DEF NoByte
    <3> QED
      BY <2>1, <2>2, <2>5, <3>3, <3>4 DEF ReadRight
  <2> QED
    BY <2>3, <2>4, <2>5
<1>4. Flat!Shows(Views', KindsNow')
  BY ShowsRight
<1>5. \A a \in Address : IF r.start <= a /\ a <= r.end THEN KindsNow'[a] = k
                         ELSE KindsNow'[a] = KindsNow[a] /\ Views'[a] = Views[a]
  BY <1>2, <1>3 DEF Covers, Views, KindsNow
<1>6. k \in Flat!Kinds \ {"unmapped"} /\ (k = "unbacked" => r.start = r.end)
  BY DEF Adds, Fits, Flat!Kinds
<1> HIDE DEF k
<1> QED
  BY <1>1, <1>4, <1>5, <1>6 DEF Flat!Map, Flat!Address, Address, Views, KindsNow

\* A helper that finds the table full changes bytes of the vectors that are in
\* ROM, and no other.
LEMMA RewritesFlat ==
  ASSUME MInv, ReadsRight, ReadsRight', NEW c \in {vec, vecpg}, Rewrites(c),
         UNCHANGED <<g_regions, g_default_fill>>
  PROVE  Flat!Revector
<1>1. \A a \in Address : /\ Covering(a)' = Covering(a) /\ Owner(a)' = Owner(a)
                         /\ Writable(a)' = Writable(a) /\ ReadRight(a) /\ ReadRight(a)'
  BY SameOwners DEF ReadsRight
<1>2. ASSUME NEW a \in Address
      PROVE  NoByte(a)' <=> NoByte(a)
  <2>1. CASE Covering(a) = {} \/ Owner(a).type = "FILL"
    BY <1>1, <2>1 DEF NoByte
  <2>2. CASE Covering(a) # {} /\ Owner(a).type # "FILL"
    <3>1. Owner(a).data \in Buffer /\ Fits(Owner(a), store)
      BY <2>2, OwnerFacts DEF Region
    <3>2. Owner(a).data # c => store'[Owner(a).data] = store[Owner(a).data]
      BY <3>1 DEF Rewrites
    <3>3. ASSUME Owner(a).data = c
          PROVE  DOMAIN store[c] # {} /\ DOMAIN store'[c] # {}
      <4>1. Owner(a).start # Owner(a).end
        BY <2>2, <3>3, OthersKeep, SpaceFacts
      <4>2. DOMAIN store[c] # {}
        BY <2>2, <3>1, <3>3, <4>1 DEF Fits
      <4>3. 0 \in DOMAIN store'[c]
        BY DEF Rewrites
      <4> QED
        BY <4>2, <4>3
    <3> QED
      BY <1>1, <3>2, <3>3 DEF NoByte
  <2> QED
    BY <2>1, <2>2
<1>3. ASSUME NEW a \in Address, MemRead(a)' # MemRead(a)
      PROVE  Kind(a) = "fixed" /\ a >= Space - 6
  <2>1. Covering(a) # {} /\ Owner(a).type # "FILL" /\ ~NoByte(a)
    BY <1>1, <1>2, <1>3 DEF ReadRight
  <2>2. store'[Owner(a).data] # store[Owner(a).data]
    BY <1>1, <1>2, <1>3, <2>1 DEF ReadRight
  <2>3. Owner(a).data \in Buffer /\ Covers(Owner(a), a) /\ Owner(a) \in Region
    BY <2>1, OwnerFacts DEF Region
  <2>4. Owner(a).data = c
    BY <2>2, <2>3 DEF Rewrites
  <2>5. Owner(a).type = "ROM" /\ Owner(a).start >= Space - 6
    BY <2>1, <2>4, OthersKeep, SpaceFacts
  <2>6. Kind(a) = "fixed"
    BY <1>1, <2>1, <2>5 DEF ReadRight, Writable
  <2> QED
    BY <2>3, <2>5, <2>6, SpaceFacts DEF Covers, Region, Address
<1>4. Flat!Shows(Views', KindsNow')
  BY ShowsRight
<1>5. KindsNow' = KindsNow
  <2>1. \A a \in Address : Kind(a)' = Kind(a)
    BY <1>1, <1>2 DEF ReadRight
  <2> QED
    BY <2>1 DEF KindsNow
<1>6. \A a \in Address : Views'[a] # Views[a] => KindsNow[a] = "fixed" /\ a >= Space - 6
  BY <1>3 DEF Views, KindsNow
<1> QED
  BY <1>4, <1>5, <1>6 DEF Flat!Revector, Flat!Address, Address, Views, KindsNow

\* A write shows at its address and at no other: RAM regions share no buffer.
LEMMA WriteFlat ==
  ASSUME MInv, ReadsRight, ReadsRight', NEW addr \in Address, NEW val \in Byte,
         MemWrite(addr, val)
  PROVE  Flat!Write
<1>1. /\ UNCHANGED <<g_regions, g_default_fill>>
      /\ \A a \in Address : /\ Covering(a)' = Covering(a) /\ Owner(a)' = Owner(a)
                            /\ Writable(a)' = Writable(a) /\ ReadRight(a) /\ ReadRight(a)'
  BY WriteFacts, SameOwners DEF ReadsRight
<1>2. ASSUME NEW a \in Address
      PROVE  NoByte(a)' <=> NoByte(a)
  <2>1. Covering(a) # {} => Owner(a).data \in Buffer
    BY OwnerFacts DEF Region
  <2>2. Covering(a) # {} => DOMAIN store'[Owner(a).data] = DOMAIN store[Owner(a).data]
    BY <2>1, WriteFacts
  <2> QED
    BY <1>1, <2>2 DEF NoByte
<1>3. ASSUME NEW a \in Address
      PROVE  MemRead(a)' = IF Writable(addr) /\ a = addr /\ ~NoByte(addr) THEN val ELSE MemRead(a)
  <2>1. CASE Covering(a) = {} \/ Owner(a).type = "FILL" \/ NoByte(a)
    BY <1>1, <1>2, <2>1 DEF ReadRight, Writable, NoByte
  <2>2. CASE Covering(a) # {} /\ Owner(a).type # "FILL" /\ ~NoByte(a)
    <3> DEFINE b == Owner(a).data
               off == a - Owner(a).start
    <3>1. /\ b \in Buffer /\ off \in DOMAIN store[b] /\ Placed(Owner(a), Newest(a))
          /\ Owner(a) = g_regions[Newest(a)] /\ Owner(a).start \in Address
          /\ Newest(a) \in DOMAIN g_regions
      BY <2>2, OwnerFacts DEF Region, Fits, NoByte
    <3>2. /\ MemRead(a) = store[b][off]
          /\ MemRead(a)' = store'[b][off]
      BY <1>1, <1>2, <2>2 DEF ReadRight
    <3>3. store'[b][off] = IF Writable(addr) /\ Owner(addr).data = b /\ Offset(addr) = off
                           THEN val ELSE store[b][off]
      BY <3>1, WriteFacts
    <3>4. Writable(addr) =>
            /\ Owner(addr).data = Newest(addr) /\ Newest(addr) \in DOMAIN g_regions
            /\ Owner(addr) = g_regions[Newest(addr)] /\ Owner(addr).start \in Address
            /\ Offset(addr) = addr - Owner(addr).start
      BY OwnerFacts DEF Writable, Placed, Region
    <3>5. DOMAIN g_regions \subseteq 1..MAX_REGIONS
      BY SpaceFacts DEF MInv, memTypeOK
    <3>6. ASSUME Writable(addr), Owner(addr).data = b
          PROVE  Owner(a) = Owner(addr)
      <4>1. b \in 1..MAX_REGIONS
        BY <3>4, <3>5, <3>6
      <4>2. b = Newest(a)
        BY <3>1, <4>1, SpaceFacts DEF Placed
      <4> QED
        BY <3>1, <3>4, <3>6, <4>2
    <3>7. ASSUME Writable(addr)
          PROVE  (Owner(addr).data = b /\ Offset(addr) = off) <=> a = addr
      BY <3>1, <3>4, <3>6, <3>7 DEF Address
    <3> QED
      BY <2>2, <3>2, <3>3, <3>7
  <2> QED
    BY <2>1, <2>2
<1>4. KindsNow' = KindsNow
  <2>1. \A a \in Address : Kind(a)' = Kind(a)
    BY <1>1, <1>2 DEF ReadRight
  <2> QED
    BY <2>1 DEF KindsNow
<1>5. Writable(addr) /\ ~NoByte(addr) <=> KindsNow[addr] = "ram"
  BY <1>1 DEF KindsNow, ReadRight, Writable
<1>6. Views' = IF KindsNow[addr] = "ram" THEN [Views EXCEPT ![addr] = val] ELSE Views
  BY <1>3, <1>5 DEF Views
<1> QED
  BY <1>4, <1>6 DEF Flat!Write, Flat!Address, Address, Views, KindsNow

\* The default byte shows where nothing is mapped.
LEMMA DefaultFlat ==
  ASSUME ReadsRight, ReadsRight', NEW fill \in Byte, MemSetDefaultFill(fill)
  PROVE  Flat!SetDefault
<1>1. \A a \in Address : /\ Covering(a)' = Covering(a) /\ Owner(a)' = Owner(a)
                         /\ Writable(a)' = Writable(a) /\ NoByte(a)' = NoByte(a)
                         /\ ReadRight(a) /\ ReadRight(a)'
  BY SameOwners DEF MemSetDefaultFill, ReadsRight, NoByte
<1>2. \A a \in Address : MemRead(a)' = IF Covering(a) = {} THEN fill ELSE MemRead(a)
  BY <1>1 DEF MemSetDefaultFill, ReadRight, NoByte
<1>3. \A a \in Address : Covering(a) = {} <=> Kind(a) = "unmapped"
  BY <1>1 DEF ReadRight
<1>4. KindsNow' = KindsNow
  BY <1>1 DEF KindsNow, ReadRight
<1>5. Views' = [a \in Address |-> IF KindsNow[a] = "unmapped" THEN fill ELSE Views[a]]
  BY <1>2, <1>3 DEF Views, KindsNow
<1> QED
  BY <1>4, <1>5 DEF Flat!SetDefault, Flat!Address, Address, Views, KindsNow

LEMMA InitFlat == memInit => Flat!Init
<1> SUFFICES ASSUME memInit PROVE Flat!Init
  OBVIOUS
<1>1. \A a : Covering(a) = {}
  BY DEF memInit, Covering
<1>2. \A a \in Address : MemRead(a) = 0 /\ Kind(a) = "unmapped"
  BY <1>1 DEF memInit, MemRead, Kind
<1> QED
  BY <1>2, MemoryAssumption DEF Flat!Init, Flat!Address, Address

LEMMA StepFlat == MInv /\ MInv' /\ [memNext]_memVars => [Flat!Next]_Flat!vars
<1> SUFFICES ASSUME MInv, MInv', [memNext]_memVars PROVE [Flat!Next]_Flat!vars
  OBVIOUS
<1>1. ReadsRight
  BY Reads
<1>2. ReadsRight'
  BY Reads, PTL
<1>3. ASSUME UNCHANGED <<g_regions, g_default_fill, store>>
      PROVE  UNCHANGED Flat!vars
  <2>1. \A a \in Address : /\ Covering(a)' = Covering(a) /\ Owner(a)' = Owner(a)
                           /\ Writable(a)' = Writable(a) /\ NoByte(a)' = NoByte(a)
    BY <1>3, SameOwners DEF NoByte
  <2>2. \A a \in Address : MemRead(a)' = MemRead(a) /\ Kind(a)' = Kind(a)
    BY <1>1, <1>2, <1>3, <2>1 DEF ReadsRight, ReadRight
  <2> QED
    BY <2>1, <2>2 DEF Flat!vars
<1>4. CASE Map \/ MapVectors
  <2>1. Maps
    BY <1>4, MapsStep
  <2>2. CASE \E r, c : Adds(r, c)
    BY <1>1, <1>2, <2>1, <2>2, AddsFlat DEF Maps, Flat!Next
  <2>3. CASE UNCHANGED g_regions /\ \E c \in {vec, vecpg} : Rewrites(c)
    BY <1>1, <1>2, <2>1, <2>3, RewritesFlat DEF Maps, Flat!Next
  <2> QED
    BY <1>3, <2>1, <2>2, <2>3 DEF Maps
<1>5. CASE \E b \in Byte : MemSetDefaultFill(b)
  BY <1>1, <1>2, <1>5, DefaultFlat DEF Flat!Next
<1>6. CASE \E addr \in Points, b \in Byte : MemWrite(addr, b)
  BY <1>1, <1>2, <1>6, WriteFlat, MemoryAssumption DEF Flat!Next, Address
<1>7. CASE UNCHANGED memVars
  BY <1>3, <1>7 DEF memVars
<1> QED
  BY <1>4, <1>5, <1>6, <1>7 DEF memNext

\* Seen from outside, the table of regions is one byte at every address: a
\* mapping overrides what it covers and leaves the rest, a write shows where it
\* is made, and only a helper for the vectors reaches back into what it mapped.
THEOREM Refinement == memSpec => ImplementsFlat
<1>1. MInv /\ [memNext]_memVars => [Flat!Next]_Flat!vars
  BY StepFlat, StepInvariant
<1> QED
  BY <1>1, InitFlat, Invariance, PTL DEF memSpec, ImplementsFlat, Flat!Spec
=============================================================================
