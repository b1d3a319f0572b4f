----------------------------- MODULE FlatMemory -----------------------------
(***************************************************************************)
(* What a program sees of memory.c: one byte and one kind at every         *)
(* address, and no regions.  Memory.tla is shown to implement this.        *)
(***************************************************************************)
EXTENDS Integers

CONSTANTS
  Space,     \* the number of addresses
  Byte,
  Unset      \* no byte: what reads where a region has none

VARIABLES
  view,      \* the byte that reads as, at each address
  kind       \* what is at the address: "ram", which a write changes, "fixed",
             \* "unmapped", or "unbacked", in a region without any byte

vars == <<view, kind>>

Address == 0..(Space - 1)
Kinds == {"ram", "fixed", "unmapped", "unbacked"}

\* There is a byte to read at every address but the unbacked ones.
Shows(views, kinds) ==
  /\ views \in [Address -> Byte \cup {Unset}] /\ kinds \in [Address -> Kinds]
  /\ \A a \in Address : views[a] = Unset <=> kinds[a] = "unbacked"

Init == /\ kind = [a \in Address |-> "unmapped"]
        /\ \E fill \in Byte : view = [a \in Address |-> fill]

\* A mapping gives the addresses from first to last a kind and new bytes, and
\* leaves all others as they are.  It never leaves more than one address without
\* a byte.
Map ==
  /\ Shows(view', kind')
  /\ LET was == view   is == view'   kindWas == kind   kindIs == kind'
     IN  \E first, last \in Address, k \in Kinds \ {"unmapped"} :
           /\ k = "unbacked" => first = last
           /\ \A a \in Address :
                IF first <= a /\ a <= last THEN kindIs[a] = k
                ELSE kindIs[a] = kindWas[a] /\ is[a] = was[a]

\* A write changes the byte at its address, and only where there is RAM.
Write ==
  /\ UNCHANGED kind
  /\ LET was == view   is == view'
     IN  \E a \in Address, v \in Byte :
           is = IF kind[a] = "ram" THEN [was EXCEPT ![a] = v] ELSE was

\* The default byte shows wherever nothing is mapped, and nowhere else.
SetDefault ==
  /\ UNCHANGED kind
  /\ LET was == view   is == view'   kinds == kind
     IN  \E fill \in Byte :
           is = [a \in Address |-> IF kinds[a] = "unmapped" THEN fill ELSE was[a]]

\* MapResetVector and MapVectorPage keep the bytes they map in variables of
\* their own, so that a call that finds the table full has still changed what
\* an earlier call mapped: bytes of the vectors that are not RAM.
Revector ==
  /\ UNCHANGED kind
  /\ Shows(view', kind')
  /\ LET was == view   is == view'   kinds == kind
     IN  \A a \in Address : is[a] # was[a] => kinds[a] = "fixed" /\ a >= Space - 6

Next == Write \/ SetDefault \/ Revector \/ Map

Spec == Init /\ [][Next]_vars
=============================================================================
