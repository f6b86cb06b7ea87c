----------------------------- MODULE VpdSearch -----------------------------
(***************************************************************************)
(* vpd_itr_setup() of lib/vpd/vpd.c: the search for an entry point whose   *)
(* table can be used, in a region of memory.  vpd_find_entry() maps what is*)
(* left of the region, looks at every 16th byte for the magic word, copies *)
(* the 31 bytes that follow it and adds up as many as the entry says it is *)
(* long, at most 255, without a look at how many are left.                 *)
(*                                                                         *)
(* The region is a row of places of 16 bytes; addresses, offsets and       *)
(* lengths count places from baseaddr.  What the memory behind it holds is *)
(* the board's business: it is read, or the process dies of it.            *)
(***************************************************************************)
EXTENDS Integers

CONSTANTS
  N,             \* places in the region
  EntryLengths   \* values of entry_length, in places begun

ASSUME VpdSearchAssumption == N \in Nat /\ EntryLengths \subseteq 0 .. 16

Places == 0 .. N - 1
(* The table of an entry point is "ok", or its table_address and           *)
(* table_length overrun 32 bits, or its table_length is 0.                 *)
Bad == {"overrun", "zero"}
EntryPoints == [table : {"ok"} \cup Bad, length : EntryLengths]
Other == [table |-> "none", length |-> 0]
Contents == EntryPoints \cup {Other}

VARIABLES
  region,     \* what is at each place
  vpd_pc,
  addr,       \* where the next search starts
  remaining,  \* how much of the region it covers
  offset,     \* where the last search found an entry, from its addr
  found,      \* place of the entry in vpd_itr->entry; -1 is none
  beyond      \* history: memory behind the region was read

vpdVars == <<region, vpd_pc, addr, remaining, offset, found, beyond>>

VpdInit ==
  /\ region \in [Places -> Contents]
  /\ vpd_pc = "search"
  /\ addr = 0 /\ remaining = N
  /\ offset = 0
  /\ found = -1
  /\ beyond = FALSE
-----------------------------------------------------------------------------
IsEntryPoint(p) == region[p] # Other

(* find_pattern() over `remaining` places from addr finds the one o later. *)
FindsAt(o) ==
  /\ o \in 0 .. remaining - 1
  /\ IsEntryPoint(addr + o)
  /\ \A m \in 0 .. o - 1 : ~IsEntryPoint(addr + m)

(* No entry: the iterator is destroyed, -1.                                *)
NotFound ==
  /\ vpd_pc = "search"
  /\ \A o \in 0 .. remaining - 1 : ~IsEntryPoint(addr + o)
  /\ found' = -1
  /\ vpd_pc' = "failed"
  /\ UNCHANGED <<region, addr, remaining, offset, beyond>>

(* Memory cannot be mapped, or there is none left to map: the same.        *)
MapFails ==
  /\ vpd_pc \in {"search", "map"}
  /\ found' = -1
  /\ vpd_pc' = "failed"
  /\ UNCHANGED <<region, addr, remaining, offset, beyond>>

(* The place up to which the entry point at p is read: the 31 bytes of the *)
(* structure, and those of its checksum.                                   *)
ReadUpTo(p) == IF region[p].length > 2 THEN p + region[p].length ELSE p + 2
Overhangs(p) == IsEntryPoint(p) /\ ReadUpTo(p) > N

(* The entry point is copied and its checksum computed, which is only      *)
(* logged.                                                                 *)
FindEntry ==
  /\ vpd_pc = "search"
  /\ \E o \in 0 .. N - 1 :
       /\ FindsAt(o)
       /\ offset' = o
       /\ found' = addr + o
       /\ beyond' = (beyond \/ Overhangs(addr + o))
       /\ vpd_pc' \in IF Overhangs(addr + o) THEN {"check", "crashed"}
                                             ELSE {"check"}
  /\ UNCHANGED <<region, addr, remaining>>

(* Mutant: an empty table is accepted.                                     *)
Usable_ZeroAccepted(entry) == entry.table # "overrun"

(* The sanity checks on the entry's table.                                 *)
Usable(entry) == entry.table \notin Bad

(* Mutant: the next search starts at the entry that was found.             *)
Advance_SameEntry ==
  /\ addr' = offset
  /\ remaining' = N - addr'

(* Mutant: the search always covers the length of the region.              *)
Advance_WholeLength ==
  /\ addr' = offset + 1
  /\ remaining' = N

(* The next search; the offset is that of the last one, but it is added to *)
(* the base of the region.                                                 *)
Advance ==
  /\ addr' = offset + 1
  /\ remaining' = N - addr'

CheckEntry ==
  /\ vpd_pc = "check"
  /\ vpd_pc' = IF Usable(region[found]) THEN "map" ELSE "search"
  /\ Advance
  /\ UNCHANGED <<region, offset, found, beyond>>

(* The tables are mapped, the iterator is set up.                          *)
MapTables ==
  /\ vpd_pc = "map"
  /\ vpd_pc' = "ready"
  /\ UNCHANGED <<region, addr, remaining, offset, found, beyond>>

VpdStep == NotFound \/ FindEntry \/ CheckEntry \/ MapTables
VpdNext == VpdStep \/ MapFails

VpdSpec == VpdInit /\ [][VpdNext]_vpdVars /\ WF_vpdVars(VpdStep)
-----------------------------------------------------------------------------
VpdTypeOK ==
  /\ region \in [Places -> Contents]
  /\ vpd_pc \in {"search", "check", "map", "ready", "failed", "crashed"}
  /\ addr \in 0 .. N
  /\ remaining \in 0 .. N
  /\ offset \in 0 .. N
  /\ found \in -1 .. N - 1
  /\ beyond \in BOOLEAN

UsablePlaces == {p \in Places : region[p].table = "ok"}
FirstUsable(p) == p \in UsablePlaces /\ \A q \in UsablePlaces : p <= q
(* The entry points without a usable table before the first usable one.    *)
Obstacles ==
  {q \in Places : region[q].table \in Bad /\ \A u \in UsablePlaces : q < u}

(* What is mapped for a search is what is left of the region, although     *)
(* start and length are computed as unsigned numbers and offset is added to*)
(* the wrong address.                                                      *)
WindowIsRest == addr + remaining = N

(* The reads after the magic word may well leave the region, or kill the   *)
(* process.  They do so for an entry point that reaches over the end of the*)
(* region only, and never for one behind the first usable one.             *)
BeyondExplained ==
  beyond \/ vpd_pc = "crashed" =>
    \E p \in Places :
      Overhangs(p) /\ (p \in Obstacles \/ FirstUsable(p))

(* A search that ends with a table has that of the first usable entry      *)
(* point.                                                                  *)
FindsFirstUsable == vpd_pc \in {"map", "ready"} => FirstUsable(found)

(* No more than one unusable entry point is in the way.                    *)
OneObstacle == \A p, q \in Obstacles : p = q

(* "if a sanity check fails, continue to search" (vpd.c:300) is true once. *)
(* Behind a second unusable entry point the next search starts at it or    *)
(* before, and comes to it again: no search ever ends with a table then.   *)
NonePastTwo == vpd_pc \in {"map", "ready"} => OneObstacle

(* vpd_itr_setup() takes the first usable entry point of the region if one *)
(* entry point at most is in the way, and none otherwise; and it reads     *)
(* behind the region where the one it takes or one in the way lies across  *)
(* the end.                                                                *)
VpdFound ==
  WindowIsRest /\ BeyondExplained /\ FindsFirstUsable /\ NonePastTwo

Over == {"ready", "failed", "crashed"}

(* The search ends where at most one entry point is in the way.  Otherwise *)
(* it goes on for ever, unless a mapping fails or it dies of a read.       *)
SearchEnds == OneObstacle => <>(vpd_pc \in Over)
=============================================================================
