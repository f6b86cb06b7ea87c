----------------------------- MODULE TableIter -----------------------------
(***************************************************************************)
(* The iterator of lib/smbios/smbios.c over the tables in mapped memory,   *)
(* and what is built on it: smbios_find_table() and smbios_find_string().  *)
(* lib/vpd/vpd.c has the same functions.                                   *)
(*                                                                         *)
(* A table is a header with its type and length, data up to the length, and*)
(* strings: each ends with a null byte, the last one is followed by another*)
(* and no strings are two null bytes.  The memory is given as the list of  *)
(* tables that firmware wrote; the entry point's table_length may be too   *)
(* short for them.                                                         *)
(***************************************************************************)
EXTENDS Integers, Sequences, SequencesExt, FiniteSetsExt

CONSTANTS
  Lists,      \* the lists of tables: sequences of
              \* [type |-> t, length |-> n, strings |-> their lengths]
  Types,      \* the types that are asked for
  Cuts        \* by how much table_length may be too short

HeaderLen == 4   \* sizeof(struct smbios_header)

ASSUME TableIterAssumption ==
  /\ Lists \subseteq Seq([type : Nat, length : Nat, strings : Seq(Nat \ {0})])
  /\ \A list \in Lists : \A k \in 1 .. Len(list) :
       list[k].length >= HeaderLen
  /\ Types \subseteq Nat
  /\ Cuts \subseteq Nat

VARIABLES
  tables,        \* the list
  memory,        \* its bytes
  table_length,  \* of the entry point
  tables_pc,
  itr,           \* smbios_itr->current - smbios_itr->data; -1: not set up
  call,          \* the arguments of the last call
  instance,      \* the local variable, counted down
  ret,           \* where what the call returned is, or Null
  outside        \* history: a byte after the tables was read

tablesVars == <<tables, memory, table_length, tables_pc, itr, call, instance,
                ret, outside>>
firmware == <<tables, memory, table_length>>

Byte == [char |-> 1, null |-> 0]
Repeat(x, n) == [k \in 1 .. n |-> x]
StringBytes(n) == Append(Repeat(Byte.char, n), Byte.null)
(* A table as it is in memory; the rest of header and data is not looked   *)
(* at.                                                                     *)
Encoded(t) ==
  <<t.type, t.length>> \o Repeat(Byte.null, t.length - 2)
    \o (IF t.strings = <<>> THEN <<Byte.null>>
        ELSE FlattenSeq([k \in 1 .. Len(t.strings) |->
                           StringBytes(t.strings[k])]))
    \o <<Byte.null>>
Memory(list) == FlattenSeq([k \in 1 .. Len(list) |-> Encoded(list[k])])
(* Where the k-th table starts.                                            *)
StartOf(list, k) == Len(Memory(SubSeq(list, 1, k - 1)))

Null == -1
NoString == -1
NoCall == [type |-> 0, instance |-> 0, string |-> NoString]

TablesInit ==
  /\ tables \in Lists
  /\ memory = Memory(tables)
  /\ \E cut \in Cuts : /\ cut < Len(memory)
                       /\ table_length = Len(memory) - cut
  /\ tables_pc = "idle"
  /\ itr = -1
  /\ call = NoCall /\ instance = 0 /\ ret = Null
  /\ outside = FALSE
-----------------------------------------------------------------------------
(* The byte p places after the start of the tables.                        *)
Mem(p) == IF p < Len(memory) THEN memory[p + 1] ELSE Byte.null
HeaderType(p) == Mem(p)
HeaderLength(p) == Mem(p + 1)
Strings(p) == p + HeaderLength(p)

(* Where the string at p ends.                                             *)
NullAfter(p) == Min({q \in p .. p + Len(memory) : Mem(q) = Byte.null})

(* The null byte that ends the list of strings at p.                       *)
EndOfStrings(p) ==
  LET end[q \in 0 .. 2 * Len(memory) + p] ==
        IF Mem(q) = Byte.null THEN q ELSE end[NullAfter(q) + 1]
  IN end[p]

(* smbios_string_table_len()                                               *)
StringTableLen(p) ==
  IF Mem(p) = Byte.null THEN 2 ELSE EndOfStrings(p) - p + 1

(* smbios_get_string(): where the num-th string (from 0) starts.           *)
GetString(p, num) ==
  LET string[n \in 0 .. num] ==
        IF n = 0 THEN p
        ELSE IF Mem(string[n - 1]) = Byte.null THEN string[n - 1]
        ELSE NullAfter(string[n - 1]) + 1
  IN IF Mem(string[num]) = Byte.null THEN Null ELSE string[num]

(* Mutant: an iterator that is set up goes on where it is.                 *)
Setup_NoReset ==
  /\ itr' = IF itr = -1 THEN 0 ELSE itr
  /\ tables_pc' = "search" /\ UNCHANGED ret

(* smbios_itr_setup(): an iterator that is set up starts over; otherwise   *)
(* its memory is mapped, which may fail.                                   *)
Setup ==
  \/ itr' = 0 /\ tables_pc' = "search" /\ UNCHANGED ret
  \/ itr = -1 /\ ret' = Null /\ UNCHANGED <<itr, tables_pc>>

(* smbios_find_table(), or smbios_find_string() for its string `num`.      *)
Call(type, n, num) ==
  /\ tables_pc = "idle"
  /\ num # NoString => n = 0
  /\ call' = [type |-> type, instance |-> n, string |-> num]
  /\ instance' = n
  /\ Setup
  /\ UNCHANGED <<firmware, outside>>

Matches == HeaderType(itr) = call.type
(* Both branches read the strings of the current table up to their end.    *)
ReadsTable ==
  outside' = (outside \/ EndOfStrings(Strings(itr)) >= Len(memory))

(* The loop of smbios_find_table_raw() stops at this table.                *)
Found ==
  /\ tables_pc = "search"
  /\ Matches /\ instance = 0
  /\ ret' = IF call.string = NoString THEN itr
            ELSE GetString(Strings(itr), call.string)
  /\ tables_pc' = "idle"
  /\ ReadsTable
  /\ UNCHANGED <<firmware, itr, call, instance>>

(* Mutant: the end of the tables is looked for behind their last byte.     *)
Wrapped_TooLate(next) == next > table_length

(* "check for overflow"                                                    *)
Wrapped(next) == next >= table_length - 1

(* Mutant: wrapping to the start is not told.                              *)
ItrNext_NotTold ==
  /\ tables_pc = "search"
  /\ ~(Matches /\ instance = 0)
  /\ instance' = IF Matches THEN instance - 1 ELSE instance
  /\ LET next == Strings(itr) + StringTableLen(Strings(itr))
     IN itr' = IF Wrapped(next) THEN 0 ELSE next
  /\ ReadsTable
  /\ UNCHANGED <<firmware, tables_pc, call, ret>>

(* It goes on; smbios_itr_next() wraps to the start behind the last table, *)
(* which ends the loop.                                                    *)
ItrNext ==
  /\ tables_pc = "search"
  /\ ~(Matches /\ instance = 0)
  /\ instance' = IF Matches THEN instance - 1 ELSE instance
  /\ LET next == Strings(itr) + StringTableLen(Strings(itr))
     IN IF Wrapped(next)
        THEN itr' = 0 /\ tables_pc' = "idle" /\ ret' = Null
        ELSE itr' = next /\ UNCHANGED <<tables_pc, ret>>
  /\ ReadsTable
  /\ UNCHANGED <<firmware, call>>

TablesStep == Found \/ ItrNext
TablesNext ==
  \/ \E type \in Types, n \in 0 .. 1, num \in NoString .. 2 :
       Call(type, n, num)
  \/ TablesStep

TablesSpec == TablesInit /\ [][TablesNext]_tablesVars /\ WF_tablesVars(TablesStep)
-----------------------------------------------------------------------------
TablesTypeOK ==
  /\ tables \in Lists
  /\ table_length \in 1 .. Len(memory)
  /\ tables_pc \in {"idle", "search"}
  /\ itr \in -1 .. Len(memory)
  /\ call.type \in Types \cup {0} /\ call.instance \in 0 .. 1
  /\ instance \in 0 .. call.instance
  /\ ret \in Null .. Len(memory)
  /\ outside \in BOOLEAN

(* The tables the entry point's length lets the iterator see.              *)
Visible ==
  {k \in 1 .. Len(tables) : k = 1 \/ StartOf(tables, k) < table_length - 1}
(* The table a call is about, if there is one.                             *)
Wanted ==
  {k \in Visible :
     /\ tables[k].type = call.type
     /\ Cardinality({l \in Visible : l < k /\ tables[l].type = call.type})
          = call.instance}
(* The length of strings with their null bytes.                            *)
Text(strings) == FoldLeft(LAMBDA sum, n : sum + n + 1, 0, strings)
(* What it should return: the position of the table or of its string.      *)
Position(k) ==
  LET t == tables[k]
      start == StartOf(tables, k)
  IN IF call.string = NoString THEN start
     ELSE IF call.string >= Len(t.strings) THEN Null
     ELSE start + t.length + Text(SubSeq(t.strings, 1, call.string))

(* A call finds the instance-th table of its type among those that firmware*)
(* wrote and the entry point covers, whichever calls came before it; a     *)
(* string found is the one of that number.                                 *)
FindsInstance ==
  tables_pc = "idle" /\ itr # -1 =>
    IF Wanted = {} THEN ret = Null
    ELSE \A k \in Wanted : ret = Position(k)

(* What firmware wrote is never left, though the iterator trusts all the   *)
(* lengths in it and its own test for the end is made after it has moved.  *)
ReadsInside == ~outside

(* smbios_find_table() and smbios_find_string() find what firmware wrote,  *)
(* and read nothing else.                                                  *)
TablesFound == TablesTypeOK /\ FindsInstance /\ ReadsInside

(* Every call returns.                                                     *)
FindReturns == tables_pc = "search" ~> tables_pc = "idle"
=============================================================================
