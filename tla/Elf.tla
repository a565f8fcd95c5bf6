--------------------------------- MODULE Elf ---------------------------------
(***************************************************************************)
(* ELF images as source/ps4/elfloader.c reads them: the headers, and the   *)
(* lookups the loader is built from.  Addresses and sizes are counted in   *)
(* words of eight bytes, the unit of a relocation; a file is known by the  *)
(* offsets of its words.  An image is a record                             *)
(*                                                                         *)
(*   ident        header fields that have the value the loader asks for    *)
(*   phoff, shoff is there a program header, a section header table?       *)
(*   segments     sequence of program headers                              *)
(*   sections     sequence of section headers; `table` is what is at their *)
(*                offset, for tables of relocations and symbols            *)
(*   shstrtab     characters of the section names, a NUL after each name   *)
(*   dynamic      what the DYNAMIC section or segment is a table of        *)
(***************************************************************************)
EXTENDS Integers, Sequences, FiniteSets

CONSTANTS
  SizeRange,   \* 2^64: arithmetic on addresses and sizes is modulo this
  IndexRange,  \* 2^16: arithmetic on indices is modulo this
  NULL

Ident == {"magic", "class", "encoding", "version", "abi", "type", "machine", "e_version"}

(* A table that is not there has no headers.                               *)
elfSegments(elf) == IF elf.phoff THEN elf.segments ELSE <<>>
elfSections(elf) == IF elf.shoff THEN elf.sections ELSE <<>>

(* The first of the headers with the given indices, or NULL.               *)
First(headers, found) ==
  IF found = {} THEN NULL ELSE headers[CHOOSE i \in found : \A j \in found : i <= j]

elfSegment(elf, found) == First(elfSegments(elf), found)
elfSection(elf, found) == First(elfSections(elf), found)

Largest(S) == CHOOSE m \in S : \A n \in S : n <= m

(* The size of the memory an image needs: all headers count, of any type.  *)
elfMemorySize(elf) ==
  IF elf.phoff
  THEN Largest({0} \cup {(h.paddr + h.memsz) % SizeRange :
                         h \in {elf.segments[i] : i \in DOMAIN elf.segments}})
  ELSE IF elf.shoff
  THEN Largest({0} \cup {(h.addr + h.size) % SizeRange :
                         h \in {elf.sections[i] : i \in DOMAIN elf.sections}})
  ELSE 0

(* Strings.  The names the loader looks for are spelled with one letter.   *)
NUL == "NUL"
Spelled(name) ==
  CASE name = ".rela.dyn" -> <<"d">>
    [] name = ".rela.plt" -> <<"p">>
    [] name = ".dynsym"   -> <<"s">>

(* Is this the string that starts at an offset, counted from 0?            *)
HoldsAt(mem, offset, str) ==
  /\ offset + Len(str) < Len(mem)
  /\ \A j \in 1 .. Len(str) : mem[offset + j] = str[j]
  /\ mem[offset + Len(str) + 1] = NUL

(* The first offset that holds the string, be it in the middle of another, *)
(* or 0, the offset of the empty string.                                   *)
elfStringToOffset(mem, str) ==
  LET found == {i \in 0 .. Len(mem) - 1 : HoldsAt(mem, i, str)}
  IN  IF found = {} THEN 0 ELSE CHOOSE i \in found : \A j \in found : i <= j

(* Offset of the string with an index, which is as many NULs in; the last  *)
(* character of the table does not count.                                  *)
elfStringFromIndex(mem, index) ==
  LET Nuls(i) == Cardinality({j \in 1 .. i : mem[j] = NUL})
      ends    == {i \in 1 .. Len(mem) - 1 : mem[i] = NUL /\ Nuls(i) = index}
  IN  IF index = 0 THEN 0 ELSE IF ends = {} THEN NULL ELSE CHOOSE i \in ends : TRUE

elfStringFromOffset(mem, offset) == IF offset >= Len(mem) THEN NULL ELSE offset

(* Variant: a NUL is counted before the comparison at it.                  *)
CountsTooEarly(mem, str) ==
  Cardinality({j \in 1 .. elfStringToOffset(mem, str) + 1 : mem[j] = NUL})

(* NULs in front of the first place that holds the string; 0 for none.     *)
elfStringToIndex(mem, str) ==
  Cardinality({j \in 1 .. elfStringToOffset(mem, str) : mem[j] = NUL})

elfSectionByName(elf, name) ==
  LET offset == elfStringToOffset(elf.shstrtab, Spelled(name))
  IN  elfSection(elf, {i \in DOMAIN elfSections(elf) : elf.sections[i].name = offset})

(* The table of a named section, if the section has one of these types.    *)
NamedTable(elf, name, types) ==
  LET h == elfSectionByName(elf, name)
  IN  IF h = NULL THEN NULL ELSE IF h.type \notin types THEN NULL ELSE h.table

elfAddendRelocations(elf, name) == NamedTable(elf, name, {"RELA"})
elfSymbols(elf, name)           == NamedTable(elf, name, {"SYMTAB", "DYNSYM"})

(* Variant: the loop ends at the last entry before DT_NULL.                *)
LengthOneShort(dynamic) ==
  LET nulls == {k \in DOMAIN dynamic : dynamic[k] = "NULL"}
  IN  (CHOOSE k \in nulls : \A j \in nulls : k <= j) - 2

(* The dynamic table and its length: that of a section counts all entries, *)
(* that of a segment the entries before the first DT_NULL.                 *)
elfDynamicsLength(dynamic) ==
  LET nulls == {k \in DOMAIN dynamic : dynamic[k] = "NULL"}
  IN  (CHOOSE k \in nulls : \A j \in nulls : k <= j) - 1

elfDynamics(elf) ==
  IF \E k \in DOMAIN elfSections(elf) : elf.sections[k].type = "DYNAMIC"
  THEN SubSeq(elf.dynamic, 1, Len(elf.dynamic) % IndexRange)
  ELSE IF \E k \in DOMAIN elfSegments(elf) : elf.segments[k].type = "DYNAMIC"
  THEN SubSeq(elf.dynamic, 1, elfDynamicsLength(elf.dynamic) % IndexRange)
  ELSE <<>>

(* Index of the first entry with a tag, or NULL.                           *)
elfDynamic(elf, tag) ==
  LET found == {k \in DOMAIN elfDynamics(elf) : elfDynamics(elf)[k] = tag}
  IN  IF found = {} THEN NULL ELSE CHOOSE k \in found : \A j \in found : k <= j

(* Variant: the section headers are not asked for.                         *)
IsLoadableSegments(elf) == elf.ident = Ident /\ elf.phoff

elfLoaderIsLoadable(elf) == elf.ident = Ident /\ elf.phoff /\ elf.shoff

(* Variant: the end of a segment is not part of it.                        *)
ExecutableExclusive(elf, address) ==
  LET h == elfSegment(elf, {i \in DOMAIN elfSegments(elf) :
             LET s == elf.segments[i] IN s.paddr <= address /\ address < s.paddr + s.memsz})
  IN  IF h = NULL THEN TRUE ELSE h.x

(* The first header that holds the address decides, its end included; an   *)
(* address in no header, or without any header, counts as executable.      *)
elfLoaderRelativeAddressIsExecutable(elf, address) ==
  LET segments == {i \in DOMAIN elfSegments(elf) :
        /\ elf.segments[i].paddr <= address
        /\ address <= (elf.segments[i].paddr + elf.segments[i].memsz) % SizeRange}
      sections == {i \in DOMAIN elfSections(elf) :
        /\ elf.sections[i].addr <= address
        /\ address <= (elf.sections[i].addr + elf.sections[i].size) % SizeRange}
      h == IF elf.phoff THEN elfSegment(elf, segments) ELSE elfSection(elf, sections)
  IN  IF h = NULL THEN TRUE ELSE h.x
=============================================================================
