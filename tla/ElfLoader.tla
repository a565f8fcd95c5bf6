------------------------------ MODULE ElfLoader ------------------------------
(***************************************************************************)
(* elfLoaderLoad and the two functions it is made of, elfLoaderInstantiate *)
(* and elfLoaderRelocate (source/ps4/elfloader.c).  A program header or a  *)
(* relocation is one step.  Memory is written through the writable view;   *)
(* what matters of a relocated word is the view it points into and where.  *)
(***************************************************************************)
EXTENDS Elf

CONSTANTS
  Elfs,       \* images the program loads
  MaxLoads,   \* calls in a row, into the same memory
  Top         \* last word of memory the model knows, past the image

ASSUME BoundTypes == MaxLoads \in Nat /\ Top \in Nat

(* The codes these functions return.                                       *)
Returns == {"OK", "ElfNull", "WritableMemoryNull", "ExecutableMemoryNull",
            "UnknownRelocation", "IsNotLoadable"}

VARIABLES
  elf,      \* the image
  memory,   \* words of the memory
  entry,    \* the function called: "load", "instantiate" or "relocate"
  pc,       \* "idle", "segment", "section", "relocation", "crashed"
  index,    \* header being copied
  table,    \* name of the relocation table
  i,        \* entry of the table
  r,        \* what the last call on this memory returned, NULL before it
  loads     \* calls so far

loaderVars == <<elf, memory, entry, pc, index, table, i, r, loads>>

Dirt         == <<"dirt">>
Zero         == <<"zero">>
File(offset) == <<"file", offset>>

LoaderInit ==
  /\ elf \in Elfs
  /\ memory = [a \in 0 .. Top |-> Dirt]
  /\ entry = "load" /\ pc = "idle" /\ index = 1 /\ table = ".rela.dyn" /\ i = 1
  /\ r = NULL /\ loads = 0

Return(code) ==
  /\ pc' = "idle" /\ r' = code
  /\ index' = 1 /\ table' = ".rela.dyn" /\ i' = 1

Goto(label) == pc' = label /\ UNCHANGED <<index, table, i, r>>

(***************************************************************************)
(* A call: which arguments are NULL, then the checks in the order of the   *)
(* code.  elfLoaderInstantiate has no executable argument.                 *)
(***************************************************************************)
Checked(e, null) ==
  IF "elf" \in null THEN "ElfNull"
  ELSE IF "writable" \in null THEN "WritableMemoryNull"
  ELSE IF "executable" \in null /\ e # "instantiate" THEN "ExecutableMemoryNull"
  ELSE IF e = "load" /\ ~elfLoaderIsLoadable(elf) THEN "IsNotLoadable"
  ELSE "OK"

FirstLabel == IF elf.phoff THEN "segment" ELSE "section"

(* Looking for .dynsym takes the section headers for granted.              *)
RelocateLabel == IF elf.shoff THEN "relocation" ELSE "crashed"

Call(null) ==
  /\ pc = "idle" /\ loads < MaxLoads
  /\ \E e \in {"load", "instantiate", "relocate"} :
       /\ entry' = e
       /\ IF Checked(e, null) # "OK"
          THEN Return(Checked(e, null))
          ELSE Goto(IF e = "relocate" THEN RelocateLabel ELSE FirstLabel)
  /\ loads' = loads + 1
  /\ UNCHANGED <<elf, memory>>

(***************************************************************************)
(* elfLoaderInstantiate                                                    *)
(***************************************************************************)
Instantiated == IF entry = "load" THEN Goto(RelocateLabel) ELSE Return("OK")

(* Variant: the whole segment is cleared after the copy.                   *)
SegmentClearsTooMuch ==
  /\ pc = "segment" /\ index <= Len(elf.segments)
  /\ LET s == elf.segments[index]
         copied == s.paddr .. s.paddr + s.filesz - 1
     IN  memory' = [a \in DOMAIN memory |->
           IF a \in copied THEN File(s.offset + a - s.paddr)
           ELSE IF a \in s.paddr + s.filesz .. s.paddr + s.filesz + s.memsz - 1 THEN Zero
           ELSE memory[a]]
  /\ index' = index + 1
  /\ UNCHANGED <<elf, entry, pc, table, i, r, loads>>

(* Variant: the part the file does not have is left as it was.             *)
SegmentLeavesRest ==
  /\ pc = "segment" /\ index <= Len(elf.segments)
  /\ LET s == elf.segments[index]
     IN  memory' = [a \in DOMAIN memory |->
           IF a \in s.paddr .. s.paddr + s.filesz - 1 THEN File(s.offset + a - s.paddr)
           ELSE memory[a]]
  /\ index' = index + 1
  /\ UNCHANGED <<elf, entry, pc, table, i, r, loads>>

(* memcpy of the file part, memset of the rest.                            *)
Segment ==
  /\ pc = "segment" /\ index <= Len(elf.segments)
  /\ LET s      == elf.segments[index]
         rest   == (s.memsz - s.filesz) % SizeRange
         copied == s.paddr .. s.paddr + s.filesz - 1
         zeroed == s.paddr + s.filesz .. s.paddr + s.filesz + rest - 1
     IN  memory' = [a \in DOMAIN memory |->
           IF a \in zeroed THEN Zero
           ELSE IF a \in copied THEN File(s.offset + a - s.paddr) ELSE memory[a]]
  /\ index' = index + 1
  /\ UNCHANGED <<elf, entry, pc, table, i, r, loads>>

Section ==
  /\ pc = "section" /\ index <= Len(elfSections(elf))
  /\ LET s == elf.sections[index]
     IN  memory' = [a \in DOMAIN memory |->
           IF s.alloc /\ a \in s.addr .. s.addr + s.size - 1
           THEN File(s.offset + a - s.addr) ELSE memory[a]]
  /\ index' = index + 1
  /\ UNCHANGED <<elf, entry, pc, table, i, r, loads>>

LastHeader ==
  /\ \/ pc = "segment" /\ index > Len(elf.segments)
     \/ pc = "section" /\ index > Len(elfSections(elf))
  /\ Instantiated
  /\ UNCHANGED <<elf, memory, entry, loads>>

(***************************************************************************)
(* elfLoaderRelocate                                                       *)
(***************************************************************************)
Relocations(name) ==
  LET t == elfAddendRelocations(elf, name) IN IF t = NULL THEN <<>> ELSE t

(* The length of a table is kept in 16 bits.                               *)
TableLength(name) == Len(Relocations(name)) % IndexRange

UsesSymbol == {"64", "JMP_SLOT", "GLOB_DAT"}

Value(relocation) ==
  LET st_value == elfSymbols(elf, ".dynsym")[(relocation.symbol % IndexRange) + 1]
  IN  CASE relocation.type = "RELATIVE" -> relocation.addend
        [] relocation.type = "64"       -> (st_value + relocation.addend) % SizeRange
        [] OTHER                        -> st_value

Relocation ==
  /\ pc = "relocation" /\ i <= TableLength(table)
  /\ LET x == Relocations(table)[i]
     IN  IF x.type \notin UsesSymbol \cup {"RELATIVE"}
         THEN Return("UnknownRelocation") /\ UNCHANGED memory
         ELSE IF x.type \in UsesSymbol /\ elfSymbols(elf, ".dynsym") = NULL
         THEN Goto("crashed") /\ UNCHANGED memory
         ELSE /\ memory' = [memory EXCEPT ![x.offset] =
                   <<IF elfLoaderRelativeAddressIsExecutable(elf, Value(x))
                     THEN "executable" ELSE "writable", Value(x)>>]
              /\ i' = i + 1
              /\ UNCHANGED <<pc, index, table, r>>
  /\ UNCHANGED <<elf, entry, loads>>

NextTable ==
  /\ pc = "relocation" /\ i > TableLength(table)
  /\ IF table = ".rela.dyn"
     THEN table' = ".rela.plt" /\ i' = 1 /\ UNCHANGED <<pc, index, r>>
     ELSE Return("OK")
  /\ UNCHANGED <<elf, memory, entry, loads>>

LoaderStep == Segment \/ Section \/ LastHeader \/ Relocation \/ NextTable

-----------------------------------------------------------------------------
(***************************************************************************)
(* What the properties assume of an image.  Linkers keep to it, with one   *)
(* exception: they also make thread-local templates with a .tbss, PT_TLS   *)
(* headers that are longer in memory than in the file.  The loader clears  *)
(* the data behind such a template, and nothing is claimed for its image.  *)
(***************************************************************************)
Headers == IF elf.phoff THEN {elf.segments[k] : k \in DOMAIN elf.segments} ELSE {}
Loads   == {h \in Headers : h.type = "LOAD"}
Words(h) == h.paddr .. h.paddr + h.memsz - 1

Inside(h, l) ==
  /\ l.paddr <= h.paddr /\ h.paddr + h.memsz <= l.paddr + l.filesz
  /\ h.filesz = h.memsz /\ h.offset - h.paddr = l.offset - l.paddr

(* The file part of a segment fits it, segments are apart, and what the    *)
(* other headers describe is part of a segment and of its file part, as a  *)
(* .tbss is not.                                                           *)
HeadersAgree ==
  /\ \A l \in Loads : l.filesz <= l.memsz
  /\ \A l, m \in Loads : l # m => Words(l) \cap Words(m) = {}
  /\ \A h \in Headers \ Loads : (h.memsz = 0 /\ h.filesz = 0) \/ \E l \in Loads : Inside(h, l)

(* Segments of different permissions do not touch, and a header that comes *)
(* before a segment has the permissions of the segment it is part of.      *)
Separated ==
  /\ \A l, m \in Loads : l.paddr + l.memsz = m.paddr => l.x = m.x
  /\ \A j, k \in DOMAIN elf.segments :
       (j < k /\ elf.segments[j].type # "LOAD" /\ elf.segments[k].type = "LOAD")
       => \E l \in Loads : Inside(elf.segments[j], l) /\ l.x = elf.segments[j].x

Named(name) ==
  {h \in {elf.sections[k] : k \in DOMAIN elf.sections} : HoldsAt(elf.shstrtab, h.name, Spelled(name))}

Tables     == {".rela.dyn", ".rela.plt"}
AllEntries == UNION {UNION {{h.table[k] : k \in DOMAIN h.table} : h \in Named(n)} : n \in Tables}

(* The linker stores a name that is the tail of another only there, so     *)
(* that there is one place to find it, and gives it to one section.        *)
NamesAgree ==
  \A n \in Tables \cup {".dynsym"} :
    /\ \A j, k \in 0 .. Len(elf.shstrtab) - 1 :
         HoldsAt(elf.shstrtab, j, Spelled(n)) /\ HoldsAt(elf.shstrtab, k, Spelled(n)) => j = k
    /\ \A g, h \in Named(n) : g = h

(* Every relocation has a word of a segment to itself, and the tables are  *)
(* short enough for their 16-bit lengths.                                  *)
RelocationsAgree ==
  /\ \A n \in Tables : \A h \in Named(n) : Len(h.table) < IndexRange
  /\ \A x \in AllEntries : \E l \in Loads : x.offset \in Words(l)
  /\ \A x, y \in AllEntries : x.offset = y.offset => x = y

(***************************************************************************)
(* Properties.                                                             *)
(***************************************************************************)
(* elfLoaderLoad, elfLoaderInstantiate and elfLoaderRelocate write only to *)
(* the elfMemorySize bytes the caller was told to provide, in any sequence *)
(* of calls, and also while they run.                                      *)
StaysInside ==
  HeadersAgree /\ RelocationsAgree =>
    \A a \in elfMemorySize(elf) .. Top : memory[a] = Dirt

Done(entries) == pc = "idle" /\ r = "OK" /\ entry \in entries

Targets == {x.offset : x \in AllEntries}

(* When elfLoaderLoad or elfLoaderInstantiate succeeds, the words of every *)
(* segment that no relocation owns are those of the file, or zero past the *)
(* part the file has, whatever an earlier call had left in the memory.     *)
ImageIsRight ==
  Done({"load", "instantiate"}) /\ HeadersAgree /\ RelocationsAgree =>
    \A l \in Loads : \A a \in Words(l) :
      \/ entry = "load" /\ a \in Targets
      \/ memory[a] = IF a < l.paddr + l.filesz THEN File(l.offset + a - l.paddr) ELSE Zero

Symbol(x) == (CHOOSE h \in Named(".dynsym") : TRUE).table[x.symbol + 1]

(* The value the x86-64 ABI gives a relocation, before the base is added.  *)
Meant(x) ==
  CASE x.type = "RELATIVE"               -> x.addend
    [] x.type = "64"                     -> Symbol(x) + x.addend
    [] x.type \in {"JMP_SLOT","GLOB_DAT"} -> Symbol(x)
    [] OTHER                             -> -1

(* The segment an address belongs to: the one that holds it, or else the   *)
(* one it is the end of.                                                   *)
Home(v) ==
  LET holds == {l \in Loads : v \in Words(l)}
  IN  IF holds # {} THEN holds ELSE {l \in Loads : v = l.paddr + l.memsz}

(* When elfLoaderLoad or elfLoaderRelocate succeeds, every relocation of   *)
(* both tables has been applied, once in effect however often it ran: its  *)
(* word is the value the ABI gives it, in the executable view if it is an  *)
(* address of an executable segment and in the writable view otherwise.    *)
PointersAreRight ==
  Done({"load", "relocate"}) /\ HeadersAgree /\ Separated /\ NamesAgree /\ RelocationsAgree =>
    \A x \in AllEntries :
      /\ memory[x.offset][1] \in {"executable", "writable"}
      /\ memory[x.offset][2] = Meant(x)
      /\ \A l \in Home(Meant(x)) : (memory[x.offset][1] = "executable") <=> l.x

(* The string that starts at an offset.                                    *)
StringAt(mem, offset) ==
  LET ends == {k \in offset + 1 .. Len(mem) : mem[k] = NUL}
  IN  SubSeq(mem, offset + 1, (CHOOSE k \in ends : \A j \in ends : k <= j) - 1)

(* The four functions on string tables agree: from the index of a string   *)
(* one gets to the string, and from it back to the index, or to that of an *)
(* earlier string that ends in it.  (The image never changes, so it is     *)
(* enough to look before the first call.)                                  *)
StringsAgree ==
  LET mem == elf.shstrtab
  IN  loads = 0 => \A n \in 0 .. Len(mem) :
        LET offset == elfStringFromIndex(mem, n)
            str    == StringAt(mem, offset)
            back   == elfStringFromIndex(mem, elfStringToIndex(mem, str))
        IN  offset # NULL =>
              /\ elfStringFromOffset(mem, offset) = offset
              /\ StringAt(mem, elfStringToOffset(mem, str)) = str
              /\ back <= offset
              /\ HoldsAt(mem, back + Len(StringAt(mem, back)) - Len(str), str)

(* An entry of the dynamic table is found at the same place by the section *)
(* headers and, in an image stripped of them, by the program headers,      *)
(* although the two disagree about the length of the table.                *)
DynamicsAgree ==
  LET bySection == [elf EXCEPT !.phoff = FALSE]
      bySegment == [elf EXCEPT !.shoff = FALSE]
  IN  loads = 0 /\ elfDynamics(bySection) # <<>> /\ elfDynamics(bySegment) # <<>> =>
        \A tag \in {elf.dynamic[k] : k \in DOMAIN elf.dynamic} \ {"NULL"} :
          /\ elfDynamic(bySection, tag) # NULL
          /\ elfDynamic(bySection, tag) = elfDynamic(bySegment, tag)

(* The lookups of elfloader.c agree with one another: those on string      *)
(* tables by index and by offset, and those of dynamic entries by section  *)
(* and by segment, at the first and last string and entry and past them.   *)
LookupsAgree == StringsAgree /\ DynamicsAgree
=============================================================================
