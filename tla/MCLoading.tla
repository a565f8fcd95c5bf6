------------------------------ MODULE MCLoading ------------------------------
(***************************************************************************)
(* Small images for Loading.                                               *)
(***************************************************************************)
EXTENDS Loading

CONSTANTS TableLengths   \* lengths of the relocation tables

Header(type, x, offset, paddr, filesz, memsz) ==
  [type |-> type, x |-> x, offset |-> offset, paddr |-> paddr, filesz |-> filesz, memsz |-> memsz]

TextSegment == Header("LOAD", TRUE, 0, 0, 4, 4)
StackHeader == Header("STACK", FALSE, 0, 0, 0, 0)

(* Text, then data with a .bss and the dynamic table; data right behind    *)
(* the text; a thread-local template, without and with a .tbss.            *)
Layouts ==
  { <<Header("PHDR", TRUE, 0, 0, 1, 1), TextSegment, Header("LOAD", FALSE, 4, 5, 2, 4),
      Header("DYNAMIC", FALSE, 4, 5, 1, 1), StackHeader>>,
    <<TextSegment, Header("LOAD", FALSE, 4, 4, 3, 5), StackHeader>>,
    <<TextSegment, Header("LOAD", FALSE, 4, 5, 4, 4), Header("TLS", FALSE, 4, 5, 1, 1)>>,
    <<TextSegment, Header("LOAD", FALSE, 4, 5, 4, 4), Header("TLS", FALSE, 4, 5, 1, 2)>> }

Table(name, type, entries) ==
  [name |-> name, type |-> type, table |-> entries, alloc |-> FALSE, x |-> FALSE,
   addr |-> 0, offset |-> 0, size |-> 0]
Bits(name, x, offset, addr, length) ==
  [name |-> name, type |-> "PROGBITS", table |-> <<>>, alloc |-> TRUE, x |-> x,
   addr |-> addr, offset |-> offset, size |-> length]

Rela(type, symbol, addend) == [type |-> type, symbol |-> symbol, addend |-> addend]

(* Text, data, the ends of both; symbols; a type the loader does not know. *)
Kinds == { Rela("RELATIVE", 0, 3), Rela("RELATIVE", 0, 4), Rela("RELATIVE", 0, 9),
           Rela("64", 1, 1), Rela("64", 1, -2),
           Rela("GLOB_DAT", 1, 1), Rela("JMP_SLOT", 0, 1), Rela("COPY", 0, 0) }

(* The k-th relocation of a table owns the k-th word from `from` on.       *)
Placed(s, from) ==
  [k \in DOMAIN s |-> [type |-> s[k].type, symbol |-> s[k].symbol, addend |-> s[k].addend,
                       offset |-> from + k - 1]]

(* Tables of different kinds of entries, and of one kind repeated.         *)
Contents == {<<x, y>> : x \in Kinds, y \in Kinds}
            \cup {[k \in 1 .. n |-> x] : n \in TableLengths, x \in Kinds}

(* Section names, where "xd" is one whose tail is the name of .rela.dyn.   *)
Merged   == [chars |-> <<NUL, "x", "d", NUL, "p", NUL, "s", NUL, "t", NUL>>,
             d |-> 2, p |-> 4, s |-> 6, t |-> 8]
Unmerged == [chars |-> <<NUL, "x", "d", NUL, "p", NUL, "s", NUL, "t", NUL, "d", NUL>>,
             d |-> 10, p |-> 4, s |-> 6, t |-> 8]

Image(ident, phoff, shoff, layout, names, tables) ==
  [ident |-> ident, phoff |-> phoff, shoff |-> shoff, segments |-> layout,
   shstrtab |-> names.chars,
   dynamic |-> IF names = Merged THEN <<"SYMTAB", "STRTAB", "NULL">> ELSE <<"SYMTAB", "NULL", "NULL">>,
   sections |-> <<Table(0, "NULL", <<>>), Bits(1, FALSE, 4, 5, 3), Bits(names.t, TRUE, 0, 0, 4),
                  Table(0, "DYNAMIC", <<>>)>>
                \o tables]

DynSym(n)     == Table(n.s, "DYNSYM", <<2, 5>>)
RelaDyn(n, s) == Table(n.d, "RELA", Placed(s, 5))
RelaPlt(n, s) == Table(n.p, "RELA", Placed(s, 7))

Singles == {<<k>> : k \in Kinds}

MCElfs ==
  {Image(Ident, TRUE, TRUE, l, Merged, <<DynSym(Merged), RelaDyn(Merged, s), RelaPlt(Merged, t)>>) :
     l \in Layouts, s \in Contents, t \in {<<>>, <<Rela("JMP_SLOT", 0, 1)>>, <<Rela("COPY", 0, 0)>>}}
  \cup {Image(Ident, phoff, shoff, l, Merged, <<RelaDyn(Merged, s)>>) :
          phoff, shoff \in BOOLEAN, l \in Layouts, s \in Singles}
  \cup {Image(Ident, TRUE, TRUE, l, Unmerged, <<DynSym(Unmerged), RelaDyn(Unmerged, s)>>) :
          l \in Layouts, s \in Singles}
  \cup {Image(Ident \ {f}, TRUE, TRUE, l, Merged, <<DynSym(Merged)>>) : f \in Ident, l \in Layouts}

(* An image of every size, one that is no ELF file, and one so large that  *)
(* its size cannot be rounded up.                                          *)
Plain(l) == Image(Ident, TRUE, TRUE, l, Merged, <<DynSym(Merged), RelaDyn(Merged, <<Rela("64", 1, 1)>>)>>)

MCFaultyElfs ==
  {Plain(l) : l \in Layouts}
  \cup {Plain(<<TextSegment, Header("LOAD", FALSE, 4, 5, 4, 57)>>),
        Image(Ident \ {"magic"}, TRUE, TRUE, <<TextSegment>>, Merged, <<>>)}

AllElfs == MCElfs \cup MCFaultyElfs
=============================================================================
