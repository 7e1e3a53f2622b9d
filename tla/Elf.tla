-------------------------------- MODULE Elf --------------------------------
(***************************************************************************)
(* The ELF library of the loader (loader/elf/elf.c, elf32.c): the file     *)
(* header leads to the tables by their offsets, a file being its header    *)
(* and what is found at an offset: a table of headers, or a name.          *)
(***************************************************************************)
EXTENDS Integers, Sequences, FiniteSetsExt

CONSTANT UINT32_MAX      \* scaled

NullPtr == -1            \* a null pointer

elf32_checkFile(f) == IF ~f.magic THEN -1 ELSE IF f.class # 32 THEN -2 ELSE 0

elf32_getEntryPoint(f) == f.e_entry
elf32_getNumProgramHeaders(f) == f.e_phnum
elf32_getNumSections(f) == f.e_shnum
elf32_getProgramHeaderTable(f) == f.tables[f.e_phoff]
elf32_getSectionTable(f) == f.tables[f.e_shoff]

\* An index counts from 0.
Header(f, ph) == elf32_getProgramHeaderTable(f)[ph + 1]
elf_getProgramHeaderPaddr(f, ph) == Header(f, ph).p_paddr
elf_getProgramHeaderVaddr(f, ph) == Header(f, ph).p_vaddr
elf_getProgramHeaderMemorySize(f, ph) == Header(f, ph).p_memsz
elf_getProgramHeaderFileSize(f, ph) == Header(f, ph).p_filesz
elf_getProgramHeaderOffset(f, ph) == Header(f, ph).p_offset

\* Headers without memory do not count; without any, the minimum exceeds the maximum.
elf_getMemoryBounds(f, phys) ==
  LET start(ph) == IF phys THEN elf_getProgramHeaderPaddr(f, ph)
                   ELSE elf_getProgramHeaderVaddr(f, ph)
      size(ph) == elf_getProgramHeaderMemorySize(f, ph)
      phs == {ph \in 0 .. elf32_getNumProgramHeaders(f) - 1 : size(ph) # 0}
  IN  IF elf32_checkFile(f) # 0 THEN [ok |-> FALSE]
      ELSE [ok |-> TRUE, min |-> Min({UINT32_MAX} \cup {start(ph) : ph \in phs}),
            max |-> Max({0} \cup {start(ph) + size(ph) : ph \in phs})]

elf_vaddrInProgramHeader(f, ph, vaddr) ==
  LET min == elf_getProgramHeaderVaddr(f, ph)
  IN  vaddr >= min /\ vaddr < min + elf_getProgramHeaderMemorySize(f, ph)

elf_vtopProgramHeader(f, ph, vaddr) ==
  vaddr - elf_getProgramHeaderVaddr(f, ph) + elf_getProgramHeaderPaddr(f, ph)

-----------------------------------------------------------------------------
(* Sections and their names *)

Shdr(f, i) == elf32_getSectionTable(f)[i + 1]
elf32_getSection(f, i) == Shdr(f, i).sh_offset
elf32_getStringTable(f) == Shdr(f, f.e_shstrndx).sh_offset
elf32_getSegmentStringTable(f) ==
  IF f.e_shstrndx = 0 THEN NullPtr ELSE elf32_getStringTable(f)

elf32_getSectionName(f, i) ==
  IF elf32_getSegmentStringTable(f) = NullPtr THEN "<corrupted>"
  ELSE f.names[elf32_getSegmentStringTable(f) + Shdr(f, i).sh_name]

\* The first section of that name.
elf32_getSectionNamed(f, name) ==
  LET named == {i \in 0 .. elf32_getNumSections(f) - 1 : elf32_getSectionName(f, i) = name}
  IN  IF named = {} THEN NullPtr ELSE elf32_getSection(f, Min(named))
=============================================================================
