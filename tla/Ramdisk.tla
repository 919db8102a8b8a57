------------------------------ MODULE Ramdisk -------------------------------
(***************************************************************************)
(* The initial ramdisk on its way from mkinitrd.py to the shell's prompt:  *)
(* stage2 loads the kernel and the ramdisk, initialise_initrd turns its    *)
(* headers into nodes, and the ls and cat of shell_task go through vfs.c   *)
(* to initrd.c.  A byte is its place: on the disk, or in memory.           *)
(*                                                                         *)
(* shell_task is the only task that uses the VFS: these steps are not      *)
(* interleaved with anything that touches the same data.                   *)
(***************************************************************************)
EXTENDS DiskLoad, Sequences

CONSTANTS
  Names, Lengths, MaxFiles,   \* the files given to mkinitrd.py
  KernelSizes,                \* the possible sizes of kernel.bin, in bytes
  BssSizes                    \* and of the BSS that the linker puts behind it

(* Where stage2 and the Makefile put things: segments, and 1-based sectors. *)
KERNEL_LOAD_SEG     == 4096   \* 0x1000
INITRD_LOAD_SEG     == 16384  \* 0x4000
KERNEL_START_SECTOR == 4
INITRD_START_SECTOR == 513

(* main.c, "initrd starts at physical 0x40000": the kernel has to end below, with
   its BSS, which is in memory but not in kernel.bin. *)
ASSUME KernelAssumption ==
  /\ KernelSizes \subseteq Nat \ {0} /\ BssSizes \subseteq Nat
  /\ \A size \in KernelSizes, bss \in BssSizes :
       16 * KERNEL_LOAD_SEG + size + bss <= 16 * INITRD_LOAD_SEG

(* The Makefile cuts the image 256 KB behind the start of the ramdisk. *)
ASSUME FileAssumption ==
  /\ Lengths \subseteq Nat /\ MaxFiles \in Nat
  /\ \A length \in Lengths : 4 + MaxFiles * (76 + length) <= 262144

VARIABLES
  files,          \* what is on the disk, in the order of mkinitrd's arguments
  kernelSize,     \* of kernel.bin
  bssSize,        \* _bss_end - _bss_start
  zeroed,         \* the bytes kernel_entry has zeroed: [from, to)
  phase,
  nodes,          \* root_nodes
  offsets,        \* file_headers[].offset as they are in memory
  i,              \* ls: the index of the next directory entry
  listing,        \* ls: what it has printed
  got             \* the last vfs_read: what was asked, where its bytes are, how many

vars ==
  <<loaderVars, files, kernelSize, bssSize, zeroed, phase, nodes, offsets, i, listing, got>>

(* mkinitrd.py keeps the last part of each path, cut to 63 characters: files may
   come to have one name, and one may be called dev.  It makes no empty image. *)
Directories ==
  UNION {[1 .. k -> [name : Names, length : Lengths]] : k \in 1 .. MaxFiles}

-----------------------------------------------------------------------------
(* mkinitrd.py: 4 bytes, 76 bytes of header per file, the contents. *)
SizeOf[k \in 0 .. MaxFiles] ==
  IF k = 0 THEN 4 + 76 * Len(files) ELSE SizeOf[k - 1] + files[k].length

PackedAt(k) == SizeOf[k - 1]

(* -D KERNEL_SECTORS=... and -D INITRD_SECTORS=... *)
KernelSectors == (kernelSize + 511) \div 512
InitrdSectors == (SizeOf[Len(files)] + 511) \div 512

TypeOK ==
  /\ LoaderTypeOK
  /\ files \in Directories
  /\ kernelSize \in KernelSizes /\ bssSize \in BssSizes
  /\ zeroed \in [from : Nat, to : Nat]
  /\ phase \in {"start", "kernel", "initrd", "boot", "shell", "ls", "halted"}
  /\ nodes \in Seq([name : Names, length : Lengths, inode : Nat])
  /\ offsets \in Seq(Nat)
  /\ i \in 0 .. MaxFiles + 1
  /\ listing \in Seq([name : Names \cup {"dev"}, size : Lengths \cup {-1}])
  /\ got \in [at : Nat, n : Nat, name : Names \cup {""}, offset : Nat, size : Nat]

Init ==
  /\ LoaderInit
  /\ files \in Directories
  /\ kernelSize \in KernelSizes /\ bssSize \in BssSizes
  /\ zeroed = [from |-> 0, to |-> 0]
  /\ phase = "start"
  /\ nodes = <<>> /\ offsets = <<>>
  /\ i = 0 /\ listing = <<>>
  /\ got = [at |-> 0, n |-> 0, name |-> "", offset |-> 0, size |-> 0]

Goto(from, to) == phase = from /\ phase' = to

DiskVars  == <<files, kernelSize, bssSize>>
ShellVars == <<i, listing, got>>

-----------------------------------------------------------------------------
(* stage2.asm *)
LoadKernel ==
  /\ Goto("start", "kernel")
  /\ LoadArguments(KERNEL_LOAD_SEG, KERNEL_START_SECTOR, KernelSectors)
  /\ UNCHANGED <<DiskVars, zeroed, nodes, offsets, ShellVars>>

LoadInitrd ==
  /\ cx = 0
  /\ Goto("kernel", "initrd")
  /\ LoadArguments(INITRD_LOAD_SEG, INITRD_START_SECTOR, InitrdSectors)
  /\ UNCHANGED <<DiskVars, zeroed, nodes, offsets, ShellVars>>

Read ==
  /\ phase \in {"kernel", "initrd"}
  /\ ReadChunk
  /\ UNCHANGED <<DiskVars, zeroed, phase, nodes, offsets, ShellVars>>

(* No LBA extensions, or an error of the disk, or no such drive: jmp $. *)
DiskError ==
  /\ phase \in {"kernel", "initrd"}
  /\ phase' = "halted"
  /\ UNCHANGED <<loaderVars, DiskVars, zeroed, nodes, offsets, ShellVars>>

BssStart == 16 * KERNEL_LOAD_SEG + kernelSize

\* Mutant: the count of bytes is taken for one of double words (rep stosd).
BssEndWords == BssStart + 4 * bssSize

BssEnd == BssStart + bssSize

(* switch_to_pm, kernel_entry, kmain until it calls initialise_initrd.  The boot
   page tables are filled inside kernel.bin; what is zeroed lies behind it. *)
EnterKernel ==
  /\ cx = 0
  /\ Goto("initrd", "boot")
  /\ zeroed' = [from |-> BssStart, to |-> BssEnd]
  /\ UNCHANGED <<loaderVars, DiskVars, nodes, offsets, ShellVars>>

Zeroed(address) == zeroed.from <= address /\ address < zeroed.to

-----------------------------------------------------------------------------
(* file_headers[k].offset += location *)
Relocated(location, k) == PackedAt(k) + location

(* initrd_header->nfiles, the first bytes of the ramdisk as memory has them now.
   The zeroed bytes begin below the ramdisk: if they spare it, all of it is whole. *)
Nfiles == IF Zeroed(16 * INITRD_LOAD_SEG) THEN 0 ELSE Len(files)

(* initialise_initrd(location) *)
InitialiseInitrd ==
  /\ Goto("boot", "shell")
  /\ offsets' = [k \in 1 .. Nfiles |-> Relocated(16 * INITRD_LOAD_SEG, k)]
  /\ nodes' = [k \in 1 .. Nfiles |->
                 [name |-> files[k].name, length |-> files[k].length, inode |-> k - 1]]
  /\ UNCHANGED <<loaderVars, DiskVars, zeroed, ShellVars>>

\* Mutant: the entry "dev" in front of the files is not counted.
ReaddirShort(index) ==
  IF index = 0 THEN {"dev"}
  ELSE IF index < Len(nodes) THEN {nodes[index].name} ELSE {}

(* vfs_readdir(fs_root, index), which is initrd_readdir: a name, or none. *)
Readdir(index) ==
  IF index = 0 THEN {"dev"}
  ELSE IF index - 1 < Len(nodes) THEN {nodes[index].name} ELSE {}

(* vfs_finddir(fs_root, name), for a file: the first of that name, or none.  The
   node of dev comes before the files. *)
Finddir(name) ==
  {k \in DOMAIN nodes : /\ nodes[k].name = name /\ name # "dev"
                        /\ \A j \in 1 .. k - 1 : nodes[j].name # name}

\* Mutant: a size that reaches past the end of the file is refused, not cut.
ReadSizeRefused(length, offset, size) == IF offset + size > length THEN 0 ELSE size

(* initrd_read(): how many bytes it copies.  The sum has 32 bits in the code;
   Around() stays far below. *)
ReadSize(length, offset, size) ==
  IF offset > length THEN 0
  ELSE IF offset + size > length THEN length - offset ELSE size

-----------------------------------------------------------------------------
(* "ls": one turn of its loop. *)
Ls ==
  /\ Goto("shell", "ls")
  /\ i' = 0 /\ listing' = <<>>
  /\ UNCHANGED <<loaderVars, DiskVars, zeroed, nodes, offsets, got>>

LsEntry ==
  /\ phase = "ls"
  /\ \E name \in Readdir(i) :
       \/ /\ name = "dev"
          /\ listing' = Append(listing, [name |-> name, size |-> -1])
       \/ \E k \in Finddir(name) :
            /\ listing' = Append(listing, [name |-> name, size |-> nodes[k].length])
  /\ i' = i + 1
  /\ UNCHANGED <<loaderVars, DiskVars, zeroed, phase, nodes, offsets, got>>

LsEnd ==
  /\ Goto("ls", "shell")
  /\ Readdir(i) = {}
  /\ UNCHANGED <<loaderVars, DiskVars, zeroed, nodes, offsets, ShellVars>>

(* vfs_read(vfs_finddir(fs_root, name), offset, size, buf): cat reads from 0 as
   many bytes as the file has; vfs.h offers any part of it.  The node of dev has
   no read, and vfs_read then does nothing. *)
VfsRead(name, offset, size) ==
  /\ phase = "shell"
  /\ \E k \in Finddir(name) :
       got' = [at     |-> offsets[nodes[k].inode + 1] + offset,
               n      |-> ReadSize(nodes[k].length, offset, size),
               name   |-> name,
               offset |-> offset,
               size   |-> size]
  /\ UNCHANGED <<loaderVars, DiskVars, zeroed, phase, nodes, offsets, i, listing>>

Around(length) == {n \in {0, 1, length - 1, length, length + 1} : n >= 0}

Reads ==
  \E k \in DOMAIN nodes : \E offset, size \in Around(nodes[k].length) :
    VfsRead(nodes[k].name, offset, size)

(* A loader that gave up stays in its jmp $. *)
Halted == phase = "halted" /\ UNCHANGED vars

Work ==
  \/ LoadKernel \/ LoadInitrd \/ Read \/ EnterKernel
  \/ InitialiseInitrd \/ Ls \/ LsEntry \/ LsEnd \/ Reads

Next == Work \/ DiskError \/ Halted

Spec == Init /\ [][Next]_vars

(* The loader and the shell run on.  The disk need not ever fail, except where
   the loader asks for a drive that is not there. *)
FairSpec == Spec /\ WF_vars(Work \/ (dl \notin Drives /\ DiskError))

-----------------------------------------------------------------------------
(* disk_load_lba: each chunk is a run of sectors of one of the two images, at
   the address that belongs to it; no sector of either image comes to lie on
   the other, and once the kernel runs none is missing. *)
Wanted(c) ==
  \/ /\ c.lba >= KERNEL_START_SECTOR - 1
     /\ c.lba + c.n <= KERNEL_START_SECTOR - 1 + KernelSectors
     /\ c.to = KERNEL_LOAD_SEG + 32 * (c.lba - (KERNEL_START_SECTOR - 1))
  \/ /\ c.lba >= INITRD_START_SECTOR - 1
     /\ c.lba + c.n <= INITRD_START_SECTOR - 1 + InitrdSectors
     /\ c.to = INITRD_LOAD_SEG + 32 * (c.lba - (INITRD_START_SECTOR - 1))

Covered(lba) == \E c \in loads : c.lba <= lba /\ lba < c.lba + c.n

ImagesInPlace ==
  /\ TypeOK
  /\ \A c \in loads : Wanted(c)
  /\ \A c, d \in loads : c # d => c.to + 32 * c.n <= d.to \/ d.to + 32 * d.n <= c.to
  /\ phase \in {"boot", "shell", "ls"} =>
       /\ \A s \in 1 .. KernelSectors : Covered(KERNEL_START_SECTOR - 2 + s)
       /\ \A s \in 1 .. InitrdSectors : Covered(INITRD_START_SECTOR - 2 + s)

(* The disk byte that was loaded to a memory address and is still there: none, or
   one.  From which drive is the question of DriveKept. *)
DiskByte(address) ==
  {512 * c.lba + address - 16 * c.to :
     c \in {d \in loads : /\ 16 * d.to <= address /\ address < 16 * d.to + 512 * d.n
                         /\ ~Zeroed(address)}}

(* The file a name stands for: the first one packed under it. *)
Bearer(name) == CHOOSE k \in DOMAIN files :
  files[k].name = name /\ \A j \in 1 .. k - 1 : files[j].name # name

(* vfs_read returns the part of the file of that name that was asked for, as far
   as the file goes: no byte beyond, fewer than asked for only at the file's end,
   and its first and last byte are those mkinitrd.py put there. *)
ReadsTheFile ==
  got.name # "" =>
    LET file  == Bearer(got.name)
        place == 512 * (INITRD_START_SECTOR - 1) + PackedAt(file) + got.offset
    IN  /\ got.n <= got.size
        /\ got.n > 0 => got.offset + got.n <= files[file].length
        /\ got.n < got.size => got.offset + got.n >= files[file].length
        /\ got.n > 0 => /\ DiskByte(got.at) = {place}
                        /\ DiskByte(got.at + got.n - 1) = {place + got.n - 1}

(* shell_task: what ls has printed when it ends is the directory, dev first, then
   every file; the size next to a name is that of the file that cat would read
   by it, the first of its name, and what is called dev is the directory. *)
LsIsComplete ==
  [][phase = "ls" /\ phase' = "shell" =>
       /\ Len(listing) = Len(files) + 1
       /\ listing[1].name = "dev"
       /\ \A k \in DOMAIN files :
            LET name == files[k].name
            IN  listing[k + 1] =
                  [name |-> name,
                   size |-> IF name = "dev" THEN -1 ELSE files[Bearer(name)].length]]_vars

(* The loader ends, whatever the sizes: in the kernel, or in a halt. *)
LoadEnds == <>(phase \in {"shell", "halted"})

(* disk_load.asm:40, "DL = Drive ID": all that is loaded comes from the drive
   the caller named. *)
DriveKept == \A c \in loads : c.drive = BootDrive
=============================================================================
