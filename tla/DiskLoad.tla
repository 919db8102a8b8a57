------------------------------ MODULE DiskLoad ------------------------------
(***************************************************************************)
(* disk_load_lba of src/boot/disk_load.asm: sectors from a drive to memory *)
(* by BIOS calls of at most 64 sectors.  Registers have 16 bits.  BX is 0  *)
(* in both calls of stage2.asm, so an address is a segment, in units of 16 *)
(* bytes.                                                                  *)
(***************************************************************************)
EXTENDS Integers

CONSTANTS
  Drives,         \* the drives the BIOS finds
  BootDrive       \* the one stage2 was started from

ASSUME DriveAssumption == BootDrive \in Drives /\ Drives \subseteq 0 .. 255

VARIABLES
  ax, cx, es, dl,
  loads           \* the BIOS calls that succeeded

loaderVars == <<ax, cx, es, dl, loads>>

Word  == 0 .. 65535
Chunk == [to : Word, lba : Word, n : Nat, drive : 0 .. 255]

LoaderTypeOK ==
  /\ ax \in Word /\ cx \in Word /\ es \in Word
  /\ dl \in 0 .. 255
  /\ loads \subseteq Chunk

LoaderInit == ax = 0 /\ cx = 0 /\ es = 0 /\ dl = BootDrive /\ loads = {}

(* The call: "AX = Start Sector (1-based), CX = Number of Sectors to read,
   ES:BX = Destination buffer, DL = Drive ID". *)
LoadArguments(segment, sector, sectors) ==
  /\ es' = segment /\ ax' = sector /\ cx' = sectors /\ dl' = BootDrive
  /\ UNCHANGED loads

\* Mutant: only whole chunks are read.
ChunkSizeWhole(left) == IF left < 64 THEN 0 ELSE 64

ChunkSize(left) == IF left <= 64 THEN left ELSE 64

\* Mutant: the segment register is advanced by bytes.
AdvancedByBytes(segment, di) == (segment + 512 * di) % 65536

(* ES moves on by di sectors of 32 paragraphs. *)
Advanced(segment, di) == (segment + 32 * di) % 65536

(* One turn of .read_loop that the BIOS serves.  The loop computes the advance
   of ES in DX and so changes DL. *)
ReadChunk ==
  LET di == ChunkSize(cx)
  IN  /\ cx # 0
      /\ dl \in Drives
      /\ loads' = loads \cup {[to |-> es, lba |-> (ax - 1) % 65536, n |-> di, drive |-> dl]}
      /\ ax' = (ax + di) % 65536
      /\ cx' = (cx - di) % 65536
      /\ es' = Advanced(es, di)
      /\ dl' = (32 * di) % 256
=============================================================================
