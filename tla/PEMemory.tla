------------------------------ MODULE PEMemory ------------------------------
(***************************************************************************)
(* How the host lays out the memory of a processing element                *)
(* (host/fuzzer_host_libafl/src/tapasco_runner_phys.rs): the sections of a  *)
(* program file, what is refused for want of room, and where an input goes. *)
(* Sizes and addresses are numbers of bytes; contents are left out.         *)
(***************************************************************************)
EXTENDS Integers

KiB == 1024
MiB == 1024 * KiB

INSTMEM_SIZE == 8 * MiB
DATAMEM_SIZE == 8 * MiB

\* x & !15, and the same after rounding up.
Floor16(n) == n - (n % 16)
Aligned16(n) == Floor16(n + 15)

Smaller(a, b) == IF a < b THEN a ELSE b

\* A section of `size' bytes of data memory at `offs' with the stack at its end.
Config(imem, offs, size, stack, dram, bitmap, bitmapSize) ==
  [invalidate_caches |-> imem = MiB, instmem_size_phys |-> imem,
   datamem_offs_phys |-> offs, datamem_size_phys |-> size,
   datamem_size_phys_without_stack |-> size - stack,
   dram |-> dram, bitmap_bram_addr |-> bitmap, bitmap_bram_size |-> bitmapSize]

(***************************************************************************)
(* The kinds of processing elements get_pes looks for, each with the        *)
(* memory configuration it is given.  The variant that would keep its       *)
(* bitmap in DRAM (bitmap_via_dram_dma) is given to none.                   *)
(***************************************************************************)
PEMEMCONFIG ==
  [dram  |-> Config(MiB, 8 * MiB, 8 * MiB, 32 * KiB, TRUE, 128 * KiB, 8 * KiB),
   hbm   |-> Config(MiB, 8 * MiB, 8 * MiB, 32 * KiB, FALSE, 16 * MiB, 8 * KiB),
   bram  |-> Config(64 * KiB, 64 * KiB, 64 * KiB, 4 * KiB, FALSE, 128 * KiB, 8 * KiB),
   riscv |-> Config(64 * KiB, 64 * KiB, 64 * KiB, 4 * KiB, FALSE, 128 * KiB, 0)]

\* read_binary: the lengths of the sections of a program file.
ReadBinary(file) ==
  LET file_size == Smaller(file, INSTMEM_SIZE + DATAMEM_SIZE) IN
  [instmem |-> Smaller(file_size, INSTMEM_SIZE),
   datamem |-> IF file_size <= INSTMEM_SIZE THEN 0
               ELSE Smaller(file_size - INSTMEM_SIZE, DATAMEM_SIZE)]

(***************************************************************************)
(* What try_dispatch refuses: program data beyond the data memory,          *)
(* instructions (counted to the last one that is not 0) beyond the          *)
(* instruction memory as long as they are still to be uploaded, and an      *)
(* input that does not fit behind the program data.                         *)
(***************************************************************************)
FitError(conf, initialized, datamem, instmem_nonzero, input) ==
  IF Aligned16(datamem) > conf.datamem_size_phys_without_stack
  THEN "ProgramOrDataTooLarge"
  ELSE IF ~initialized /\ instmem_nonzero > conf.instmem_size_phys
  THEN "ProgramOrDataTooLarge"
  ELSE IF Aligned16(input) > conf.datamem_size_phys_without_stack - Aligned16(datamem)
  THEN "InputTooLarge"
  ELSE "none"

\* Where in the data memory an input is put: as close to the stack as its
\* length and the alignment allow.
input_data_offs(conf, input) ==
  Floor16(conf.datamem_size_phys_without_stack - input)
=============================================================================
