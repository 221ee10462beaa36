----------------------------- MODULE RelocTarget -----------------------------
(***************************************************************************)
(* What a relocation refers to: relocDataHtmlString                        *)
(* (macho_widgets/reltab_model.go) reads the patched bytes and computes a  *)
(* *RelocTarget from them, differently for each processor.                 *)
(*                                                                         *)
(* A byte has B values (256 in a file), so a field of n bytes has B to the *)
(* n: small values of B keep the widths apart.                             *)
(***************************************************************************)
EXTENDS Integers

CONSTANTS
    B,       \* the number of values of a byte
    NoTarget \* a nil *RelocTarget, and "no relocation follows"

ASSUME BAssumption == B \in Nat /\ B % 2 = 0 /\ B # 0

Cpus == {"386", "AMD64", "ARM"}

GenericTypes == {"VANILLA", "PAIR", "SECTDIFF", "LOCAL_SECTDIFF", "PB_LA_PTR", "TLV"}
Amd64Types == {"UNSIGNED", "SIGNED", "SIGNED_1", "SIGNED_2", "SIGNED_4", "BRANCH",
               "GOT_LOAD", "GOT", "SUBTRACTOR", "TLV"}

\* A macho.Reloc without its place: value is a symbol's index, a section's number or,
\* when scattered, an address.
Kind == [type: GenericTypes \cup Amd64Types, pcrel: BOOLEAN, extern: BOOLEAN,
         scattered: BOOLEAN, value: Nat]

\* The relocations of a processor, all that have a name; those of ARM are not interpreted.
TypesOf(cpu) ==
    CASE cpu = "386" -> GenericTypes
      [] cpu = "AMD64" -> Amd64Types
      [] OTHER -> GenericTypes \cup Amd64Types

-----------------------------------------------------------------------------
(* Numbers.                                                                  *)

\* How many values a field of 1, 2, 4 or 8 bytes has.
Values(width) ==
    LET squared(n) == n * n
    IN CASE width = 1 -> B
         [] width = 2 -> squared(B)
         [] width = 4 -> squared(squared(B))
         [] width = 8 -> squared(squared(squared(B)))

U64 == Values(8)

\* ival: the field's bytes as a signed number.
Signed(raw, width) == IF 2 * raw >= Values(width) THEN raw - Values(width) ELSE raw

Int64(n) == Signed(n % U64, 8)

-----------------------------------------------------------------------------
(* The target.                                                               *)

\* num is a symbol's index counting from 0, or -1; then addr is the target's base.
ToSym(num, addend) == [num |-> num, addr |-> 0, addend |-> Int64(addend)]
ToAddr(addr, addend) == [num |-> -1, addr |-> addr % U64, addend |-> Int64(addend)]

\* k: the bytes of an immediate operand that follow the field.
Trailing(type) ==
    CASE type = "SIGNED_1" -> 1
      [] type = "SIGNED_2" -> 2
      [] type = "SIGNED_4" -> 4
      [] OTHER -> 0

\* pc is the address after the field.  A section difference is made of two relocations;
\* next is the one that follows r in the section.
GenericTarget(r, next, width, pc, raw) ==
    LET ival == Signed(raw, width)
        from == IF r.pcrel THEN pc ELSE 0
        paired == next # NoTarget /\ next.scattered /\ next.type = "PAIR"
    IN CASE r.type = "VANILLA" /\ r.scattered -> ToAddr(r.value, ival + from)
         [] r.type = "VANILLA" /\ ~r.scattered /\ r.extern -> ToSym(r.value, ival + from)
         [] r.type = "VANILLA" /\ ~r.scattered /\ ~r.extern -> ToAddr(raw + from, 0)
         [] r.type \in {"SECTDIFF", "LOCAL_SECTDIFF"} /\ paired ->
                ToAddr(r.value, ival + next.value - r.value)
         [] r.type = "TLV" -> ToSym(r.value, ival)
         [] OTHER -> NoTarget

Amd64TargetOfField(r, width, pc, raw) ==
    CASE r.type = "SUBTRACTOR" -> NoTarget
      [] r.type # "SUBTRACTOR" /\ r.extern -> ToSym(r.value, Signed(raw, width))
      [] OTHER -> ToAddr(raw + pc, 0)
Amd64Target(r, width, pc, raw) ==
    CASE r.type = "SUBTRACTOR" -> NoTarget
      [] r.type # "SUBTRACTOR" /\ r.extern ->
             ToSym(r.value, Signed(raw, width) + Trailing(r.type))
      [] OTHER -> ToAddr(raw + pc + Trailing(r.type), 0)

Target(cpu, r, next, width, pc, raw) ==
    CASE cpu = "386" -> GenericTarget(r, next, width, pc, raw)
      [] cpu = "AMD64" -> Amd64Target(r, width, pc, raw)
      [] OTHER -> NoTarget

-----------------------------------------------------------------------------
(* The reference: where the patched field points once the file is linked at  *)
(* the addresses it has, in terms of the relocation's meaning.  base is the  *)
(* address of the symbol of an external relocation.                          *)

AddressWidth(cpu) == IF cpu = "386" THEN 4 ELSE 8
AddressSpace(cpu) == Values(AddressWidth(cpu))

Meant(cpu, r, next, width, pc, raw, base) ==
    LET held == Signed(raw, width)
        symbol == IF r.extern \/ (cpu = "386" /\ r.type = "TLV") THEN base ELSE 0
        here == IF r.pcrel /\ (cpu = "386" \/ ~r.extern) THEN pc ELSE 0
    IN IF r.type \in {"SECTDIFF", "LOCAL_SECTDIFF"} THEN held + next.value
       ELSE symbol + here + held + Trailing(r.type)

\* Where the code is known to differ from it: a scattered address is counted twice, a
\* local relocation on AMD64 is taken to be relative to the pc even if it is not, and a
\* negative displacement narrower than an address is not sign-extended.  (On 386 a
\* 4-byte one leaves a multiple of 2^32 in the sum.)  The pc of a thread-local relocation
\* is left out.  On AMD64 three kinds refer to a slot that the linker makes; the code leads
\* to the symbol whose slot it is.
SlotTypes == {"GOT_LOAD", "GOT", "TLV"}

KnownWrong(cpu, r, width, raw) ==
    \/ cpu = "386" /\ r.type = "VANILLA" /\ r.scattered
    \/ cpu = "386" /\ r.type = "TLV" /\ r.pcrel
    \/ cpu = "AMD64" /\ ~r.extern /\ ~r.pcrel
    \/ cpu = "AMD64" /\ r.type \in SlotTypes
    \/ /\ ~r.extern /\ r.type \notin {"TLV", "SECTDIFF", "LOCAL_SECTDIFF"}
       /\ width < AddressWidth(cpu) /\ Signed(raw, width) < 0

=============================================================================
