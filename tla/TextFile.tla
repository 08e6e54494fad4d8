------------------------------ MODULE TextFile ------------------------------
(***************************************************************************)
(* read_text_file() of detail/linux/file.hpp, the primitive under every    *)
(* procfs and sysfs query: open, read in chunks up to a limit, close.      *)
(* The file may grow, shrink or be rewritten while it is read. Contents    *)
(* are reduced to lengths; EINTR repeats the same read() and is a          *)
(* stuttering step.                                                        *)
(***************************************************************************)
EXTENDS Naturals

CONSTANTS
    Lengths,       \* lengths the file may have
    Chunk,         \* sizeof(buffer)
    MaximumSize,   \* maximum_size
    MaxChanges     \* bound: changes to the file during one call

ASSUME TextFileAssumption ==
    /\ Lengths \subseteq Nat
    /\ Chunk \in Nat \ {0}
    /\ MaximumSize \in Nat
    /\ MaxChanges \in Nat

VARIABLES
    length,    \* current length of the file
    changes,   \* changes to it since it was opened
    offset,    \* the descriptor's file offset
    output,    \* output.size()
    pc,
    result

vars == <<length, changes, offset, output, pc, result>>

NoResult == [kind |-> "none", code |-> "none", size |-> 0]
Ok(n) == [kind |-> "ok", code |-> "none", size |-> n]
Fail(code) == [kind |-> "error", code |-> code, size |-> 0]

Init == /\ length \in Lengths
        /\ changes = 0
        /\ offset = 0
        /\ output = 0
        /\ pc = "idle"
        /\ result = NoResult

(* Another process writes or truncates the file. *)
Change == /\ pc = "reading"
          /\ changes < MaxChanges
          /\ changes' = changes + 1
          /\ length' \in Lengths
          /\ UNCHANGED <<offset, output, pc, result>>

(* The file, or another one than last time, is found as it is now. *)
Open == /\ pc = "idle"
        /\ pc' = "reading"
        /\ length' \in Lengths
        /\ UNCHANGED <<changes, offset, output, result>>

OpenFails(code) == /\ pc = "idle"
                   /\ pc' = "done"
                   /\ result' = Fail(code)
                   /\ UNCHANGED <<length, changes, offset, output>>

Mutant_check_before_append(n) == output > MaximumSize
Mutant_limit_excluded(n) == output > MaximumSize \/ n >= MaximumSize - output
(* The limit check; MaximumSize - output is evaluated only when it is >= 0. *)
TooLarge(n) == output > MaximumSize \/ n > MaximumSize - output

(* read() returns n bytes. *)
ReadSome(n) ==
    /\ pc = "reading"
    /\ n <= Chunk
    /\ offset + n <= length
    /\ offset' = offset + n
    /\ IF TooLarge(n)
       THEN pc' = "done" /\ result' = Fail("value_too_large") /\ UNCHANGED output
       ELSE output' = output + n /\ UNCHANGED <<pc, result>>
    /\ UNCHANGED <<length, changes>>

Mutant_short_read_is_end ==
    /\ pc = "reading"
    /\ length - offset < Chunk
    /\ pc' = "done"
    /\ result' = Ok(output)
    /\ UNCHANGED <<length, changes, offset, output>>
(* read() returns 0: at or beyond the end of the file. *)
ReadEnd == /\ pc = "reading"
           /\ offset >= length
           /\ pc' = "done"
           /\ result' = Ok(output)
           /\ UNCHANGED <<length, changes, offset, output>>

ReadFails == /\ pc = "reading"
             /\ pc' = "done"
             /\ result' = Fail("native")
             /\ UNCHANGED <<length, changes, offset, output>>

TakeResult == /\ pc = "done"
              /\ pc' = "idle"
              /\ changes' = 0
              /\ offset' = 0
              /\ output' = 0
              /\ result' = NoResult
              /\ UNCHANGED length

Next == \/ Open
        \/ \E code \in {"ENOENT", "native"} : OpenFails(code)
        \/ \E n \in 1..Chunk : ReadSome(n)
        \/ ReadEnd \/ ReadFails
        \/ Change \/ TakeResult

Spec == Init /\ [][Next]_vars

-----------------------------------------------------------------------------
(* In particular the output never exceeds the limit while it is collected. *)
TypeOK == /\ length \in Lengths
          /\ changes \in 0..MaxChanges
          /\ offset \in Nat
          /\ output \in 0..MaximumSize
          /\ pc \in {"idle", "reading", "done"}
          /\ result \in [kind : {"none", "ok", "error"},
                         code : {"none", "ENOENT", "native", "value_too_large"},
                         size : Nat]

(***************************************************************************)
(* A file that nobody touches is returned whole, and refused as too large  *)
(* exactly when it is longer than the limit, whatever lengths the single   *)
(* reads have.                                                             *)
(***************************************************************************)
WholeOrRefused ==
    (pc = "done" /\ changes = 0) =>
        /\ result.kind = "ok" => result.size = length /\ length <= MaximumSize
        /\ result.code = "value_too_large" => length > MaximumSize

(***************************************************************************)
(* A file that changes while it is read yields at most the limit, and      *)
(* every byte that was read and kept: none is dropped between two reads.   *)
(***************************************************************************)
NothingDropped ==
    /\ result.kind = "ok" => result.size = offset /\ result.size <= MaximumSize
    /\ result.code = "value_too_large" => offset > MaximumSize
=============================================================================
