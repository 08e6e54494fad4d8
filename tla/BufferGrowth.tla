---------------------------- MODULE BufferGrowth ----------------------------
(***************************************************************************)
(* The retry loops that ask the C library or the kernel for a value of     *)
(* unknown length and enlarge the buffer until it fits:                    *)
(*   "passwd"  lookup_with_growth            (detail/posix/passwd.hpp)     *)
(*   "groups"  collect_supplementary_groups  (detail/user/posix.hpp)       *)
(*   "login"   lookup_login_with_growth      (detail/user/posix.hpp)       *)
(*   "link"    read_symlink_path             (detail/process_list/linux)   *)
(*   "home"    get_user_home_dir             (detail/software/linux)       *)
(*   "mounts"  mounts                        (detail/filesystem/macos)     *)
(*   "procs"   process_count                 (detail/resource/macos)       *)
(* The value may be replaced, removed or lengthened between two attempts.  *)
(* readlink and getfsstat fill a buffer that is too small and say nothing, *)
(* so a full one must be taken as too small; the others refuse it. The     *)
(* last three loops give up after a number of attempts, and the last two   *)
(* first ask how much there is.                                            *)
(***************************************************************************)
EXTENDS Integers

CONSTANTS
    Lengths,     \* room the value may need
    Initial,     \* Initial[o]: size of the first buffer of loop o
    Maximum,     \* largest buffer (1 MiB in the code; INT_MAX for mounts)
    MaxAttempts, \* attempts of a capped loop (16, 8 and 5 in the code)
    Spare,       \* room added to an estimate (64 bytes in the code)
    MaxChanges   \* bound: changes to the value during one call

Sizing == {"mounts", "procs"}          \* ask for the size first
Unlimited == {"procs", "home"}         \* limited by their attempts alone
Ops == {"passwd", "groups", "login", "link", "home"} \cup Sizing

ASSUME GrowthAssumption ==
    /\ Lengths \subseteq Nat
    /\ Initial \in [Ops -> 1..Maximum]
    /\ Maximum \in Nat \ {0}
    /\ MaxAttempts \in Nat \ {0}
    /\ Spare \in Nat \ {0}
    /\ MaxChanges \in Nat

Absent == -1     \* no such entry, no login session, no such link

VARIABLES
    need,      \* what the value needs at this moment, or Absent
    changes,   \* how often it has changed during the call
    op, pc,
    size,      \* buffer.size()
    attempts,  \* failed attempts of a capped loop
    first,     \* size of its first buffer (history)
    seen,      \* what the value needed at the latest attempt (history)
    result

counters == <<attempts, first>>
vars == <<need, changes, op, pc, size, attempts, first, seen, result>>

(* length: how much of the value was returned. *)
NoResult == [kind |-> "none", code |-> "none", length |-> 0]
Ok(n) == [kind |-> "ok", code |-> "none", length |-> n]
Fail(code) == [kind |-> "error", code |-> code, length |-> 0]

Init == /\ need \in Lengths \cup {Absent}
        /\ changes = 0
        /\ op = "none"
        /\ pc = "idle"
        /\ size = 1
        /\ attempts = 0
        /\ first = 0
        /\ seen = Absent
        /\ result = NoResult

Begin(o) == /\ pc = "idle"
            /\ pc' = IF o \in Sizing THEN "sizing" ELSE "attempt"
            /\ op' = o
            /\ size' = Initial[o]
            /\ UNCHANGED <<need, changes, counters, seen, result>>

(* Somebody edits the database or the link. *)
Change == /\ pc \in {"sizing", "attempt"}
          /\ changes < MaxChanges
          /\ changes' = changes + 1
          /\ need' \in (Lengths \cup {Absent}) \ {need}
          /\ UNCHANGED <<op, pc, size, counters, seen, result>>

Return(r) == /\ pc' = "done"
             /\ result' = r
             /\ UNCHANGED size

Mutant_double_past_maximum(s) == s * 2
Mutant_only_double(s) == IF s <= Maximum \div 2 THEN s * 2 ELSE s
(* The next size, for a size below the maximum. *)
Grown(s) == IF s <= Maximum \div 2 THEN s * 2 ELSE Maximum

Retry(s) == size' = s /\ UNCHANGED <<pc, result>>

Attempt(o) == /\ pc = "attempt"
              /\ op = o
              /\ seen' = need
              /\ UNCHANGED <<need, changes, op, first>>

Mutant_grow_half_way ==
    IF size <= Maximum \div 2 THEN Retry(Grown(size)) ELSE Return(Fail("ERANGE"))
(* The answer "buffer too small". *)
TooSmall == IF size < Maximum THEN Retry(Grown(size)) ELSE Return(Fail("ERANGE"))

Fits == need # Absent /\ need <= size
Exceeds == need # Absent /\ need > size

(* getpwuid_r: no entry, ERANGE, or the entry. *)
LookupPasswd == /\ Attempt("passwd") /\ UNCHANGED attempts
                /\ \/ need = Absent /\ Return(Fail("not_found"))
                   \/ Exceeds /\ TooSmall
                   \/ Fits /\ Return(Ok(need))

(* getgroups: EINVAL, or the number of groups; a process may have none. *)
CollectGroups == /\ Attempt("groups") /\ UNCHANGED attempts
                 /\ \/ need = Absent /\ Return(Ok(0))
                    \/ Exceeds /\ TooSmall
                    \/ Fits /\ Return(Ok(need))

(* getlogin_r: no terminal session, ERANGE, or a name, which is not empty. *)
LookupLogin == /\ Attempt("login") /\ UNCHANGED attempts
               /\ \/ need = Absent /\ Return(Fail("not_found"))
                  \/ Exceeds /\ TooSmall
                  \/ Fits /\ need = 0 /\ Return(Fail("malformed_data"))
                  \/ Fits /\ need > 0 /\ Return(Ok(need))

Min2(a, b) == IF a < b THEN a ELSE b

Mutant_accept_full_buffer ==
    /\ Attempt("link") /\ UNCHANGED attempts
    /\ IF need = Absent THEN Return(Fail("nullopt"))
       ELSE Return(Ok(Min2(need, size)))
(* readlink: an error, or as many bytes as fit. Both failures return            *)
(* std::nullopt; "too_long" is the one for want of room.                        *)
ReadLink == /\ Attempt("link") /\ UNCHANGED attempts
            /\ IF need = Absent THEN Return(Fail("nullopt"))
               ELSE LET count == Min2(need, size)
                    IN IF count < size THEN Return(Ok(count))
                       ELSE IF size > Maximum \div 2 THEN Return(Fail("too_long"))
                       ELSE Retry(size * 2)

-----------------------------------------------------------------------------
(* The capped loops. An absent table is an empty one. *)
Count(n) == IF n = Absent THEN 0 ELSE n

(* The sizing call has asked for a buffer of s entries, at most the maximum. *)
Sized(o, s) == /\ pc = "sizing" /\ op = o
               /\ pc' = "attempt"
               /\ size' = s
               /\ first' = s
               /\ seen' = need
               /\ UNCHANGED <<need, changes, op, attempts, result>>

SizingRefused(o, code) == /\ pc = "sizing" /\ op = o
                          /\ Return(Fail(code))
                          /\ seen' = need
                          /\ UNCHANGED <<need, changes, op, counters>>

(* One attempt failed: the next one, with a buffer of s, if there may be one. *)
Again(s, code) == /\ attempts' = attempts + 1
                  /\ IF attempts + 1 = MaxAttempts THEN Return(Fail(code))
                     ELSE Retry(s)

(* getfsstat(nullptr): one entry more than the table has now. *)
SizeMounts == LET expected == Count(need) + 1
              IN IF expected > Maximum THEN SizingRefused("mounts", "value_too_large")
                 ELSE Sized("mounts", expected)

Mutant_reread_same_size ==
    /\ Attempt("mounts")
    /\ LET filled == Min2(Count(need), size)
       IN IF filled < size THEN Return(Ok(filled)) /\ UNCHANGED attempts
          ELSE Again(size, "temporarily_unavailable")
(* getfsstat: as many entries as fit; a full buffer is doubled and read again, *)
(* unless it would be refused by the check at the top of the next iteration.   *)
FillMounts ==
    /\ Attempt("mounts")
    /\ LET filled == Min2(Count(need), size)
       IN IF filled < size THEN Return(Ok(filled)) /\ UNCHANGED attempts
          ELSE IF size * 2 > Maximum /\ attempts + 1 # MaxAttempts
          THEN Return(Fail("value_too_large")) /\ attempts' = attempts + 1
          ELSE Again(size * 2, "temporarily_unavailable")

(* Buffer for an estimate: one eighth and the spare room on top. *)
Padded(estimate) == estimate + estimate \div 8 + Spare

(* sysctl(KERN_PROC_ALL, nullptr). *)
SizeProcs == IF Count(need) = 0 THEN SizingRefused("procs", "not_found")
             ELSE Sized("procs", Padded(need))

(* sysctl: the table, or ENOMEM and a new estimate: what the kernel says is *)
(* required, which may be all it needs or only what it copied, or nothing.  *)
FillProcs ==
    /\ Attempt("procs")
    /\ \/ Count(need) = 0 /\ Return(Fail("malformed_data")) /\ UNCHANGED attempts
       \/ Fits /\ need > 0 /\ Return(Ok(need)) /\ UNCHANGED attempts
       \/ /\ Exceeds
          /\ \E required \in {0, size, need} :
                Again(Padded(IF required > 0 THEN required ELSE size * 2),
                      "temporarily_unavailable")

(* getpwuid_r: no entry or no directory in it, the directory, or ERANGE. *)
LookupHome ==
    /\ Attempt("home")
    /\ \/ need = Absent /\ Return(Fail("nullopt")) /\ UNCHANGED attempts
       \/ Fits /\ Return(Ok(need)) /\ UNCHANGED attempts
       \/ Exceeds /\ Again(size * 2, "value_too_large")

-----------------------------------------------------------------------------
(* Any other failure of the interface (EIO, EMFILE) ends the loop. *)
OtherFailure(o) == \/ /\ Attempt(o) /\ UNCHANGED attempts
                      /\ Return(Fail(IF o = "link" THEN "nullopt" ELSE "native"))
                   \/ SizingRefused(o, "native")

TakeResult == /\ pc = "done"
              /\ pc' = "idle"
              /\ changes' = 0
              /\ op' = "none"
              /\ size' = 1
              /\ attempts' = 0
              /\ first' = 0
              /\ seen' = Absent
              /\ result' = NoResult
              /\ UNCHANGED need

Loop == \/ LookupPasswd \/ CollectGroups \/ LookupLogin \/ ReadLink
        \/ SizeMounts \/ FillMounts \/ SizeProcs \/ FillProcs \/ LookupHome

Next == \/ \E o \in Ops : Begin(o) \/ OtherFailure(o)
        \/ Loop \/ Change \/ TakeResult

Spec == Init /\ [][Next]_vars

(* The caller is scheduled; nobody stops the value from changing. *)
FairSpec == Spec /\ WF_vars(Loop)

-----------------------------------------------------------------------------
ResultType == [kind : {"none", "ok", "error"},
               code : {"none", "not_found", "ERANGE", "malformed_data",
                       "nullopt", "too_long", "native", "value_too_large",
                       "temporarily_unavailable"},
               length : Nat]

(* The buffer never exceeds the maximum (and never becomes empty), except in  *)
(* process_count() and get_user_home_dir(), which only count their attempts.  *)
TypeOK == /\ need \in Lengths \cup {Absent}
          /\ changes \in 0..MaxChanges
          /\ op \in Ops \cup {"none"}
          /\ pc \in {"idle", "sizing", "attempt", "done"}
          /\ size \in Nat \ {0}
          /\ op \notin Unlimited => size <= Maximum
          /\ attempts \in 0..MaxAttempts
          /\ first \in Nat
          /\ seen \in Lengths \cup {Absent}
          /\ result \in ResultType

(***************************************************************************)
(* A value is returned whole: exactly as long as it was when the last      *)
(* attempt read it, however it changed before, and never cut off at the    *)
(* size of the buffer.                                                     *)
(***************************************************************************)
NeverTruncated ==
    result.kind = "ok" => \/ result.length = seen
                          \/ op \in {"groups", "mounts"} /\ seen = Absent /\ result.length = 0

(***************************************************************************)
(* The loops give up for want of room only when the value does not fit the *)
(* largest buffer: the maximum itself, or for readlink, which needs one    *)
(* byte to spare and only doubles, or getfsstat, more than half of it.     *)
(* get_user_home_dir() has no maximum: it does not fit the last buffer.    *)
(***************************************************************************)
GivesUpOnlyAtMaximum ==
    /\ result.code = "ERANGE" => seen > Maximum
    /\ result.code = "too_long" => seen > Maximum \div 2
    /\ result.code = "value_too_large" =>
          IF op = "home" THEN seen > size ELSE 2 * Count(seen) + 1 > Maximum

(***************************************************************************)
(* The capped loops report temporarily_unavailable only for a table that   *)
(* keeps outgrowing them: it changed during the call and did not fit any   *)
(* of the MaxAttempts buffers, each of which was larger than the one       *)
(* before and, for mounts, twice as large. get_user_home_dir() gives up    *)
(* only after it has doubled its buffer MaxAttempts - 1 times.             *)
(***************************************************************************)
GivesUpOnlyIfOutgrown ==
    /\ result.code = "temporarily_unavailable" =>
          /\ changes > 0
          /\ Count(seen) >= size
          /\ size >= first * (IF op = "mounts" THEN 2^(MaxAttempts - 1) ELSE 1)
          /\ size >= first + (MaxAttempts - 1)
    /\ result.code = "value_too_large" /\ op = "home" =>
          size = Initial["home"] * 2^(MaxAttempts - 1)

(* Every loop ends, the capped ones although the table may keep growing. *)
LoopEnds == (pc \in {"sizing", "attempt"}) ~> (pc = "done")
=============================================================================
