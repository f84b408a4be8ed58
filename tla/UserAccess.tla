------------------------------ MODULE UserAccess ------------------------------
(***************************************************************************)
(* The wedge's hooks for the guest kernel's access to user memory          *)
(* (afterburn-wedge/l4ka/common/backend.cc).  The guest runs without the   *)
(* user's mappings, so each hook walks the user's range page by page,      *)
(* resolves the page in the guest's page table, lets the guest handle a    *)
(* fault, and touches the page through the wedge's own mapping of it.      *)
(*                                                                         *)
(* A helper must stay in its page: what follows in the wedge's mapping is  *)
(* some other page, so an access beyond the end finds anything.  A byte is *)
(* named by where it was when the call began: user bytes by address,       *)
(* kernel bytes by offset.                                                 *)
(***************************************************************************)
EXTENDS Integers, FiniteSetsExt

CONSTANTS
    PAGE_SIZE,
    Pages,      \* user pages the guest may map
    MaxCount,   \* bound: bytes of a call
    WORD        \* 2^bits of word_t

ASSUME UserAssumption ==
    /\ PAGE_SIZE \in Nat \ {0} /\ Pages \in Nat \ {0} /\ MaxCount \in Nat
    /\ WORD \in Nat /\ WORD > 2 * (Pages + 1) * PAGE_SIZE /\ MaxCount < WORD

Addr == 0 .. Pages * PAGE_SIZE - 1
Starts == 0 .. PAGE_SIZE - 1    \* bound: a range starts in the first page
PageOf(a) == a \div PAGE_SIZE
Offset(a) == a % PAGE_SIZE
Own == -1       \* a byte as it was
Zero == -2      \* cleared
Other == -3     \* of some other page

Walks == {"copy_from_user", "copy_to_user", "clear_user", "strncpy_from_user"}
Hooks == Walks \cup {"strnlen_user", "get_user", "put_user"}
Writes == {"copy_to_user", "clear_user", "put_user"}
PageTables == [0 .. Pages - 1 -> {"none", "ro", "rw"}]

VARIABLES
    perm,       \* the guest's page table: "none", "ro" or "rw"
    dirty,      \* pages whose dirty bit the call has set
    hook, pc,   \* the hook, and where it is
    start, count,       \* its arguments
    nul,        \* the address of the string's NUL, if there is one
    addr, size, \* the page helper's arguments
    remaining, len,
    failed,     \* a page could not be resolved
    result,
    umem, buf   \* the user's range, the kernel's buffer

args == <<hook, start, count, nul>>
vars == <<perm, dirty, args, pc, addr, size, remaining, len, failed, result, umem, buf>>

Init ==
    /\ perm \in PageTables
    /\ dirty = {}
    /\ hook = "get_user" /\ pc = "idle"
    /\ start = 0 /\ count = 0 /\ nul = Own
    /\ addr = 0 /\ size = 0 /\ remaining = 0 /\ len = 0
    /\ failed = FALSE /\ result = 0
    /\ umem = [a \in Addr |-> Own] /\ buf = [k \in 0 .. MaxCount - 1 |-> Own]

-----------------------------------------------------------------------------
(* A page. *)

Allows(p) == p = "rw" \/ (p = "ro" /\ hook \notin Writes)

\* Resolve that takes a page it may only read
ResolveReadOnly(a, ok) ==
    LET p == PageOf(a) IN
    IF p \notin DOMAIN perm THEN ok = FALSE /\ UNCHANGED perm
    ELSE \/ perm[p] # "none" /\ ok = TRUE /\ UNCHANGED perm
         \/ /\ perm[p] = "none"
            /\ perm' \in PageTables
            /\ ok => perm'[p] # "none"

\* uaccess_resolve_addr: the guest handles the fault of a page that is missing or
\* read only, and may leave it so, and change any other page meanwhile; ok: the page
\* is resolved
Resolve(a, ok) ==
    LET p == PageOf(a) IN
    IF p \notin DOMAIN perm THEN ok = FALSE /\ UNCHANGED perm
    ELSE \/ Allows(perm[p]) /\ ok = TRUE /\ UNCHANGED perm
         \/ /\ ~Allows(perm[p])
            /\ perm' \in PageTables
            /\ ok => Allows(perm'[p])

InPage(a, i) == Offset(a) + i < PAGE_SIZE

\* BeforeNul that counts the NUL
BeforeNulCounted(a, n) == IF nul \in a .. a + n - 1 THEN nul - a + 1 ELSE n

\* The number of bytes before the string's end, in a helper's range
BeforeNul(a, n) == IF nul \in a .. a + n - 1 THEN nul - a ELSE n

\* What a helper does to memory at user address a and buffer offset k
Touch(a, k, n) ==
    /\ buf' = [j \in DOMAIN buf |->
                IF hook \in {"copy_from_user", "get_user", "strncpy_from_user"} /\ j \in k .. k + n - 1
                THEN IF InPage(a, j - k) THEN a + (j - k) ELSE Other
                ELSE buf[j]]
    /\ umem' = [b \in Addr |->
                IF hook \in Writes /\ b \in a .. a + n - 1 /\ InPage(a, b - a)
                THEN IF hook = "clear_user" THEN Zero ELSE k + (b - a)
                ELSE umem[b]]

\* set_dirty; every helper sets the accessed bit
MarkDirty(a) == dirty' = IF hook \in Writes THEN dirty \cup {PageOf(a)} ELSE dirty

Untouched == UNCHANGED <<buf, umem, dirty>>

\* Return of the number of bytes that are left
ReturnLeft(r) == pc' = "done" /\ result' = count - r

Return(r) == pc' = "done" /\ result' = r

-----------------------------------------------------------------------------
(* The hooks. *)

\* The guest kernel calls a hook, get_user and put_user with a size they support (any other
\* is an assertion) ...
Call(h, a, n, z) ==
    /\ h \in {"get_user", "put_user"} => n \in {1, 2, 4, 8}
    /\ hook' = h /\ start' = a /\ count' = n /\ nul' = z
    /\ pc' = CASE h \in Walks -> IF Offset(a) # 0 THEN "head" ELSE "loop"
               [] h = "strnlen_user" -> "scan"
               [] OTHER -> "word"
    /\ addr' = a
    /\ size' = IF h = "strnlen_user" THEN Min({PAGE_SIZE - Offset(a), n}) ELSE 0
    /\ remaining' = n
    /\ UNCHANGED <<perm, dirty, len, failed, result, umem, buf>>

\* ... and goes on with the result.
Done ==
    /\ pc = "done" /\ pc' = "idle"
    /\ hook' = "get_user" /\ start' = 0 /\ count' = 0 /\ nul' = Own
    /\ addr' = 0 /\ size' = 0 /\ remaining' = 0 /\ len' = 0
    /\ failed' = FALSE /\ result' = 0 /\ dirty' = {}
    /\ umem' = [b \in Addr |-> Own] /\ buf' = [k \in DOMAIN buf |-> Own]
    /\ UNCHANGED perm

\* One page of a walk: copy_from_user_page, copy_to_user_page, clear_user_page,
\* strncpy_from_user_page.  The string's helper copies the NUL, which it does not
\* count, and is finished.
Page(a, n) ==
    LET k == a - start
        string == hook = "strncpy_from_user"
        did == IF string THEN BeforeNul(a, n) ELSE n
        ended == string /\ did < n
    IN  /\ addr' = a /\ size' = n
        /\ \E ok \in BOOLEAN :
            /\ Resolve(a, ok)
            /\ \/ /\ ok
                  /\ Touch(a, k, IF ended THEN did + 1 ELSE did) /\ MarkDirty(a)
                  /\ remaining' = remaining - did
                  /\ UNCHANGED failed
                  /\ IF ended THEN Return(count - remaining') ELSE pc' = "loop" /\ UNCHANGED result
               \/ /\ ~ok
                  /\ Untouched /\ failed' = TRUE /\ UNCHANGED remaining
                  /\ IF string \/ n > 0 THEN Return(count - remaining)
                     ELSE pc' = "loop" /\ UNCHANGED result
        /\ UNCHANGED <<args, len>>

\* Head that takes a whole page
HeadWholePage ==
    /\ pc = "head"
    /\ Page(start, Min({PAGE_SIZE, remaining}))

\* The part of the first page
Head ==
    /\ pc = "head"
    /\ Page(start, Min({PAGE_SIZE - Offset(start), remaining}))

\* Loop that takes a page even for the rest of the range
LoopRoundsUp ==
    /\ pc = "loop"
    /\ \/ remaining > 0 /\ Page(addr + size, PAGE_SIZE)
       \/ /\ remaining <= 0 /\ Return(count)
          /\ UNCHANGED <<perm, dirty, args, addr, size, remaining, len, failed, umem, buf>>

\* while( remaining )
Loop ==
    /\ pc = "loop"
    /\ \/ remaining > 0 /\ Page(addr + size, Min({PAGE_SIZE, remaining}))
       \/ /\ remaining = 0 /\ Return(count)
          /\ UNCHANGED <<perm, dirty, args, addr, size, remaining, len, failed, umem, buf>>

\* Found that does not count the NUL
FoundNoNul(i, ended) ==
    LET inside == Min({size, PAGE_SIZE - Offset(addr)})
        before == BeforeNul(addr, inside)
    IN  \/ before < inside /\ i = before /\ ended
        \/ before = inside /\ i = size /\ ~ended

\* strnlen_user_page: how far repne scasb gets, and whether it has found the NUL.
\* Beyond the page it may find one anywhere.
Found(i, ended) ==
    LET inside == Min({size, PAGE_SIZE - Offset(addr)})
        before == BeforeNul(addr, inside)
    IN  \/ before < inside /\ i = before + 1 /\ ended
        \/ before = inside /\ i = size /\ ~ended
        \/ before = inside /\ i \in inside + 1 .. size /\ ended

\* strnlen_user's loop.  n =- search_size: the rest of the count becomes the
\* negated size of what was searched.
Scan ==
    /\ pc = "scan" /\ remaining > 0
    /\ \E ok \in BOOLEAN :
        /\ Resolve(addr, ok)
        /\ \/ /\ ~ok /\ failed' = TRUE /\ len' = 0 /\ Return(0)
              /\ UNCHANGED <<addr, size, remaining>>
           \/ /\ ok /\ UNCHANGED failed
              /\ \E i \in 0 .. size, ended \in BOOLEAN :
                  /\ Found(i, ended)
                  /\ len' = len + i
                  /\ \/ ended /\ Return(len') /\ UNCHANGED <<addr, size, remaining>>
                     \/ /\ ~ended
                        /\ addr' = addr + size
                        /\ remaining' = (0 - size) % WORD
                        /\ size' = Min({PAGE_SIZE, remaining'})
                        /\ UNCHANGED <<pc, result>>
    /\ Untouched /\ UNCHANGED args

\* strnlen_user of no bytes
ScanNone ==
    /\ pc = "scan" /\ remaining = 0
    /\ Return(len)
    /\ UNCHANGED <<perm, dirty, args, addr, size, remaining, len, failed, umem, buf>>

\* get_user and put_user: one access, wherever it ends
Word ==
    /\ pc = "word"
    /\ addr' = start /\ size' = count
    /\ \E ok \in BOOLEAN :
        /\ Resolve(start, ok)
        /\ \/ ok /\ Touch(start, 0, count) /\ MarkDirty(start) /\ Return(count) /\ UNCHANGED failed
           \/ ~ok /\ Untouched /\ failed' = TRUE /\ Return(0)
    /\ UNCHANGED <<args, remaining, len>>

Next ==
    \/ /\ pc = "idle"
       /\ \E h \in Hooks, a \in Starts, n \in 0 .. MaxCount, z \in Addr \cup {Own} :
            /\ z # Own => z >= a /\ h \in {"strnlen_user", "strncpy_from_user"}
            /\ Call(h, a, n, z)
    \/ Head \/ Loop \/ Scan \/ ScanNone \/ Word \/ Done

Spec == Init /\ [][Next]_vars

-----------------------------------------------------------------------------
(* Properties. *)

\* The types of the variables.
TypeOK ==
    /\ perm \in PageTables
    /\ dirty \subseteq 0 .. Pages - 1
    /\ hook \in Hooks /\ pc \in {"idle", "head", "loop", "scan", "word", "done"}
    /\ start \in Starts /\ count \in 0 .. MaxCount /\ nul \in Addr \cup {Own}
    /\ addr \in 0 .. (Pages + 1) * PAGE_SIZE - 1 /\ size \in 0 .. Max({PAGE_SIZE, 8})
    /\ remaining \in 0 .. WORD - 1 /\ len \in 0 .. WORD - 1
    /\ failed \in BOOLEAN /\ result \in 0 .. WORD - 1
    /\ umem \in [Addr -> {Own, Zero} \cup 0 .. MaxCount - 1]
    /\ buf \in [0 .. MaxCount - 1 -> Addr \cup {Own, Other}]

\* A page helper stays in the page it has resolved: the walks split the range at
\* page ends, from any start and for any count.  strnlen_user keeps to this until
\* it has searched its count.
HelperInPage ==
    hook \in Walks \/ (hook = "strnlen_user" /\ addr < start + count)
        => Offset(addr) + size <= PAGE_SIZE

Transferred(k) == start + k \in Addr /\
    CASE hook = "copy_from_user" -> buf[k] = start + k
      [] hook = "copy_to_user" -> umem[start + k] = k
      [] hook = "clear_user" -> umem[start + k] = Zero

\* The copies and clear_user return how many bytes they have done: these, in
\* place and no other; fewer than asked for only when a page cannot be resolved.
CopyExact ==
    pc = "done" /\ hook \in {"copy_from_user", "copy_to_user", "clear_user"} =>
        /\ result <= count /\ (result < count => failed)
        /\ \A k \in 0 .. result - 1 : Transferred(k)
        /\ \A k \in result .. MaxCount - 1 : buf[k] = Own
        /\ \A b \in Addr : umem[b] # Own => b \in start .. start + result - 1

\* strncpy_from_user returns the length of the string without its NUL, or the
\* count; it has copied that much, and the NUL if there was room for it.
StrncpyExact ==
    pc = "done" /\ hook = "strncpy_from_user" =>
        LET whole == IF nul \in start .. start + count - 1 THEN nul - start ELSE count
            copied == IF ~failed /\ whole < count THEN whole + 1 ELSE result
        IN  /\ failed \/ result = whole
            /\ result <= whole
            /\ \A k \in 0 .. MaxCount - 1 : buf[k] = IF k < copied THEN start + k ELSE Own

\* strnlen_user "must include the size of the terminating NULL" (backend.cc:1456): if the
\* string ends within the count, the result is its size, over any number of pages and
\* although the rest of the count is computed wrongly between them; if it does not, the
\* result says so, by 0 if a page is missing or else by more than the count.
StrnlenFound ==
    pc = "done" /\ hook = "strnlen_user" /\ count > 0 =>
        \/ failed /\ result = 0
        \/ ~failed /\ nul \in start .. start + count - 1 /\ result = nul - start + 1
        \/ ~failed /\ nul \notin start .. start + count - 1 /\ result > count

\* A page is written only while it is writable, and made dirty, so that the guest will not
\* drop it: a page the guest maps read only, to copy it when it is written, is not written
\* before the guest has handled the fault, whatever that does to the page table.
PagesWritten ==
    [][\A b \in Addr : umem'[b] # umem[b] /\ pc' # "idle" =>
          PageOf(b) \in dirty' /\ perm'[PageOf(b)] = "rw"]_vars
===============================================================================
