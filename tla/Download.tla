------------------------------ MODULE Download ------------------------------
(***************************************************************************)
(* What the download engine of GreenBag promises, without chunks, segments *)
(* or sockets: a file of Size bytes is fetched over several links.  A byte *)
(* is first unassigned (all of them at or above the frontier), then owed   *)
(* by exactly one link, and finally stored.  The engine may at any time    *)
(* hand out the bytes after the frontier, and may take back what one link  *)
(* still owes and divide it again together with fresh bytes (recovery).    *)
(* A stored byte is never asked for again and an owed byte is never lost.  *)
(***************************************************************************)
EXTENDS Integers

CONSTANTS Size,       \* of the file, a positive number
          Conn        \* the links

VARIABLES stored,     \* the bytes that are in the output file
          owed,       \* for each link, the bytes it still has to deliver
          frontier    \* the first byte no link has been asked for

vars == <<stored, owed, frontier>>

Byte == 0 .. Size - 1
Ledger == [Conn -> SUBSET Byte]

\* The bytes from one frontier up to, and excluding, the next.
Fresh(f, g) == f .. g - 1

\* The bytes of B are divided between the links, none of them twice.
Divides(share, B) ==
  /\ \A b \in B : \E c \in Conn : b \in share[c]
  /\ \A c \in Conn : share[c] \subseteq B
  /\ \A c, d \in Conn : c # d => share[c] \cap share[d] = {}

Init ==
  /\ stored = {}
  /\ frontier \in 1 .. Size
  /\ owed \in Ledger
  /\ Divides(owed, Fresh(0, frontier))

\* Link c delivers bytes it was asked for.
Deliver(c) ==
  /\ owed' \in Ledger
  /\ owed'[c] \subseteq owed[c]
  /\ \A d \in Conn \ {c} : owed'[d] = owed[d]
  /\ stored' = stored \cup (owed[c] \ owed'[c])
  /\ UNCHANGED frontier

\* The next bytes of the file are divided, on top of what the links owe.
Extend ==
  /\ frontier' \in frontier + 1 .. Size
  /\ owed' \in Ledger
  /\ \A c \in Conn : owed[c] \subseteq owed'[c]
  /\ Divides([c \in Conn |-> owed'[c] \ owed[c]], Fresh(frontier, frontier'))
  /\ UNCHANGED stored

\* What link d owes is taken back and divided again, with fresh bytes.
Reassign(d) ==
  /\ frontier' \in frontier .. Size
  /\ owed' \in Ledger
  /\ \A c \in Conn \ {d} : owed[c] \subseteq owed'[c]
  /\ Divides([c \in Conn |-> IF c = d THEN owed'[c] ELSE owed'[c] \ owed[c]],
             owed[d] \cup Fresh(frontier, frontier'))
  /\ UNCHANGED stored

Next == Extend \/ \E c \in Conn : Deliver(c) \/ Reassign(c)

Spec == Init /\ [][Next]_vars
-----------------------------------------------------------------------------
TypeOK ==
  /\ stored \subseteq Byte
  /\ owed \in Ledger
  /\ frontier \in 1 .. Size

\* However often work is divided, delivered and divided again, every byte
\* below the frontier is stored or owed, none of them by two links or after
\* it was stored, and no other byte is: the chunk lists of the engine
\* (offset.c, recovery.c) neither lose a byte nor fetch one twice.
Partition ==
  /\ \A b \in Byte : b < frontier <=>
       b \in stored \/ \E c \in Conn : b \in owed[c]
  /\ \A c \in Conn : owed[c] \cap stored = {}
  /\ \A c, d \in Conn : c # d => owed[c] \cap owed[d] = {}

\* Work is never undone: a stored byte stays stored and no later division,
\* recovery included, asks a link for it again.
NeverAskedAgain ==
  [][stored \subseteq stored' /\ \A c \in Conn : owed'[c] \cap stored = {}]_vars
=============================================================================
