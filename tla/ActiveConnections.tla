------------------------- MODULE ActiveConnections --------------------------
(***************************************************************************)
(* BsActiveConnections (active_connections.c): the registry that lets the  *)
(* main thread interrupt the reads of the workers at shutdown, together    *)
(* with the part of the kernel it acts on, the table of descriptors.       *)
(*                                                                         *)
(* Register, Close and Stop run entirely under connections->mutex, so each *)
(* is one step. close() makes a descriptor number free, and the next       *)
(* accept() may reuse it at once: the table maps a number to the           *)
(* connection it refers to now.                                            *)
(***************************************************************************)
EXTENDS Integers, FiniteSets

CONSTANTS
  Slots,  \* the indices of connections->fds: 0 .. capacity-1
  Fds,    \* the descriptor numbers accept() may return
  Conns,  \* the client connections
  None    \* no connection

VARIABLES
  fds,       \* connections->fds[slot], -1 when the slot is free
  stopping,  \* connections->stopping
  owner,     \* kernel: the connection behind a descriptor number, or None
  readShut   \* kernel: the connections whose read half was shut down

registry == <<fds, stopping>>
kernel == <<owner, readShut>>

-----------------------------------------------------------------------------
(* Changed forms, one plausible bug each. *)

\* registers after the stop without interrupting the coming read
Register_NoShutdown(slot, fd) ==
  /\ fds' = [fds EXCEPT ![slot] = fd]
  /\ UNCHANGED <<stopping, owner, readShut>>

\* closes the descriptor but leaves its number in the registry
Close_StaleSlot(slot, fd) ==
  /\ owner' = [owner EXCEPT ![fd] = None]
  /\ UNCHANGED <<fds, stopping, readShut>>

\* the stop forgets to mark the registry
Stop_NotMarked ==
  /\ readShut' = readShut \cup
       {owner[fds[slot]] : slot \in {s \in Slots : fds[s] >= 0}}
  /\ UNCHANGED <<fds, stopping, owner>>

-----------------------------------------------------------------------------
\* BsActiveConnectionsInit, before any connection exists.
Init ==
  /\ fds = [slot \in Slots |-> -1]
  /\ stopping = FALSE
  /\ owner = [f \in Fds |-> None]
  /\ readShut = {}

FreeSlots == {slot \in Slots : fds[slot] < 0}

\* The scan of BsActiveConnectionsRegister: the first free slot.
FirstFreeSlot == CHOOSE slot \in FreeSlots : \A s \in FreeSlots : slot <= s

\* BsActiveConnectionsRegister returning true, with *out_slot = slot.
Register(slot, fd) ==
  /\ fds' = [fds EXCEPT ![slot] = fd]
  /\ readShut' = IF stopping THEN readShut \cup {owner[fd]} ELSE readShut
  /\ UNCHANGED <<stopping, owner>>

\* close(fd): the number no longer refers to anything.
CloseFd(fd) == owner' = [owner EXCEPT ![fd] = None]

\* BsActiveConnectionsClose: nothing happens unless the slot still holds fd.
Close(slot, fd) ==
  /\ IF fds[slot] = fd
     THEN CloseFd(fd) /\ fds' = [fds EXCEPT ![slot] = -1]
     ELSE UNCHANGED <<fds, owner>>
  /\ UNCHANGED <<stopping, readShut>>

\* BsActiveConnectionsStop: shutdown(fd, SHUT_RD) on every registered number,
\* whatever connection the number refers to at this moment.
Stop ==
  /\ stopping' = TRUE
  /\ readShut' = readShut \cup
       ({owner[fds[slot]] : slot \in Slots \ FreeSlots} \ {None})
  /\ UNCHANGED <<fds, owner>>

-----------------------------------------------------------------------------
TypeOK ==
  /\ fds \in [Slots -> Fds \cup {-1}]
  /\ stopping \in BOOLEAN
  /\ owner \in [Fds -> Conns \cup {None}]
  /\ readShut \subseteq Conns

\* A registered number always refers to a connection: the stop never calls
\* shutdown() on a number that was closed.
RegisteredIsOpen == \A slot \in Slots \ FreeSlots : owner[fds[slot]] # None
=============================================================================
