-------------------------------- MODULE KsNet --------------------------------
(***************************************************************************)
(* src/ks_net.c on POSIX: each call is the sequence of its system calls,   *)
(* any of which may fail or be interrupted by a signal.  The kernel is the *)
(* set of open descriptors, which of them are non-blocking, and which have *)
(* something to accept, to read or room to send.                           *)
(***************************************************************************)
EXTENDS Integers, FiniteSets, Sequences

CONSTANTS Fds,     \* descriptors the kernel may give
          MaxBytes \* bound of the model: the length of a transfer

ASSUME TransferAssumption == MaxBytes \in Nat \ {0}

VARIABLES open, nonblock, ready, moved, \* the kernel; moved: bytes of the current call
          owned, listeners,             \* descriptors the caller has got and not closed
          call, op, fd,                 \* the call in progress
          status, count                 \* what it returned; *received or *sent

kernel  == <<open, nonblock, ready, moved>>
caller  == <<owned, listeners>>
netVars == <<kernel, caller, call, op, fd, status, count>>

None == "none"

NetInit == /\ open = {} /\ nonblock = {} /\ ready = {} /\ moved = 0
           /\ owned = {} /\ listeners = {}
           /\ call = "idle" /\ op = None /\ fd = None
           /\ status = "OK" /\ count = 0

Returns(r) == call' = "idle" /\ status' = r /\ UNCHANGED <<op, fd, count>>

\* socket or accept gives a descriptor, blocking at first.
Opens(f) == open' = open \cup {f} /\ nonblock' = nonblock \ {f} /\ UNCHANGED moved

\* ks_close.
Closes(f) == open' = open \ {f} /\ nonblock' = nonblock \ {f} /\ ready' = ready \ {f} /\ UNCHANGED moved

-----------------------------------------------------------------------------
(* ks_listen, ks_set_nonblock.                                             *)

\* The calls on a new descriptor, in order; setsockopt to listen for a listener.
Setup == <<"setsockopt", "inet_pton", "bind", "listen", "F_GETFL", "F_SETFL">>

OpenListener(f) == /\ call = "idle"
                   /\ f \in Fds \ open
                   /\ Opens(f) /\ UNCHANGED ready
                   /\ op' = "listen" /\ fd' = f /\ call' = Setup[1]
                   /\ UNCHANGED <<caller, status, count>>

OpenNoSocket == /\ call = "idle"
                /\ status' = "ERROR"
                /\ UNCHANGED <<kernel, caller, call, op, fd, count>>

SetupStep(k) == /\ call = Setup[k] /\ k < Len(Setup)
                /\ call' = Setup[k + 1]
                /\ UNCHANGED <<kernel, caller, op, fd, status, count>>

\* Mutant: O_NONBLOCK is set for the listener only.
NonblockAfterListener == IF op = "listen" THEN nonblock \cup {fd} ELSE nonblock

NonblockAfter == nonblock \cup {fd}

\* The last one succeeds, and the caller gets the descriptor.
HandOut == /\ call = "F_SETFL"
           /\ nonblock' = NonblockAfter /\ UNCHANGED <<open, ready, moved>>
           /\ owned' = owned \cup {fd}
           /\ listeners' = IF op = "listen" THEN listeners \cup {fd} ELSE listeners
           /\ Returns("OK")

\* Mutant: a descriptor that cannot be made non-blocking is forgotten.
ReleasesUnlessFcntl(p) == IF p \in {"F_GETFL", "F_SETFL"} THEN UNCHANGED kernel ELSE Closes(fd)

\* Every error path closes the descriptor.
ReleasesOnError(p) == Closes(fd)

SetupFails == /\ call \in {Setup[k] : k \in DOMAIN Setup}
              /\ ReleasesOnError(call)
              /\ Returns("ERROR")
              /\ UNCHANGED caller

-----------------------------------------------------------------------------
(* ks_accept, ks_recv, ks_send.                                            *)

Call(what, f) == /\ call = "idle"
                 /\ op' = what /\ fd' = f
                 /\ moved' = 0 /\ UNCHANGED <<open, nonblock, ready>>
                 /\ UNCHANGED caller

Accept(f) == f \in listeners /\ Call("accept", f) /\ call' = "syscall" /\ UNCHANGED <<status, count>>

\* The counter is cleared before anything else.
Transfer(what, f) == /\ f \in owned \ listeners
                     /\ Call(what, f)
                     /\ count' = 0
                     /\ call' = "syscall"
                     /\ UNCHANGED status

\* A length of 0 makes no system call.
TransferNothing(what, f) == /\ f \in owned \ listeners
                            /\ Call(what, f)
                            /\ count' = 0
                            /\ status' = "OK" /\ UNCHANGED call

\* EINTR: the system call is made again.
Interrupted == call = "syscall" /\ UNCHANGED netVars

WouldBlock == /\ call = "syscall" /\ fd \notin ready
              /\ Returns("WOULD_BLOCK")
              /\ UNCHANGED <<kernel, caller>>

SyscallFails == call = "syscall" /\ Returns("ERROR") /\ UNCHANGED <<kernel, caller>>

\* accept gives a connection; fd is the new descriptor from here on.
Accepted(f) == /\ call = "syscall" /\ op = "accept" /\ fd \in ready
               /\ f \in Fds \ open
               /\ Opens(f)
               /\ \E r \in {ready, ready \ {fd}} : ready' = r
               /\ fd' = f /\ call' = "F_GETFL"
               /\ UNCHANGED <<caller, op, status, count>>

\* accept finds no free descriptor.
AcceptNoDescriptor == /\ call = "syscall" /\ op = "accept" /\ Fds \subseteq open
                      /\ Returns("ERROR")
                      /\ UNCHANGED <<kernel, caller>>

\* recv or send moves some bytes.
Moved(n) == /\ call = "syscall" /\ op \in {"recv", "send"} /\ fd \in ready
            /\ moved' = n /\ count' = n
            /\ \E r \in {ready, ready \ {fd}} : ready' = r
            /\ UNCHANGED <<open, nonblock, caller, op, fd>>
            /\ call' = "idle" /\ status' = "OK"

\* A result of 0.
Closed == /\ call = "syscall" /\ op \in {"recv", "send"} /\ fd \in ready
          /\ Returns("CLOSED")
          /\ UNCHANGED <<kernel, caller>>

-----------------------------------------------------------------------------
(* The caller, and the peers.                                              *)

Close(f) == /\ call = "idle" /\ f \in owned
            /\ Closes(f)
            /\ owned' = owned \ {f} /\ listeners' = listeners \ {f}
            /\ UNCHANGED <<call, op, fd, status, count>>

\* A connection, bytes or room arrive.
Arrives(f) == /\ f \in open \ ready
              /\ ready' = ready \cup {f}
              /\ UNCHANGED <<open, nonblock, moved, caller, call, op, fd, status, count>>

Calls == \/ OpenNoSocket
         \/ \E f \in Fds : OpenListener(f) \/ Accept(f) \/ Close(f)
         \/ \E f \in Fds, what \in {"recv", "send"} : Transfer(what, f) \/ TransferNothing(what, f)

Steps == \/ \E k \in DOMAIN Setup : SetupStep(k)
         \/ HandOut
         \/ \E f \in Fds : Accepted(f)
         \/ WouldBlock \/ AcceptNoDescriptor
         \/ \E n \in 1 .. MaxBytes : Moved(n)
         \/ Closed

NetNext == Calls \/ Steps \/ SetupFails \/ Interrupted \/ SyscallFails \/ \E f \in Fds : Arrives(f)

NetSpec == NetInit /\ [][NetNext]_netVars

-----------------------------------------------------------------------------
(* Properties.                                                             *)

\* Between two calls the caller knows what the kernel has: the process has
\* exactly those descriptors open that its caller has, after every error path of
\* ks_listen and ks_accept too; and what recv and send report, for every status,
\* is what was moved in this very call, by which the server advances its buffers.
NoLeak == /\ owned \subseteq open
          /\ call = "idle" => open = owned
          /\ call = "idle" /\ op \in {"recv", "send"} => count = moved

\* No call blocks: the single-threaded loop makes system calls only on
\* descriptors that are non-blocking.
NeverBlocks == /\ owned \subseteq nonblock
               /\ call = "syscall" => fd \in nonblock

=============================================================================
